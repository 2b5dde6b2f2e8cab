--------------------------- MODULE DWARFFormsProofs ---------------------------
(***************************************************************************)
(* Proofs about the bytes of objects: the table of abbreviations and the   *)
(* DIE read are those written.                                             *)
(***************************************************************************)
EXTENDS DWARFForms, SequenceTheorems, Induction

------------------------------------------------------------------------------
(* Sequences of sequences, one after the other *)

\* The first n of them.
UpTo(seqs, n) == FlattenSeq([i \in 1..n |-> seqs[i]])

LEMMA FlattenEmpty == ASSUME NEW seqs PROVE UpTo(seqs, 0) = << >>
  BY DEF UpTo, FlattenSeq

LEMMA LengthType == ASSUME NEW S, NEW s \in Seq(S) PROVE Len(s) \in Nat
  OBVIOUS

Cat(s, t) == s \o t

LEMMA CatProperties ==
  ASSUME NEW S, NEW s \in Seq(S), NEW t \in Seq(S)
  PROVE  /\ Cat(s, t) \in Seq(S) /\ Len(Cat(s, t)) = Len(s) + Len(t)
         /\ \A i \in 1..(Len(s) + Len(t)) : Cat(s, t)[i] = IF i <= Len(s) THEN s[i] ELSE t[i - Len(s)]
  BY ConcatProperties DEF Cat

\* P holds the concatenations of the first 0, 1, ..., n of them.
Concats(P, seqs, S, n) ==
  /\ P \in [0..n -> Seq(S)] /\ P[0] = << >>
  /\ \A i \in 1..n : seqs[i] \in Seq(S) /\ P[i] = Cat(P[i - 1], seqs[i])

LEMMA ConcatsExist ==
  ASSUME NEW S, NEW n \in Nat, NEW seqs, \A i \in 1..n : seqs[i] \in Seq(S)
  PROVE  \E P : Concats(P, seqs, S, n)
<1> DEFINE step == [p \in Seq(S) \X (1..n) |-> Cat(p[1], seqs[p[2]])]
<1>1. step \in [Seq(S) \X (1..n) -> Seq(S)]
  <2>1. ASSUME NEW p \in Seq(S) \X (1..n) PROVE Cat(p[1], seqs[p[2]]) \in Seq(S)
    BY CatProperties
  <2> QED
    BY <2>1
<1>2. << >> \in Seq(S)
  OBVIOUS
<1> HIDE DEF step
<1>3. PICK P \in [0..n -> Seq(S)] : Recursion(P, << >>, step, n)
  BY <1>1, <1>2, RecursionExists
<1>4. ASSUME NEW i \in 1..n PROVE seqs[i] \in Seq(S) /\ P[i] = Cat(P[i - 1], seqs[i])
  <2>1. P[i] = step[<<P[i - 1], i>>]
    BY <1>3 DEF Recursion
  <2>2. <<P[i - 1], i>> \in Seq(S) \X (1..n)
    OBVIOUS
  <2> QED
    BY <2>1, <2>2 DEF step
<1>5. P[0] = << >>
  BY <1>3 DEF Recursion
<1> QED
  BY <1>4, <1>5, Zenon DEF Concats

\* From one to the next.
LEMMA ConcatsStep ==
  ASSUME NEW S, NEW n \in Nat, NEW seqs, NEW P, Concats(P, seqs, S, n), NEW m \in 1..n
  PROVE  /\ P[m - 1] \in Seq(S) /\ seqs[m] \in Seq(S)
         /\ P[m] \in Seq(S) /\ P[m] = Cat(P[m - 1], seqs[m])
<1>1. m - 1 \in 0..n /\ m \in 0..n
  OBVIOUS
<1>2. P \in [0..n -> Seq(S)] /\ seqs[m] \in Seq(S) /\ P[m] = Cat(P[m - 1], seqs[m])
  BY Zenon DEF Concats
<1> QED
  BY <1>1, <1>2, Zenon

\* FlattenSeq is the last of them.
LEMMA FlattenIsConcat ==
  ASSUME NEW S, NEW n \in Nat, n # 0, NEW seqs, NEW P, Concats(P, seqs, S, n)
  PROVE  UpTo(seqs, n) = P[n]
<1>1. ASSUME NEW i \in 1..n PROVE seqs[i] \in Seq(S) /\ P[i] = Cat(P[i - 1], seqs[i])
  BY ConcatsStep
<1> DEFINE s == [i \in 1..n |-> seqs[i]]
           Defines(f) == f = [i \in 1..n |-> IF i = 1 THEN s[i] ELSE Cat(f[i - 1], s[i])]
           f == CHOOSE f : Defines(f)
<1>2. P[1] = seqs[1]
  <2>1. P[0] = << >> /\ 1 \in 1..n /\ 1 - 1 = 0
    BY DEF Concats
  <2>2. seqs[1] \in Seq(S) /\ P[1] = Cat(<< >>, seqs[1])
    BY <2>1, ConcatsStep
  <2> QED
    BY <2>2, ConcatEmptySeq DEF Cat
<1>3. Defines([i \in 1..n |-> P[i]])
  <2>1. ASSUME NEW i \in 1..n PROVE P[i] = IF i = 1 THEN s[i] ELSE Cat([j \in 1..n |-> P[j]][i - 1], s[i])
    <3>1. s[i] = seqs[i]
      OBVIOUS
    <3>2. i # 1 => i - 1 \in 1..n
      OBVIOUS
    <3>3. i # 1 => [j \in 1..n |-> P[j]][i - 1] = P[i - 1]
      BY <3>2, Zenon
    <3>4. P[i] = Cat(P[i - 1], seqs[i])
      BY <1>1
    <3> QED
      BY <1>2, <3>1, <3>3, <3>4, Zenon
  <2> QED
    BY <2>1, Zenon
<1>4. Defines(f)
  BY <1>3
<1>5. Len(s) = n
  OBVIOUS
<1>6. UpTo(seqs, n) = f[n]
  BY <1>5 DEF UpTo, FlattenSeq, Cat
<1> HIDE DEF f
<1>7. ASSUME NEW i \in 1..n PROVE f[i] = IF i = 1 THEN seqs[i] ELSE Cat(f[i - 1], seqs[i])
  BY <1>4
<1> DEFINE Same == {i \in 0..n : i > 0 => f[i] = P[i]}
<1> HIDE DEF Defines, s
<1>8. 0 \in Same
  OBVIOUS
<1>9. ASSUME NEW i \in 1..n, i - 1 \in Same PROVE i \in Same
  <2>1. f[i] = P[i]
    <3>1. CASE i = 1
      BY <1>2, <1>7, <3>1, Zenon
    <3>2. CASE i # 1
      <4>1. i - 1 > 0
        BY <3>2
      <4>2. f[i - 1] = P[i - 1]
        BY <1>9, <4>1, Zenon
      <4>3. P[i] = Cat(P[i - 1], seqs[i])
        BY <1>1
      <4> QED
        BY <1>7, <3>2, <4>2, <4>3, Zenon
    <3> QED
      BY <3>1, <3>2
  <2> QED
    BY <2>1
<1>10. n \in Same
  <2> HIDE DEF Same
  <2>1. \A i \in 0..n : i \in Same
    BY <1>8, <1>9, InductionTo
  <2> QED
    BY <2>1
<1> QED
  BY <1>6, <1>10

\* The concatenations are those of the elements up to each.
LEMMA Flattens ==
  ASSUME NEW S, NEW n \in Nat, NEW seqs, NEW P, Concats(P, seqs, S, n), NEW m \in 0..n
  PROVE  UpTo(seqs, m) = P[m]
<1>1. CASE m = 0
  <2>1. P[0] = << >>
    BY DEF Concats
  <2> QED
    BY <1>1, <2>1, FlattenEmpty
<1>2. CASE m # 0
  <2> DEFINE Q == [i \in 0..m |-> P[i]]
  <2>1. P \in [0..n -> Seq(S)] /\ P[0] = << >>
    BY DEF Concats
  <2>2. Q \in [0..m -> Seq(S)] /\ Q[0] = << >> /\ Q[m] = P[m] /\ m \in Nat
    BY <1>2, <2>1
  <2>3. ASSUME NEW i \in 1..m PROVE seqs[i] \in Seq(S) /\ Q[i] = Cat(Q[i - 1], seqs[i])
    <3>1. i \in 1..n /\ i \in 0..m /\ i - 1 \in 0..m
      OBVIOUS
    <3>2. seqs[i] \in Seq(S) /\ P[i] = Cat(P[i - 1], seqs[i])
      BY <3>1, ConcatsStep
    <3>3. Q[i] = P[i] /\ Q[i - 1] = P[i - 1]
      BY <3>1, Zenon
    <3> QED
      BY <3>2, <3>3, Zenon
  <2>4. Concats(Q, seqs, S, m)
    <3> HIDE DEF Q
    <3> QED
      BY <2>2, <2>3, Zenon DEF Concats
  <2> QED
    BY <1>2, <2>2, <2>4, FlattenIsConcat
<1> QED
  BY <1>1, <1>2

\* One more.
LEMMA UpToStep ==
  ASSUME NEW S, NEW n \in Nat, NEW seqs, NEW P, Concats(P, seqs, S, n), NEW m \in 1..n
  PROVE  /\ UpTo(seqs, m - 1) \in Seq(S) /\ UpTo(seqs, m) \in Seq(S)
         /\ Len(UpTo(seqs, m)) = Len(UpTo(seqs, m - 1)) + Len(seqs[m])
<1> SUFFICES ASSUME NEW s, NEW t, s = P[m - 1], t = seqs[m]
             PROVE  /\ UpTo(seqs, m - 1) \in Seq(S) /\ UpTo(seqs, m) \in Seq(S)
                    /\ Len(UpTo(seqs, m)) = Len(UpTo(seqs, m - 1)) + Len(t)
  OBVIOUS
<1>1. m - 1 \in 0..n /\ m \in 0..n
  OBVIOUS
<1>2. s \in Seq(S) /\ t \in Seq(S) /\ P[m] = Cat(s, t)
  BY ConcatsStep
<1>3. UpTo(seqs, m - 1) = s
  BY <1>1, Flattens
<1>4. UpTo(seqs, m) = Cat(s, t)
  BY <1>1, <1>2, Flattens
<1>5. Cat(s, t) \in Seq(S) /\ Len(Cat(s, t)) = Len(s) + Len(t)
  BY <1>2, CatProperties
<1> QED
  BY <1>2, <1>3, <1>4, <1>5, Zenon

LEMMA FlattenStep ==
  ASSUME NEW S, NEW n \in Nat, NEW seqs, \A i \in 1..n : seqs[i] \in Seq(S), NEW m \in 1..n
  PROVE  /\ UpTo(seqs, m - 1) \in Seq(S) /\ UpTo(seqs, m) \in Seq(S)
         /\ Len(UpTo(seqs, m)) = Len(UpTo(seqs, m - 1)) + Len(seqs[m])
<1>1. PICK P : Concats(P, seqs, S, n)
  BY ConcatsExist
<1> QED
  BY <1>1, UpToStep

\* Where the elements are: element j begins after those before it.
LEMMA FlattenAt ==
  ASSUME NEW S, NEW n \in Nat, NEW seqs, \A i \in 1..n : seqs[i] \in Seq(S),
         NEW j \in 1..n, NEW k \in 1..Len(seqs[j])
  PROVE  /\ Len(UpTo(seqs, j - 1)) + k \in 1..Len(UpTo(seqs, n))
         /\ UpTo(seqs, n)[Len(UpTo(seqs, j - 1)) + k] = seqs[j][k]
<1>1. PICK P : Concats(P, seqs, S, n)
  BY ConcatsExist
<1>2. P[j - 1] \in Seq(S) /\ seqs[j] \in Seq(S)
  BY <1>1, ConcatsStep
<1>3. PICK at \in Nat : at = Len(P[j - 1]) + k
  BY <1>2
<1>4. PICK e : e = seqs[j][k]
  OBVIOUS
<1> DEFINE Holds(s) == at \in 1..Len(s) /\ s[at] = e
           Has == {m \in 0..n : m >= j => Holds(P[m])}
<1>5. 0 \in Has
  OBVIOUS
<1>6. ASSUME NEW m \in 1..n, m - 1 \in Has PROVE m \in Has
  <2>1. PICK s, t : s = P[m - 1] /\ t = seqs[m]
    OBVIOUS
  <2>2. s \in Seq(S) /\ t \in Seq(S) /\ P[m] = Cat(s, t)
    BY <1>1, <2>1, ConcatsStep
  <2>3. /\ Len(Cat(s, t)) = Len(s) + Len(t)
        /\ \A i \in 1..(Len(s) + Len(t)) : Cat(s, t)[i] = IF i <= Len(s) THEN s[i] ELSE t[i - Len(s)]
    BY <2>2, CatProperties
  <2>4. Len(s) \in Nat /\ Len(t) \in Nat
    BY <2>2
  <2>5. CASE m > j
    <3>1. m - 1 >= j
      BY <2>5
    <3>2. Holds(s)
      BY <1>6, <2>1, <3>1, Zenon
    <3>3. Holds(Cat(s, t))
      BY <2>3, <2>4, <3>2
    <3>4. m \in 0..n /\ Holds(P[m])
      BY <2>2, <3>3
    <3> HIDE DEF Holds
    <3> QED
      BY <3>4, Zenon
  <2>6. CASE m = j
    <3>1. at = Len(s) + k /\ k \in 1..Len(t) /\ e = t[k]
      BY <1>3, <1>4, <2>1, <2>6, Zenon
    <3>2. at \in 1..(Len(s) + Len(t)) /\ ~(at <= Len(s)) /\ at - Len(s) = k
      BY <2>4, <3>1
    <3>3. Holds(Cat(s, t))
      BY <2>3, <3>1, <3>2
    <3>4. m \in 0..n /\ Holds(P[m])
      BY <2>2, <3>3
    <3> HIDE DEF Holds
    <3> QED
      BY <3>4, Zenon
  <2>7. CASE m < j
    BY <2>7
  <2> QED
    BY <2>5, <2>6, <2>7
<1>7. n \in Has
  <2> HIDE DEF Has
  <2>1. \A m \in 0..n : m \in Has
    BY <1>5, <1>6, InductionTo
  <2> QED
    BY <2>1
<1>8. at \in 1..Len(P[n]) /\ P[n][at] = e
  <2>1. n >= j
    OBVIOUS
  <2> QED
    BY <1>7, <2>1, Zenon
<1>9. UpTo(seqs, j - 1) = P[j - 1]
  <2>1. j - 1 \in 0..n
    OBVIOUS
  <2> QED
    BY <1>1, <2>1, Flattens
<1>10. UpTo(seqs, n) = P[n]
  <2>1. n \in 0..n
    OBVIOUS
  <2> QED
    BY <1>1, <2>1, Flattens
<1> QED
  BY <1>3, <1>4, <1>8, <1>9, <1>10, Zenon

------------------------------------------------------------------------------
(* Forms *)

LEMMA FormsListed ==
  /\ Forms = {"addr", "block2", "block4", "data2", "data4", "data8", "string", "block", "block1", "data1",
              "flag", "sdata", "strp", "udata", "ref_addr", "ref1", "ref2", "ref4", "ref8", "ref_udata",
              "indirect", "sec_offset", "exprloc", "flag_present", "ref_sig8"}
  /\ Fixed = {"data1", "flag", "ref1", "data2", "ref2", "data4", "ref4", "data8", "ref8", "ref_sig8",
              "ref_addr", "sec_offset", "strp", "flag_present", "addr"}
  BY DEF Forms, FormCode, Fixed, FixedSize

LEMMA FormCodes ==
  /\ FormCode["addr"] = 1 /\ FormCode["block2"] = 3 /\ FormCode["block4"] = 4 /\ FormCode["data2"] = 5
  /\ FormCode["data4"] = 6 /\ FormCode["data8"] = 7 /\ FormCode["string"] = 8 /\ FormCode["block"] = 9
  /\ FormCode["block1"] = 10 /\ FormCode["data1"] = 11 /\ FormCode["flag"] = 12 /\ FormCode["sdata"] = 13
  /\ FormCode["strp"] = 14 /\ FormCode["udata"] = 15 /\ FormCode["ref_addr"] = 16 /\ FormCode["ref1"] = 17
  /\ FormCode["ref2"] = 18 /\ FormCode["ref4"] = 19 /\ FormCode["ref8"] = 20 /\ FormCode["ref_udata"] = 21
  /\ FormCode["indirect"] = 22 /\ FormCode["sec_offset"] = 23 /\ FormCode["exprloc"] = 24
  /\ FormCode["flag_present"] = 25 /\ FormCode["ref_sig8"] = 32
  BY DEF FormCode

LEMMA FixedSizes ==
  /\ FixedSize(AddrSize)["data1"] = 1 /\ FixedSize(AddrSize)["flag"] = 1 /\ FixedSize(AddrSize)["ref1"] = 1
  /\ FixedSize(AddrSize)["data2"] = 2 /\ FixedSize(AddrSize)["ref2"] = 2
  /\ FixedSize(AddrSize)["data4"] = 4 /\ FixedSize(AddrSize)["ref4"] = 4
  /\ FixedSize(AddrSize)["data8"] = 8 /\ FixedSize(AddrSize)["ref8"] = 8 /\ FixedSize(AddrSize)["ref_sig8"] = 8
  /\ FixedSize(AddrSize)["ref_addr"] = 4 /\ FixedSize(AddrSize)["sec_offset"] = 4
  /\ FixedSize(AddrSize)["strp"] = 4 /\ FixedSize(AddrSize)["flag_present"] = 0
  /\ FixedSize(AddrSize)["addr"] = AddrSize
  BY DEF FixedSize

LEMMA TypeSizes ==
  /\ DTypeSize["One"] = 1 /\ DTypeSize["Two"] = 2 /\ DTypeSize["Four"] = 4 /\ DTypeSize["Eight"] = 8
  /\ DTypeSize["DWARFAddr"] = 4 /\ DTypeSize["MachineAddr"] = AddrSize
  BY DEF DTypeSize

\* The code of a form is one the reader knows.
LEMMA CodesKnown ==
  ASSUME NEW form \in Forms
  PROVE  FormCode[form] \in 1..127 /\ FormCode[form] \in KnownForms
<1>1. ASSUME NEW code, code \in (1..32) \ {2, 26, 27, 28, 29, 30, 31} PROVE code \in 1..127 /\ code \in KnownForms
  BY <1>1 DEF KnownForms
<1>2. FormCode[form] \in (1..32) \ {2, 26, 27, 28, 29, 30, 31}
  BY FormsListed, FormCodes
<1> QED
  BY <1>1, <1>2

NumberTypes == {"One", "Two", "Four", "Eight", "DWARFAddr", "MachineAddr"}

\* How values of a form are read, by what the reader takes the form for.
LEMMA FormClasses ==
  ASSUME NEW form \in Forms, NEW type, type = get_DW_FORM(FormCode[form])
  PROVE  \/ form = "string" /\ type = "String"
         \/ form = "exprloc" /\ type = "Exprloc"
         \/ form \in {"udata", "ref_udata"} /\ type = "ULEB128"
         \/ form \in {"sdata", "block", "indirect"} /\ type \in {"LEB128", "Indirect"}
         \/ form = "flag_present" /\ type = "Zero"
         \/ form = "strp" /\ type = "StringPtr"
         \/ form \in {"block1", "block2", "block4"} /\ type \in NumberTypes
         \/ /\ form \in Fixed \ {"strp", "flag_present"} /\ type \in NumberTypes
            /\ DTypeSize[type] = FixedSize(AddrSize)[form]
<1>1. CASE form \in Fixed
  <2>1. CASE form \in {"data1", "flag", "ref1"}
    <3>1. type = "One"
      BY <2>1, FormCodes DEF get_DW_FORM
    <3> QED
      BY <2>1, <3>1, FormsListed, FixedSizes, TypeSizes DEF NumberTypes
  <2>2. CASE form \in {"data2", "ref2"}
    <3>1. type = "Two"
      BY <2>2, FormCodes DEF get_DW_FORM
    <3> QED
      BY <2>2, <3>1, FormsListed, FixedSizes, TypeSizes DEF NumberTypes
  <2>3. CASE form \in {"data4", "ref4"}
    <3>1. type = "Four"
      BY <2>3, FormCodes DEF get_DW_FORM
    <3> QED
      BY <2>3, <3>1, FormsListed, FixedSizes, TypeSizes DEF NumberTypes
  <2>4. CASE form \in {"data8", "ref8", "ref_sig8"}
    <3>1. type = "Eight"
      BY <2>4, FormCodes DEF get_DW_FORM
    <3> QED
      BY <2>4, <3>1, FormsListed, FixedSizes, TypeSizes DEF NumberTypes
  <2>5. CASE form \in {"ref_addr", "sec_offset"}
    <3>1. type = "DWARFAddr"
      BY <2>5, FormCodes DEF get_DW_FORM
    <3> QED
      BY <2>5, <3>1, FormsListed, FixedSizes, TypeSizes DEF NumberTypes
  <2>6. CASE form = "addr"
    <3>1. type = "MachineAddr"
      BY <2>6, FormCodes DEF get_DW_FORM
    <3> QED
      BY <2>6, <3>1, FormsListed, FixedSizes, TypeSizes DEF NumberTypes
  <2>7. CASE form = "strp"
    BY <2>7, FormCodes DEF get_DW_FORM
  <2>8. CASE form = "flag_present"
    BY <2>8, FormCodes DEF get_DW_FORM
  <2> QED
    BY <1>1, <2>1, <2>2, <2>3, <2>4, <2>5, <2>6, <2>7, <2>8, FormsListed
<1>2. CASE form \notin Fixed
  <2>1. CASE form = "string"
    <3>1. type = "String"
      BY <2>1, FormCodes DEF get_DW_FORM
    <3> QED
      BY <2>1, <3>1 DEF NumberTypes
  <2>2. CASE form = "exprloc"
    <3>1. type = "Exprloc"
      BY <2>2, FormCodes DEF get_DW_FORM
    <3> QED
      BY <2>2, <3>1 DEF NumberTypes
  <2>3. CASE form = "udata"
    <3>1. type = "ULEB128"
      BY <2>3, FormCodes DEF get_DW_FORM
    <3> QED
      BY <2>3, <3>1 DEF NumberTypes
  <2>4. CASE form = "ref_udata"
    <3>1. type = "ULEB128"
      BY <2>4, FormCodes DEF get_DW_FORM
    <3> QED
      BY <2>4, <3>1 DEF NumberTypes
  <2>5. CASE form = "sdata"
    <3>1. type = "LEB128"
      BY <2>5, FormCodes DEF get_DW_FORM
    <3> QED
      BY <2>5, <3>1 DEF NumberTypes
  <2>6. CASE form = "block"
    <3>1. type = "LEB128"
      BY <2>6, FormCodes DEF get_DW_FORM
    <3> QED
      BY <2>6, <3>1 DEF NumberTypes
  <2>7. CASE form = "indirect"
    <3>1. type = "Indirect"
      BY <2>7, FormCodes DEF get_DW_FORM
    <3> QED
      BY <2>7, <3>1 DEF NumberTypes
  <2>8. CASE form = "block1"
    <3>1. type = "One"
      BY <2>8, FormCodes DEF get_DW_FORM
    <3> QED
      BY <2>8, <3>1 DEF NumberTypes
  <2>9. CASE form = "block2"
    <3>1. type = "Two"
      BY <2>9, FormCodes DEF get_DW_FORM
    <3> QED
      BY <2>9, <3>1 DEF NumberTypes
  <2>10. CASE form = "block4"
    <3>1. type = "Four"
      BY <2>10, FormCodes DEF get_DW_FORM
    <3> QED
      BY <2>10, <3>1 DEF NumberTypes
  <2> QED
    BY <1>2, <2>1, <2>2, <2>3, <2>4, <2>5, <2>6, <2>7, <2>8, <2>9, <2>10, FormsListed
<1> QED
  BY <1>1, <1>2

LEMMA SizesSmall ==
  ASSUME NEW form \in Fixed
  PROVE  FixedSize(AddrSize)[form] \in 0..8
  BY AddrSizeAssumption, FormsListed, FixedSizes

------------------------------------------------------------------------------
(* Bytes in other bytes *)

\* The elements of t follow the first n of s.
Occurs(t, s, n) == \A k \in 1..Len(t) : n + k \in 1..Len(s) /\ s[n + k] = t[k]

LEMMA OccursIn ==
  ASSUME NEW s, NEW t, NEW u, Len(s) \in Nat, Len(t) \in Nat, Len(u) \in Nat,
         NEW n \in Nat, NEW m \in Nat, Occurs(t, s, n), Occurs(u, t, m)
  PROVE  Occurs(u, s, n + m)
<1>1. ASSUME NEW k \in 1..Len(u) PROVE n + m + k \in 1..Len(s) /\ s[n + m + k] = u[k]
  <2>1. m + k \in 1..Len(t) /\ t[m + k] = u[k]
    BY DEF Occurs
  <2>2. n + (m + k) \in 1..Len(s) /\ s[n + (m + k)] = t[m + k]
    BY <2>1 DEF Occurs
  <2>3. n + (m + k) = n + m + k
    OBVIOUS
  <2> QED
    BY <2>1, <2>2, <2>3
<1> QED
  BY <1>1 DEF Occurs

LEMMA CatOccurs ==
  ASSUME NEW S, NEW s \in Seq(S), NEW t \in Seq(S)
  PROVE  /\ Cat(s, t) \in Seq(S) /\ Len(Cat(s, t)) = Len(s) + Len(t)
         /\ Occurs(s, Cat(s, t), 0) /\ Occurs(t, Cat(s, t), Len(s))
<1>1. /\ Cat(s, t) \in Seq(S) /\ Len(Cat(s, t)) = Len(s) + Len(t)
      /\ \A i \in 1..(Len(s) + Len(t)) : Cat(s, t)[i] = IF i <= Len(s) THEN s[i] ELSE t[i - Len(s)]
  BY CatProperties
<1>2. PICK a \in Nat, b \in Nat : a = Len(s) /\ b = Len(t)
  OBVIOUS
<1> DEFINE c == Cat(s, t)
<1> HIDE DEF c
<1>3. Len(c) = a + b /\ \A i \in 1..(a + b) : c[i] = IF i <= a THEN s[i] ELSE t[i - a]
  BY <1>1, <1>2, Zenon DEF c
<1>4. Occurs(s, c, 0)
  BY <1>2, <1>3 DEF Occurs
<1>5. Occurs(t, c, a)
  <2>1. ASSUME NEW k \in 1..b PROVE a + k \in 1..Len(c) /\ c[a + k] = t[k]
    <3>1. a + k \in 1..(a + b) /\ ~(a + k <= a) /\ a + k - a = k
      OBVIOUS
    <3> QED
      BY <1>3, <3>1
  <2> QED
    BY <1>2, <2>1 DEF Occurs
<1> QED
  BY <1>1, <1>2, <1>4, <1>5, Zenon DEF c

LEMMA FlattenOccurs ==
  ASSUME NEW S, NEW n \in Nat, NEW seqs, \A i \in 1..n : seqs[i] \in Seq(S), NEW j \in 1..n
  PROVE  Occurs(seqs[j], UpTo(seqs, n), Len(UpTo(seqs, j - 1)))
<1>1. ASSUME NEW k \in 1..Len(seqs[j])
      PROVE  /\ Len(UpTo(seqs, j - 1)) + k \in 1..Len(UpTo(seqs, n))
             /\ UpTo(seqs, n)[Len(UpTo(seqs, j - 1)) + k] = seqs[j][k]
  BY FlattenAt
<1> QED
  BY <1>1, Zenon DEF Occurs

LEMMA UpToType ==
  ASSUME NEW S, NEW n \in Nat, NEW seqs, \A i \in 1..n : seqs[i] \in Seq(S), NEW m \in 0..n
  PROVE  UpTo(seqs, m) \in Seq(S)
<1>1. CASE m = 0
  <2>1. << >> \in Seq(S)
    OBVIOUS
  <2> QED
    BY <1>1, <2>1, FlattenEmpty, Zenon
<1>2. CASE m # 0
  <2>1. m \in 1..n
    BY <1>2
  <2> QED
    BY <2>1, FlattenStep
<1> QED
  BY <1>1, <1>2

\* Reading what occurs.
LEMMA AtOccurs ==
  ASSUME NEW s, Len(s) \in Nat, NEW t, Len(t) \in Nat, NEW n \in Nat, Occurs(t, s, n), NEW k \in 1..Len(t)
  PROVE  At(s, n + k) = t[k]
  BY DEF At, Occurs

------------------------------------------------------------------------------
(* The bytes of a row of .debug_abbrev *)

Pairs(a) == [i \in 1..Len(a.attributes) |->
               Cat(ULEB128(a.attributes[i].at), ULEB128(FormCode[a.attributes[i].form]))]

Row(c, tag, children, f) == Cat(Cat(Cat(Cat(<<c>>, <<tag>>), <<children>>), f), <<0, 0>>)

LEMMA CatOne ==
  ASSUME NEW S, NEW s \in Seq(S), NEW t \in Seq(S), Len(t) = 1
  PROVE  /\ Cat(s, t) \in Seq(S) /\ Len(Cat(s, t)) = Len(s) + 1
         /\ \A i \in 1..Len(s) : Cat(s, t)[i] = s[i]
         /\ Cat(s, t)[Len(s) + 1] = t[1]
<1>1. Occurs(s, Cat(s, t), 0) /\ Occurs(t, Cat(s, t), Len(s))
  BY CatOccurs
<1>2. Cat(s, t) \in Seq(S) /\ Len(Cat(s, t)) = Len(s) + Len(t)
  BY CatOccurs
<1> QED
  BY <1>1, <1>2 DEF Occurs

LEMMA RowParts ==
  ASSUME NEW c \in Nat, NEW tag \in Nat, NEW children \in Nat, NEW f \in Seq(Nat)
  PROVE  LET row == Row(c, tag, children, f) IN
         /\ row \in Seq(Nat) /\ Len(row) = 5 + Len(f)
         /\ Occurs(<<c, tag, children>>, row, 0) /\ Occurs(f, row, 3) /\ Occurs(<<0, 0>>, row, 3 + Len(f))
<1>1. <<c>> \in Seq(Nat) /\ <<tag>> \in Seq(Nat) /\ <<children>> \in Seq(Nat) /\ <<0, 0>> \in Seq(Nat)
  OBVIOUS
<1> DEFINE e == Cat(<<c>>, <<tag>>)
           h == Cat(e, <<children>>)
<1>2. e \in Seq(Nat) /\ Len(e) = 2 /\ e[1] = c /\ e[2] = tag
  <2>1. PICK s \in Seq(Nat), t \in Seq(Nat) : s = <<c>> /\ t = <<tag>>
    BY <1>1
  <2>2. Len(s) = 1 /\ s[1] = c /\ Len(t) = 1 /\ t[1] = tag
    BY <2>1
  <2>3. e = Cat(s, t)
    BY <2>1
  <2> HIDE DEF e
  <2> QED
    <3>1. e \in Seq(Nat) /\ Len(e) = Len(s) + 1 /\ (\A i \in 1..Len(s) : e[i] = s[i]) /\ e[Len(s) + 1] = t[1]
      BY <2>2, <2>3, CatOne, Zenon
    <3> QED
      BY <2>2, <3>1
<1>3. h \in Seq(Nat) /\ Len(h) = 3 /\ h[1] = c /\ h[2] = tag /\ h[3] = children
  <2> HIDE DEF e
  <2>1. PICK t \in Seq(Nat) : t = <<children>>
    BY <1>1
  <2>2. Len(t) = 1 /\ t[1] = children
    BY <2>1
  <2>3. h = Cat(e, t)
    BY <2>1
  <2> HIDE DEF h
  <2> QED
    <3>1. h \in Seq(Nat) /\ Len(h) = Len(e) + 1 /\ (\A i \in 1..Len(e) : h[i] = e[i]) /\ h[Len(e) + 1] = t[1]
      <4>1. e \in Seq(Nat)
        BY <1>2
      <4> QED
        BY <2>2, <2>3, <4>1, CatOne, Zenon
    <3> QED
      BY <1>2, <2>2, <3>1
<1> HIDE DEF h
<1> DEFINE g == Cat(h, f)
           row == Cat(g, <<0, 0>>)
<1>4. g \in Seq(Nat) /\ Len(g) = 3 + Len(f) /\ Occurs(h, g, 0) /\ Occurs(f, g, 3)
  <2>1. g \in Seq(Nat) /\ Len(g) = Len(h) + Len(f) /\ Occurs(h, g, 0) /\ Occurs(f, g, Len(h))
    BY <1>3, CatOccurs
  <2> QED
    BY <1>3, <2>1
<1> HIDE DEF g
<1>5. row \in Seq(Nat) /\ Len(row) = 5 + Len(f) /\ Occurs(g, row, 0) /\ Occurs(<<0, 0>>, row, 3 + Len(f))
  <2>1. row \in Seq(Nat) /\ Len(row) = Len(g) + Len(<<0, 0>>) /\ Occurs(g, row, 0) /\ Occurs(<<0, 0>>, row, Len(g))
    BY <1>1, <1>4, CatOccurs
  <2>2. Len(<<0, 0>>) = 2
    OBVIOUS
  <2>3. Len(f) \in Nat
    OBVIOUS
  <2> QED
    BY <1>4, <2>1, <2>2, <2>3
<1> HIDE DEF row
<1>6. Len(h) \in Nat /\ Len(f) \in Nat /\ Len(g) \in Nat /\ Len(row) \in Nat
  BY <1>3, <1>4, <1>5
<1>7. Occurs(h, row, 0 + 0) /\ Occurs(f, row, 0 + 3)
  BY <1>4, <1>5, <1>6, OccursIn
<1>8. row = Row(c, tag, children, f)
  BY DEF row, g, h, e, Row
<1>9. Occurs(<<c, tag, children>>, row, 0)
  <2>1. ASSUME NEW k \in 1..3 PROVE 0 + k \in 1..Len(row) /\ row[0 + k] = h[k]
    <3>1. k \in 1..Len(h)
      BY <1>3
    <3>2. 0 + 0 + k \in 1..Len(row) /\ row[0 + 0 + k] = h[k]
      BY <1>7, <3>1, Zenon DEF Occurs
    <3> QED
      BY <3>2
  <2>2. \A k \in 1..3 : <<c, tag, children>>[k] = h[k]
    BY <1>3
  <2>3. Len(<<c, tag, children>>) = 3
    OBVIOUS
  <2> QED
    BY <2>1, <2>2, <2>3, Zenon DEF Occurs
<1> QED
  BY <1>5, <1>7, <1>8, <1>9

------------------------------------------------------------------------------
(* Where rows and attributes are in .debug_abbrev *)

Rows(o) == [c \in 1..Len(o.abbrevs) |-> AbbrevBytes(c, o.abbrevs[c])]

\* The bytes before row c, and before attribute k + 1 of a row.
RowAt(o, c)  == Len(UpTo(Rows(o), c - 1))
PairAt(a, k) == Len(UpTo(Pairs(a), k))

\* The abbreviations of which codes and tags fit in a byte.
PlainAbbreviation == [tag: 1..127, children: BOOLEAN, attributes: Seq(Attribute)]

\* The numbers of one byte.
OneByte(n) == ULEB128(n) = <<n>> /\ ULEB128(n) \in Seq(Nat) /\ Len(ULEB128(n)) = 1 /\ ULEB128(n)[1] = n

LEMMA Singles ==
  ASSUME NEW n \in 0..127 PROVE OneByte(n)
  BY DEF ULEB128, OneByte

LEMMA AttributeFields ==
  ASSUME NEW attribute \in Attribute
  PROVE  attribute.at \in 1..127 \cup VendorAttributes /\ attribute.form \in Forms
  BY DEF Attribute

LEMMA PlainFields ==
  ASSUME NEW a \in PlainAbbreviation
  PROVE  a.tag \in 1..127 /\ a.children \in BOOLEAN /\ a.attributes \in Seq(Attribute)
  BY DEF PlainAbbreviation

\* The bytes of one attribute.
\* One byte after one, or after two.
LEMMA TwoBytes ==
  ASSUME NEW s \in Seq(Nat), NEW t \in Seq(Nat), Len(t) = 1, Len(s) = 1
  PROVE  Cat(s, t) \in Seq(Nat) /\ Len(Cat(s, t)) = 2 /\ Cat(s, t)[1] = s[1] /\ Cat(s, t)[2] = t[1]
<1>1. /\ Cat(s, t) \in Seq(Nat) /\ Len(Cat(s, t)) = Len(s) + 1
      /\ \A i \in 1..Len(s) : Cat(s, t)[i] = s[i]
      /\ Cat(s, t)[Len(s) + 1] = t[1]
  BY CatOne
<1>2. Len(s) + 1 = 2 /\ 1 \in 1..Len(s)
  OBVIOUS
<1> QED
  BY <1>1, <1>2, Zenon

LEMMA ThreeBytes ==
  ASSUME NEW s \in Seq(Nat), NEW t \in Seq(Nat), Len(t) = 1, Len(s) = 2
  PROVE  Cat(s, t) \in Seq(Nat) /\ Len(Cat(s, t)) = 3 /\ Cat(s, t)[1] = s[1] /\ Cat(s, t)[2] = s[2]
<1>1. /\ Cat(s, t) \in Seq(Nat) /\ Len(Cat(s, t)) = Len(s) + 1
      /\ \A i \in 1..Len(s) : Cat(s, t)[i] = s[i]
      /\ Cat(s, t)[Len(s) + 1] = t[1]
  BY CatOne
<1>2. Len(s) + 1 = 3 /\ 1 \in 1..Len(s) /\ 2 \in 1..Len(s)
  OBVIOUS
<1> QED
  BY <1>1, <1>2, Zenon

LEMMA PlainAttribute ==
  ASSUME NEW at, OneByte(at), NEW code, OneByte(code)
  PROVE  LET pair == Cat(ULEB128(at), ULEB128(code)) IN
         pair \in Seq(Nat) /\ Len(pair) = 2 /\ pair[1] = at /\ pair[2] = code
  BY TwoBytes DEF OneByte

LEMMA VendorBytes ==
  ASSUME NEW at \in VendorAttributes
  PROVE  /\ ULEB128(at) \in Seq(Nat) /\ Len(ULEB128(at)) = 2 /\ ULEB128(at)[1] # 0
         /\ ULEB128(at)[2] \notin KnownForms
<1>1. at \in Nat /\ at >= 128 /\ at < 16384
  BY DEF VendorAttributes
<1>2. at \div 128 \in 64..127
  BY DEF VendorAttributes
<1>3. at % 128 \in 0..127
  BY <1>1
<1>4. PICK x \in 64..127, y \in 0..127 : x = at \div 128 /\ y = at % 128
  BY <1>2, <1>3
<1>5. ULEB128(at) = <<128 + y, x>>
  BY <1>1, <1>4 DEF ULEB128
<1>6. x \notin KnownForms
  BY DEF KnownForms
<1>7. 128 + y \in Nat /\ 128 + y # 0 /\ x \in Nat
  OBVIOUS
<1>8. <<128 + y, x>> \in Seq(Nat)
  BY <1>7
<1>9. Len(<<128 + y, x>>) = 2 /\ <<128 + y, x>>[1] # 0 /\ <<128 + y, x>>[2] = x
  BY <1>7
<1> QED
  BY <1>5, <1>6, <1>8, <1>9, Zenon

LEMMA VendorPair ==
  ASSUME NEW at \in VendorAttributes, NEW code, OneByte(code)
  PROVE  LET pair == Cat(ULEB128(at), ULEB128(code)) IN
         pair \in Seq(Nat) /\ Len(pair) = 3 /\ pair[1] # 0 /\ pair[2] \notin KnownForms
  BY VendorBytes, ThreeBytes DEF OneByte

PairGood(attribute, pair) ==
  /\ pair \in Seq(Nat) /\ pair[1] # 0
  /\ \/ attribute.at \in VendorAttributes /\ Len(pair) = 3 /\ pair[2] \notin KnownForms
     \/ /\ attribute.at \notin VendorAttributes /\ Len(pair) = 2
        /\ pair[1] = attribute.at /\ pair[2] = FormCode[attribute.form] /\ attribute.form \in Forms

LEMMA PairOf ==
  ASSUME NEW attribute \in Attribute
  PROVE  PairGood(attribute, Cat(ULEB128(attribute.at), ULEB128(FormCode[attribute.form])))
<1>1. attribute.at \in 1..127 \cup VendorAttributes /\ attribute.form \in Forms
  BY AttributeFields
<1>2. OneByte(FormCode[attribute.form])
  BY <1>1, CodesKnown, Singles
<1>3. CASE attribute.at \in VendorAttributes
  BY <1>2, <1>3, VendorPair DEF PairGood
<1>4. CASE attribute.at \notin VendorAttributes
  <2>1. attribute.at \in 1..127
    BY <1>1, <1>4
  <2>2. OneByte(attribute.at) /\ attribute.at # 0
    BY <2>1, Singles
  <2> QED
    BY <1>1, <1>2, <1>4, <2>2, PlainAttribute DEF PairGood
<1> QED
  BY <1>3, <1>4

LEMMA PairBytes ==
  ASSUME NEW a, a.attributes \in Seq(Attribute), NEW i \in 1..Len(a.attributes)
  PROVE  PairGood(a.attributes[i], Pairs(a)[i])
<1>1. PICK attribute \in Attribute : attribute = a.attributes[i]
  OBVIOUS
<1>2. Pairs(a)[i] = Cat(ULEB128(attribute.at), ULEB128(FormCode[attribute.form]))
  BY <1>1, Zenon DEF Pairs
<1>3. PairGood(attribute, Pairs(a)[i])
  BY <1>2, PairOf, Zenon
<1> QED
  BY <1>1, <1>3, Zenon

LEMMA PairsType ==
  ASSUME NEW a, a.attributes \in Seq(Attribute)
  PROVE  \A i \in 1..Len(a.attributes) : Pairs(a)[i] \in Seq(Nat)
  BY PairBytes, Zenon DEF PairGood

\* The bytes of one row.
LEMMA AbbrevIsRow ==
  ASSUME NEW c \in 1..127, NEW a \in PlainAbbreviation
  PROVE  LET n == Len(a.attributes)  f == UpTo(Pairs(a), n) IN
         AbbrevBytes(c, a) = Row(c, a.tag, IF a.children THEN 1 ELSE 0, f)
<1>1. ULEB128(c) = <<c>> /\ ULEB128(a.tag) = <<a.tag>>
  <2>1. a.tag \in 1..127
    BY PlainFields
  <2>2. OneByte(a.tag)
    BY <2>1, Singles
  <2>3. OneByte(c)
    BY Singles
  <2> QED
    BY <2>2, <2>3, Zenon DEF OneByte
<1> DEFINE n == Len(a.attributes)
           p == [i \in 1..n |-> ULEB128(a.attributes[i].at) \o ULEB128(FormCode[a.attributes[i].form])]
<1>2. p = [i \in 1..n |-> Pairs(a)[i]]
  BY Zenon DEF Pairs, Cat
<1>3. FlattenSeq(p) = UpTo(Pairs(a), n)
  BY <1>2, Zenon DEF UpTo
<1>4. AbbrevBytes(c, a) = <<c>> \o <<a.tag>> \o <<IF a.children THEN 1 ELSE 0>> \o FlattenSeq(p) \o <<0, 0>>
  BY <1>1, Zenon DEF AbbrevBytes
<1> HIDE DEF p, n
<1>5. AbbrevBytes(c, a) = Row(c, a.tag, IF a.children THEN 1 ELSE 0, UpTo(Pairs(a), n))
  BY <1>3, <1>4, Zenon DEF Row, Cat
<1> QED
  BY <1>5 DEF n

LEMMA RowBytes ==
  ASSUME NEW c \in 1..127, NEW a \in PlainAbbreviation
  PROVE  LET row == AbbrevBytes(c, a)  n == Len(a.attributes) IN
         /\ row \in Seq(Nat) /\ Len(row) = 5 + PairAt(a, n)
         /\ Occurs(<<c, a.tag, IF a.children THEN 1 ELSE 0>>, row, 0)
         /\ \A i \in 1..n : Occurs(Pairs(a)[i], row, 3 + PairAt(a, i - 1))
         /\ Occurs(<<0, 0>>, row, 3 + PairAt(a, n))
<1> DEFINE n == Len(a.attributes)
           f == UpTo(Pairs(a), n)
           row == AbbrevBytes(c, a)
<1>1. a.attributes \in Seq(Attribute) /\ a.tag \in Nat /\ n \in Nat
  <2>1. PICK as \in Seq(Attribute), tag \in 1..127 : as = a.attributes /\ tag = a.tag
    BY PlainFields, Zenon
  <2>2. Len(as) \in Nat
    BY LengthType, Zenon
  <2>3. tag \in Nat
    OBVIOUS
  <2> QED
    BY <2>1, <2>2, <2>3, Zenon
<1>2. PICK children \in Nat : children = IF a.children THEN 1 ELSE 0
  OBVIOUS
<1>3. \A i \in 1..n : Pairs(a)[i] \in Seq(Nat)
  BY <1>1, PairsType
<1>4. f \in Seq(Nat)
  <2>1. n \in 0..n
    BY <1>1
  <2> HIDE DEF n
  <2> QED
    BY <1>1, <1>3, <2>1, UpToType
<1>5. row = Row(c, a.tag, children, f)
  BY <1>2, AbbrevIsRow
<1> HIDE DEF row
<1>6. /\ row \in Seq(Nat) /\ Len(row) = 5 + Len(f)
      /\ Occurs(<<c, a.tag, children>>, row, 0) /\ Occurs(f, row, 3) /\ Occurs(<<0, 0>>, row, 3 + Len(f))
  <2>1. c \in Nat
    OBVIOUS
  <2> QED
    BY <1>1, <1>4, <1>5, <2>1, RowParts, Zenon
<1>7. ASSUME NEW i \in 1..n PROVE Occurs(Pairs(a)[i], row, 3 + PairAt(a, i - 1))
  <2>1. Pairs(a)[i] \in Seq(Nat) /\ UpTo(Pairs(a), i - 1) \in Seq(Nat)
    <3>1. i - 1 \in 0..n
      BY <1>1
    <3> HIDE DEF n
    <3> QED
      BY <1>1, <1>3, <3>1, UpToType
  <2>2. Occurs(Pairs(a)[i], f, PairAt(a, i - 1))
    <3> HIDE DEF n
    <3> QED
      BY <1>1, <1>3, FlattenOccurs, Zenon DEF PairAt
  <2>3. Len(Pairs(a)[i]) \in Nat /\ PairAt(a, i - 1) \in Nat /\ Len(f) \in Nat /\ Len(row) \in Nat
    <3>1. Len(Pairs(a)[i]) \in Nat
      BY <2>1, LengthType, Zenon
    <3>2. PairAt(a, i - 1) \in Nat
      BY <2>1, LengthType, Zenon DEF PairAt
    <3> HIDE DEF f
    <3>3. Len(f) \in Nat /\ Len(row) \in Nat
      BY <1>4, <1>6, LengthType, Zenon
    <3> QED
      BY <3>1, <3>2, <3>3
  <2>4. Occurs(f, row, 3) /\ 3 \in Nat
    BY <1>6
  <2> HIDE DEF f
  <2> QED
    BY <2>2, <2>3, <2>4, OccursIn
<1> QED
  BY <1>2, <1>6, <1>7, Zenon DEF row, PairAt

\* Sequences of bytes, one after the other.
Bytewise(seqs, n) == n \in Nat /\ \A i \in 1..n : seqs[i] \in Seq(Nat)

LEMMA FlattenLengths ==
  ASSUME NEW S, NEW n \in Nat, NEW seqs, \A i \in 1..n : seqs[i] \in Seq(S)
  PROVE  \A m \in 1..n : Len(UpTo(seqs, m)) = Len(UpTo(seqs, m - 1)) + Len(seqs[m])
  BY FlattenStep, Zenon

LEMMA Lengths ==
  ASSUME NEW seqs, NEW n, Bytewise(seqs, n)
  PROVE  /\ \A m \in 0..n : UpTo(seqs, m) \in Seq(Nat) /\ Len(UpTo(seqs, m)) \in Nat
         /\ \A m \in 1..n : Len(UpTo(seqs, m)) = Len(UpTo(seqs, m - 1)) + Len(seqs[m])
<1>1. n \in Nat /\ \A i \in 1..n : seqs[i] \in Seq(Nat)
  BY DEF Bytewise
<1>2. ASSUME NEW m \in 0..n PROVE UpTo(seqs, m) \in Seq(Nat) /\ Len(UpTo(seqs, m)) \in Nat
  BY <1>1, UpToType, LengthType, Zenon
<1>3. \A m \in 1..n : Len(UpTo(seqs, m)) = Len(UpTo(seqs, m - 1)) + Len(seqs[m])
  BY <1>1, FlattenLengths, Zenon
<1> QED
  BY <1>2, <1>3, Zenon

LEMMA Positions ==
  ASSUME NEW seqs, NEW n, Bytewise(seqs, n), NEW m \in 1..n
  PROVE  Occurs(seqs[m], UpTo(seqs, n), Len(UpTo(seqs, m - 1)))
<1>1. n \in Nat /\ \A i \in 1..n : seqs[i] \in Seq(Nat)
  BY DEF Bytewise
<1> QED
  BY <1>1, FlattenOccurs

LEMMA ReadsAll ==
  ASSUME NEW s \in Seq(Nat), NEW t \in Seq(Nat), NEW n \in Nat, Occurs(t, s, n)
  PROVE  \A k \in 1..Len(t) : At(s, n + k) = t[k]
<1>1. Len(s) \in Nat /\ Len(t) \in Nat
  BY LengthType
<1> QED
  BY <1>1, AtOccurs

LEMMA ReadsEnd ==
  ASSUME NEW s \in Seq(Nat), NEW n \in Nat, Occurs(<< 0 >>, s, n)
  PROVE  At(s, n + 1) = 0
  BY DEF Occurs, At

LEMMA ReadsEndOfRow ==
  ASSUME NEW s \in Seq(Nat), NEW n \in Nat, Occurs(<<0, 0>>, s, n)
  PROVE  At(s, n + 1) = 0 /\ At(s, n + 2) = 0
<1>1. n + 1 \in 1..Len(s) /\ s[n + 1] = 0
  BY DEF Occurs
<1>2. n + 2 \in 1..Len(s) /\ s[n + 2] = 0
  BY DEF Occurs
<1> QED
  BY <1>1, <1>2 DEF At

LEMMA ReadsHead ==
  ASSUME NEW s \in Seq(Nat), NEW n \in Nat, NEW x, NEW y, NEW z, Occurs(<<x, y, z>>, s, n)
  PROVE  At(s, n + 1) = x /\ At(s, n + 2) = y /\ At(s, n + 3) = z
<1>1. n + 1 \in 1..Len(s) /\ s[n + 1] = x
  BY DEF Occurs
<1>2. n + 2 \in 1..Len(s) /\ s[n + 2] = y
  BY DEF Occurs
<1>3. n + 3 \in 1..Len(s) /\ s[n + 3] = z
  BY DEF Occurs
<1> QED
  BY <1>1, <1>2, <1>3 DEF At

LEMMA Within ==
  ASSUME NEW s \in Seq(Nat), NEW t \in Seq(Nat), NEW u, Len(u) \in Nat,
         NEW n \in Nat, NEW m \in Nat, Occurs(t, s, n), Occurs(u, t, m)
  PROVE  Occurs(u, s, n + m) /\ n + m \in Nat
<1>1. Len(s) \in Nat /\ Len(t) \in Nat
  BY LengthType
<1> QED
  BY <1>1, OccursIn

\* An object of which the reader can read the table.
Readable(o) ==
  /\ o.abbrevs \in Seq(PlainAbbreviation) /\ Len(o.abbrevs) < 128
  /\ o.abbrev = AbbrevTableBytes(o.abbrevs)

LEMMA RowsType ==
  ASSUME NEW o, Readable(o), NEW c \in 1..Len(o.abbrevs)
  PROVE  /\ c \in 1..127 /\ o.abbrevs[c] \in PlainAbbreviation
         /\ Rows(o)[c] = AbbrevBytes(c, o.abbrevs[c]) /\ Rows(o)[c] \in Seq(Nat)
<1>1. c \in 1..127 /\ o.abbrevs[c] \in PlainAbbreviation
  BY DEF Readable
<1>2. Rows(o)[c] = AbbrevBytes(c, o.abbrevs[c])
  BY DEF Rows
<1>3. AbbrevBytes(c, o.abbrevs[c]) \in Seq(Nat)
  BY <1>1, RowBytes, Zenon
<1> QED
  BY <1>1, <1>2, <1>3, Zenon

LEMMA TableIsRows ==
  ASSUME NEW o, Readable(o)
  PROVE  LET n == Len(o.abbrevs) IN
         Bytewise(Rows(o), n) /\ o.abbrev = Cat(UpTo(Rows(o), n), <<0>>)
<1> DEFINE n == Len(o.abbrevs)
<1>1. n \in Nat
  BY LengthType, Zenon DEF Readable
<1>2. \A c \in 1..n : Rows(o)[c] \in Seq(Nat)
  BY RowsType, Zenon
<1>3. o.abbrev = Cat(UpTo(Rows(o), n), <<0>>)
  <2>1. [c \in 1..n |-> AbbrevBytes(c, o.abbrevs[c])] = [c \in 1..n |-> Rows(o)[c]]
    BY Zenon DEF Rows
  <2> QED
    BY <2>1, Zenon DEF Readable, AbbrevTableBytes, UpTo, Cat
<1> QED
  BY <1>1, <1>2, <1>3, Zenon DEF Bytewise

LEMMA RowPosition ==
  ASSUME NEW o, NEW c \in Nat
  PROVE  RowAt(o, c + 1) = Len(UpTo(Rows(o), c))
<1>1. PICK d : d = c + 1 /\ d - 1 = c
  OBVIOUS
<1>2. RowAt(o, d) = Len(UpTo(Rows(o), d - 1))
  BY DEF RowAt
<1> QED
  BY <1>1, <1>2, Zenon

LEMMA EndOfRows ==
  ASSUME NEW o, Readable(o)
  PROVE  LET n == Len(o.abbrevs) IN
         /\ n \in Nat /\ o.abbrev \in Seq(Nat) /\ RowAt(o, 1) = 0
         /\ Occurs(UpTo(Rows(o), n), o.abbrev, 0)
         /\ RowAt(o, n + 1) \in Nat /\ At(o.abbrev, RowAt(o, n + 1) + 1) = 0
<1> DEFINE n == Len(o.abbrevs)
<1>1. n \in Nat /\ Bytewise(Rows(o), n) /\ o.abbrev = Cat(UpTo(Rows(o), n), <<0>>)
  BY TableIsRows, Zenon DEF Bytewise
<1> HIDE DEF n
<1>2. UpTo(Rows(o), n) \in Seq(Nat) /\ Len(UpTo(Rows(o), n)) \in Nat
  <2>1. n \in 0..n
    BY <1>1
  <2> QED
    BY <1>1, <2>1, Lengths, Zenon
<1>3. <<0>> \in Seq(Nat)
  OBVIOUS
<1>4. /\ o.abbrev \in Seq(Nat) /\ Occurs(UpTo(Rows(o), n), o.abbrev, 0)
      /\ Occurs(<<0>>, o.abbrev, Len(UpTo(Rows(o), n)))
  BY <1>1, <1>2, <1>3, CatOccurs, Zenon
<1>5. RowAt(o, n + 1) = Len(UpTo(Rows(o), n))
  BY <1>1, RowPosition, Zenon
<1>6. At(o.abbrev, Len(UpTo(Rows(o), n)) + 1) = 0
  BY <1>2, <1>4, ReadsEnd, Zenon
<1>7. RowAt(o, 1) = 0
  <2>1. Len(UpTo(Rows(o), 0)) = 0
    BY FlattenEmpty
  <2>2. 0 + 1 = 1 /\ 0 \in Nat
    OBVIOUS
  <2> QED
    BY <2>1, <2>2, RowPosition
<1> QED
  BY <1>1, <1>2, <1>4, <1>5, <1>6, <1>7, Zenon DEF n

LEMMA RowsAt ==
  ASSUME NEW o, Readable(o), NEW c \in 1..Len(o.abbrevs)
  PROVE  /\ RowAt(o, c) \in Nat /\ RowAt(o, c + 1) = RowAt(o, c) + Len(Rows(o)[c])
         /\ Occurs(Rows(o)[c], o.abbrev, RowAt(o, c))
<1> DEFINE n == Len(o.abbrevs)
           rows == UpTo(Rows(o), n)
<1>1. n \in Nat /\ Bytewise(Rows(o), n)
  BY TableIsRows, Zenon DEF Bytewise
<1>2. o.abbrev \in Seq(Nat) /\ Occurs(rows, o.abbrev, 0)
  BY EndOfRows, Zenon
<1>3. c \in 1..n /\ c \in Nat /\ c - 1 \in 0..n /\ n \in 0..n
  BY <1>1
<1> HIDE DEF n
<1>4. RowAt(o, c) \in Nat /\ rows \in Seq(Nat)
  BY <1>1, <1>3, Lengths, Zenon DEF RowAt
<1>5. RowAt(o, c + 1) = RowAt(o, c) + Len(Rows(o)[c])
  BY <1>1, <1>3, Lengths, RowPosition, Zenon DEF RowAt
<1>6. Occurs(Rows(o)[c], rows, RowAt(o, c))
  BY <1>1, <1>3, Positions, Zenon DEF RowAt
<1>7. Len(Rows(o)[c]) \in Nat
  BY RowsType, LengthType, Zenon
<1> HIDE DEF rows
<1>8. Occurs(Rows(o)[c], o.abbrev, 0 + RowAt(o, c))
  BY <1>2, <1>4, <1>6, <1>7, Within
<1>9. 0 + RowAt(o, c) = RowAt(o, c)
  BY <1>4
<1> QED
  BY <1>4, <1>5, <1>8, <1>9, Zenon

LEMMA PairsAt ==
  ASSUME NEW a, a.attributes \in Seq(Attribute)
  PROVE  LET n == Len(a.attributes) IN
         /\ n \in Nat /\ PairAt(a, 0) = 0 /\ \A i \in 0..n : PairAt(a, i) \in Nat
         /\ \A i \in 1..n : PairAt(a, i) = PairAt(a, i - 1) + Len(Pairs(a)[i])
<1> DEFINE n == Len(a.attributes)
<1>1. n \in Nat /\ Bytewise(Pairs(a), n)
  BY PairsType, LengthType, Zenon DEF Bytewise
<1> HIDE DEF n
<1>2. /\ \A i \in 0..n : PairAt(a, i) \in Nat
      /\ \A i \in 1..n : PairAt(a, i) = PairAt(a, i - 1) + Len(Pairs(a)[i])
  BY <1>1, Lengths, Zenon DEF PairAt
<1>3. PairAt(a, 0) = 0
  BY FlattenEmpty DEF PairAt
<1> QED
  BY <1>1, <1>2, <1>3, Zenon DEF n

\* What is read where a row begins, where an attribute does, and at the end.
LEMMA HeadBytes ==
  ASSUME NEW o, Readable(o), NEW c \in 1..Len(o.abbrevs), NEW a, a = o.abbrevs[c]
  PROVE  LET n == Len(a.attributes)  p == RowAt(o, c) IN
         /\ At(o.abbrev, p + 1) = c /\ At(o.abbrev, p + 2) = a.tag
         /\ At(o.abbrev, p + 3) = (IF a.children THEN 1 ELSE 0)
         /\ At(o.abbrev, p + (3 + PairAt(a, n)) + 1) = 0 /\ At(o.abbrev, p + (3 + PairAt(a, n)) + 2) = 0
         /\ RowAt(o, c + 1) = p + (5 + PairAt(a, n))
<1> DEFINE n == Len(a.attributes)
           p == RowAt(o, c)
           row == Rows(o)[c]
           q == 3 + PairAt(a, n)
<1>1. c \in 1..127 /\ a \in PlainAbbreviation /\ row = AbbrevBytes(c, a)
  BY RowsType, Zenon
<1>2. a.attributes \in Seq(Attribute)
  BY <1>1, PlainFields, Zenon
<1>3. /\ row \in Seq(Nat) /\ Len(row) = 5 + PairAt(a, n)
      /\ Occurs(<<c, a.tag, IF a.children THEN 1 ELSE 0>>, row, 0) /\ Occurs(<<0, 0>>, row, q)
  BY <1>1, RowBytes, Zenon
<1>4. q \in Nat
  <2>1. PairAt(a, n) \in Nat
    <3>1. n \in Nat
      BY <1>2, LengthType, Zenon
    <3>2. n \in 0..n
      BY <3>1
    <3> QED
      BY <1>2, <3>2, PairsAt, Zenon
  <2> QED
    BY <2>1
<1>5. p \in Nat /\ RowAt(o, c + 1) = p + Len(row) /\ Occurs(row, o.abbrev, p) /\ o.abbrev \in Seq(Nat)
  BY RowsAt, EndOfRows, Zenon
<1>6. p \in Nat /\ Occurs(row, o.abbrev, p) /\ o.abbrev \in Seq(Nat) /\ row \in Seq(Nat)
  BY <1>3, <1>5, Zenon
<1> HIDE DEF n, p, row, q
<1>7. Occurs(<<c, a.tag, IF a.children THEN 1 ELSE 0>>, o.abbrev, p)
  <2>1. PICK x, y, z : x = c /\ y = a.tag /\ z = IF a.children THEN 1 ELSE 0
    OBVIOUS
  <2>2. Len(<<x, y, z>>) \in Nat /\ 0 \in Nat /\ p + 0 = p
    BY <1>6
  <2>3. Occurs(<<x, y, z>>, row, 0)
    BY <1>3, <2>1, Zenon
  <2>4. Occurs(<<x, y, z>>, o.abbrev, p + 0)
    BY <1>6, <2>2, <2>3, Within, Zenon
  <2> QED
    BY <2>1, <2>2, <2>4, Zenon
<1>8. Occurs(<<0, 0>>, o.abbrev, p + q) /\ p + q \in Nat
  <2>1. Len(<<0, 0>>) \in Nat
    OBVIOUS
  <2>2. Occurs(<<0, 0>>, row, q)
    BY <1>3
  <2> QED
    BY <1>4, <1>6, <2>1, <2>2, Within, Zenon
<1>9. At(o.abbrev, p + 1) = c /\ At(o.abbrev, p + 2) = a.tag /\ At(o.abbrev, p + 3) = IF a.children THEN 1 ELSE 0
  BY <1>6, <1>7, ReadsHead, Zenon
<1>10. At(o.abbrev, p + q + 1) = 0 /\ At(o.abbrev, p + q + 2) = 0
  BY <1>6, <1>8, ReadsEndOfRow, Zenon
<1> QED
  BY <1>3, <1>5, <1>9, <1>10, Zenon DEF n, p, q

LEMMA AttributeBytes ==
  ASSUME NEW o, Readable(o), NEW c \in 1..Len(o.abbrevs), NEW a, a = o.abbrevs[c], NEW i \in 1..Len(a.attributes)
  PROVE  /\ PairGood(a.attributes[i], Pairs(a)[i])
         /\ \A k \in 1..Len(Pairs(a)[i]) :
              At(o.abbrev, RowAt(o, c) + (3 + PairAt(a, i - 1)) + k) = Pairs(a)[i][k]
<1> DEFINE n == Len(a.attributes)
           p == RowAt(o, c)
           row == Rows(o)[c]
           pair == Pairs(a)[i]
           q == 3 + PairAt(a, i - 1)
<1>1. c \in 1..127 /\ a \in PlainAbbreviation /\ row = AbbrevBytes(c, a)
  BY RowsType, Zenon
<1>2. a.attributes \in Seq(Attribute)
  BY <1>1, PlainFields, Zenon
<1>3. row \in Seq(Nat) /\ Occurs(pair, row, q)
  BY <1>1, RowBytes, Zenon
<1>4. p \in Nat /\ Occurs(row, o.abbrev, p) /\ o.abbrev \in Seq(Nat)
  BY RowsAt, EndOfRows, Zenon
<1>5. PairGood(a.attributes[i], pair)
  BY <1>2, PairBytes, Zenon
<1>6. pair \in Seq(Nat)
  BY <1>5, Zenon DEF PairGood
<1>7. Len(pair) \in Nat
  BY <1>6, LengthType, Zenon
<1>8. q \in Nat
  <2>1. n \in Nat
    BY <1>2, LengthType, Zenon
  <2>2. i - 1 \in 0..n
    BY <2>1
  <2>3. PairAt(a, i - 1) \in Nat
    BY <1>2, <2>2, PairsAt, Zenon
  <2> QED
    BY <2>3
<1> HIDE DEF n, p, row, pair, q
<1>9. Occurs(pair, o.abbrev, p + q) /\ p + q \in Nat
  BY <1>3, <1>4, <1>7, <1>8, Within, Zenon
<1>10. \A k \in 1..Len(pair) : At(o.abbrev, p + q + k) = pair[k]
  BY <1>4, <1>6, <1>9, ReadsAll, Zenon
<1> QED
  BY <1>5, <1>10, Zenon DEF n, p, pair, q

------------------------------------------------------------------------------
(* The table of abbreviations *)

IsSeq(s) == \E S : s \in Seq(S)

LEMMA Appended ==
  ASSUME NEW s, IsSeq(s), NEW x
  PROVE  /\ Len(s) \in Nat /\ IsSeq(Append(s, x)) /\ Len(Append(s, x)) = Len(s) + 1
         /\ \A i \in 1..Len(s) : Append(s, x)[i] = s[i]
         /\ Append(s, x)[Len(s) + 1] = x
<1>1. PICK S : s \in Seq(S)
  BY DEF IsSeq
<1>2. PICK T : T = S \cup {x}
  OBVIOUS
<1>3. s \in Seq(T) /\ x \in T
  BY <1>1, <1>2
<1>4. /\ Append(s, x) \in Seq(T) /\ Len(Append(s, x)) = Len(s) + 1
      /\ \A i \in 1..Len(s) : Append(s, x)[i] = s[i]
      /\ Append(s, x)[Len(s) + 1] = x
  BY <1>3, AppendProperties
<1> QED
  BY <1>1, <1>4, LengthType, Zenon DEF IsSeq

\* Sequence t is s but for element i.
Differs(t, s, i, x) ==
  /\ IsSeq(t) /\ Len(t) = Len(s) /\ t[i] = x
  /\ \A j \in 1..Len(s) : j # i => t[j] = s[j]

LEMMA Changed ==
  ASSUME NEW s, IsSeq(s), NEW i \in 1..Len(s), NEW x, NEW t, t = [s EXCEPT ![i] = x]
  PROVE  Differs(t, s, i, x)
<1>1. PICK S : s \in Seq(S)
  BY DEF IsSeq
<1>2. PICK T : T = S \cup {x}
  OBVIOUS
<1>3. s \in Seq(T) /\ x \in T
  BY <1>1, <1>2
<1>4. /\ [s EXCEPT ![i] = x] \in Seq(T) /\ Len([s EXCEPT ![i] = x]) = Len(s)
      /\ \A j \in 1..Len(s) : [s EXCEPT ![i] = x][j] = IF j = i THEN x ELSE s[j]
  BY <1>3, ExceptSeq
<1> QED
  BY <1>4, Zenon DEF IsSeq, Differs

LEMMA SubtypeSeq ==
  ASSUME NEW S, NEW T, NEW s \in Seq(S), \A i \in 1..Len(s) : s[i] \in T
  PROVE  s \in Seq(T)
  OBVIOUS

\* What the table should hold of abbreviation c, of which k attributes are read.
RowRead(o, c, k) ==
  [tag |-> o.abbrevs[c].tag, children |-> o.abbrevs[c].children,
   attributes |-> [i \in 1..k |-> [at |-> o.abbrevs[c].attributes[i].at,
                                   type |-> get_DW_FORM(FormCode[o.abbrevs[c].attributes[i].form])]]]

Attributes(o, c) == Len(o.abbrevs[c].attributes)

\* The first n rows are read.
RowsRead(n) == \A c \in 1..n : abbrevTable[c + 1] = RowRead(object, c, Attributes(object, c))

BetweenRows ==
  /\ RowsRead(Len(abbrevTable) - 1)
  /\ abbrevPtr = RowAt(object, Len(abbrevTable)) + 1

InRow(c, k) ==
  /\ RowsRead(c - 1) /\ abbrevTable[c + 1] = RowRead(object, c, k)
  /\ abbrevPtr = RowAt(object, c) + (3 + PairAt(object.abbrevs[c], k)) + 1

AllRows == Len(abbrevTable) = Len(object.abbrevs) + 1 /\ RowsRead(Len(object.abbrevs))

TableInv ==
  /\ IsSeq(abbrevTable) /\ Len(abbrevTable) \in 1..(Len(object.abbrevs) + 1)
  /\ pc = "readAbbrevTable" => BetweenRows
  /\ pc = "readAbbrev" => \E c \in 1..Len(object.abbrevs) :
                            Len(abbrevTable) = c + 1 /\ \E k \in 0..Attributes(object, c) : InRow(c, k)
  /\ pc \in {"readOneDIE", "readFromPointer", "done"} => AllRows

LEMMA PlainIsReadable == ASSUME PlainTable PROVE Readable(object)
<1>1. /\ object.abbrevs \in Seq(Abbreviation) /\ Len(object.abbrevs) < 128
      /\ object.abbrev = AbbrevTableBytes(object.abbrevs)
      /\ \A c \in DOMAIN object.abbrevs : object.abbrevs[c].tag \notin VendorTags
  BY Zenon DEF PlainTable, AsWritten, BytesAgree
<1>2. ASSUME NEW a \in Abbreviation, a.tag \notin VendorTags PROVE a \in PlainAbbreviation
  BY <1>2 DEF Abbreviation, PlainAbbreviation
<1>3. \A c \in 1..Len(object.abbrevs) : object.abbrevs[c] \in PlainAbbreviation
  <2>1. ASSUME NEW c \in 1..Len(object.abbrevs)
        PROVE  object.abbrevs[c] \in Abbreviation /\ c \in DOMAIN object.abbrevs
    BY <1>1
  <2> QED
    BY <1>1, <1>2, <2>1, Zenon
<1>4. object.abbrevs \in Seq(PlainAbbreviation)
  BY <1>1, <1>3, SubtypeSeq, Zenon
<1> QED
  BY <1>1, <1>4, Zenon DEF Readable

LEMMA TableInvInit ==
  ASSUME Init, PlainTable
  PROVE  TableInv
<1> DEFINE row == [tag |-> 0, children |-> FALSE, attributes |-> << >>]
<1>1. abbrevTable = <<row>> /\ pc = "readAbbrevTable" /\ abbrevPtr = 1
  BY DEF Init
<1> HIDE DEF row
<1>2. IsSeq(abbrevTable) /\ Len(abbrevTable) = 1
  <2>1. <<row>> \in Seq({row}) /\ Len(<<row>>) = 1
    OBVIOUS
  <2> QED
    BY <1>1, <2>1, Zenon DEF IsSeq
<1>3. RowAt(object, 1) = 0 /\ Len(object.abbrevs) \in Nat
  BY PlainIsReadable, EndOfRows, Zenon
<1>4. RowsRead(Len(abbrevTable) - 1)
  BY <1>2 DEF RowsRead
<1>5. BetweenRows
  BY <1>1, <1>2, <1>3, <1>4 DEF BetweenRows
<1> QED
  BY <1>1, <1>2, <1>3, <1>5 DEF TableInv

\* The bytes read between rows, and in one.
LEMMA BytesBetween ==
  ASSUME PlainTable, TableInv, pc = "readAbbrevTable", NEW n, n = Len(abbrevTable)
  PROVE  /\ n \in 1..(Len(object.abbrevs) + 1) /\ Len(object.abbrevs) \in Nat
         /\ n = Len(object.abbrevs) + 1 => abbrevByte(0) = 0
         /\ n <= Len(object.abbrevs) =>
              /\ n \in 1..Len(object.abbrevs) /\ abbrevByte(0) = n /\ abbrevByte(1) = object.abbrevs[n].tag
              /\ abbrevByte(2) = IF object.abbrevs[n].children THEN 1 ELSE 0
<1>1. Readable(object)
  BY PlainIsReadable
<1>2. n \in 1..(Len(object.abbrevs) + 1) /\ abbrevPtr = RowAt(object, n) + 1
  BY DEF TableInv, BetweenRows
<1>3. Len(object.abbrevs) \in Nat
  BY <1>1, EndOfRows, Zenon
<1>4. ASSUME n = Len(object.abbrevs) + 1 PROVE abbrevByte(0) = 0
  <2>1. PICK p \in Nat : p = RowAt(object, n) /\ At(object.abbrev, p + 1) = 0
    BY <1>1, <1>4, EndOfRows
  <2>2. abbrevPtr + 0 = p + 1
    BY <1>2, <2>1
  <2> QED
    BY <2>1, <2>2, Zenon DEF abbrevByte
<1>5. ASSUME n <= Len(object.abbrevs)
      PROVE  /\ n \in 1..Len(object.abbrevs) /\ abbrevByte(0) = n /\ abbrevByte(1) = object.abbrevs[n].tag
             /\ abbrevByte(2) = IF object.abbrevs[n].children THEN 1 ELSE 0
  <2>1. n \in 1..Len(object.abbrevs)
    BY <1>2, <1>3, <1>5
  <2>2. PICK p \in Nat : p = RowAt(object, n)
    BY <1>1, <2>1, RowsAt
  <2>3. /\ At(object.abbrev, p + 1) = n /\ At(object.abbrev, p + 2) = object.abbrevs[n].tag
        /\ At(object.abbrev, p + 3) = IF object.abbrevs[n].children THEN 1 ELSE 0
    <3>1. PICK a : a = object.abbrevs[n]
      OBVIOUS
    <3>2. /\ At(object.abbrev, RowAt(object, n) + 1) = n /\ At(object.abbrev, RowAt(object, n) + 2) = a.tag
          /\ At(object.abbrev, RowAt(object, n) + 3) = IF a.children THEN 1 ELSE 0
      BY <1>1, <2>1, <3>1, HeadBytes
    <3> QED
      BY <2>2, <3>1, <3>2, Zenon
  <2>4. abbrevPtr + 0 = p + 1 /\ abbrevPtr + 1 = p + 2 /\ abbrevPtr + 2 = p + 3
    BY <1>2, <2>2
  <2> QED
    BY <2>1, <2>3, <2>4, Zenon DEF abbrevByte
<1> QED
  BY <1>2, <1>3, <1>4, <1>5, Zenon

LEMMA BytesWithin ==
  ASSUME PlainTable, NEW c \in 1..Len(object.abbrevs), NEW a, a = object.abbrevs[c],
         NEW k \in 0..Attributes(object, c), InRow(c, k)
  PROVE  /\ a.attributes \in Seq(Attribute) /\ Attributes(object, c) = Len(a.attributes) /\ Len(a.attributes) \in Nat
         /\ RowAt(object, c) \in Nat /\ PairAt(a, k) \in Nat
         /\ k = Len(a.attributes) => abbrevByte(0) = 0 /\ abbrevByte(1) = 0
         /\ k # Len(a.attributes) =>
              /\ k + 1 \in 1..Len(a.attributes) /\ PairGood(a.attributes[k + 1], Pairs(a)[k + 1])
              /\ PairAt(a, k + 1) = PairAt(a, k) + Len(Pairs(a)[k + 1])
              /\ abbrevByte(0) = Pairs(a)[k + 1][1] /\ abbrevByte(1) = Pairs(a)[k + 1][2]
<1>1. Readable(object)
  BY PlainIsReadable
<1>2. PICK n : n = Len(a.attributes)
  OBVIOUS
<1>3. a.attributes \in Seq(Attribute) /\ n \in Nat
  BY <1>1, <1>2, RowsType, PlainFields, LengthType, Zenon
<1>4. Attributes(object, c) = n /\ k \in 0..n
  BY <1>2 DEF Attributes
<1>5. PICK p \in Nat, q \in Nat : p = RowAt(object, c) /\ q = PairAt(a, k)
  <2>1. RowAt(object, c) \in Nat
    BY <1>1, RowsAt, Zenon
  <2>2. PairAt(a, k) \in Nat
    BY <1>2, <1>3, <1>4, PairsAt, Zenon
  <2> QED
    BY <2>1, <2>2, Zenon
<1>6. abbrevPtr = p + (3 + q) + 1
  BY <1>5, Zenon DEF InRow
<1>7. abbrevPtr + 0 = p + (3 + q) + 1 /\ abbrevPtr + 1 = p + (3 + q) + 2
  BY <1>5, <1>6
<1>8. ASSUME k = n PROVE abbrevByte(0) = 0 /\ abbrevByte(1) = 0
  <2>1. At(object.abbrev, p + (3 + q) + 1) = 0 /\ At(object.abbrev, p + (3 + q) + 2) = 0
    <3>1. /\ At(object.abbrev, RowAt(object, c) + (3 + PairAt(a, Len(a.attributes))) + 1) = 0
          /\ At(object.abbrev, RowAt(object, c) + (3 + PairAt(a, Len(a.attributes))) + 2) = 0
      BY <1>1, HeadBytes
    <3> QED
      BY <1>2, <1>5, <1>8, <3>1, Zenon
  <2> QED
    BY <1>7, <2>1, Zenon DEF abbrevByte
<1>9. ASSUME k # n
      PROVE  /\ k + 1 \in 1..n /\ PairGood(a.attributes[k + 1], Pairs(a)[k + 1])
             /\ PairAt(a, k + 1) = q + Len(Pairs(a)[k + 1])
             /\ abbrevByte(0) = Pairs(a)[k + 1][1] /\ abbrevByte(1) = Pairs(a)[k + 1][2]
  <2>1. PICK i : i = k + 1 /\ i \in 1..n /\ i - 1 = k
    BY <1>3, <1>4, <1>9
  <2>2. PICK pair : pair = Pairs(a)[i]
    OBVIOUS
  <2>3. PairGood(a.attributes[i], pair) /\ \A l \in 1..Len(pair) : At(object.abbrev, p + (3 + q) + l) = pair[l]
    <3>1. /\ PairGood(a.attributes[i], Pairs(a)[i])
          /\ \A l \in 1..Len(Pairs(a)[i]) :
               At(object.abbrev, RowAt(object, c) + (3 + PairAt(a, i - 1)) + l) = Pairs(a)[i][l]
      <4>1. i \in 1..Len(a.attributes)
        BY <1>2, <2>1
      <4> QED
        BY <1>1, <4>1, AttributeBytes
    <3> QED
      BY <1>5, <2>1, <2>2, <3>1, Zenon
  <2>4. 1 \in 1..Len(pair) /\ 2 \in 1..Len(pair)
    <3>1. Len(pair) = 2 \/ Len(pair) = 3
      BY <2>3, Zenon DEF PairGood
    <3> QED
      BY <3>1
  <2>5. PairAt(a, i) = q + Len(pair)
    BY <1>2, <1>3, <1>5, <2>1, <2>2, PairsAt, Zenon
  <2>6. abbrevByte(0) = pair[1] /\ abbrevByte(1) = pair[2]
    BY <1>7, <2>3, <2>4, Zenon DEF abbrevByte
  <2> QED
    BY <2>1, <2>2, <2>3, <2>5, <2>6, Zenon
<1> QED
  BY <1>2, <1>3, <1>4, <1>5, <1>8, <1>9, Zenon

\* A row at its beginning, and with one attribute more.
LEMMA RowBegins ==
  ASSUME NEW o, NEW c
  PROVE  RowRead(o, c, 0) = [tag |-> o.abbrevs[c].tag, children |-> o.abbrevs[c].children, attributes |-> << >>]
  BY DEF RowRead

LEMMA AppendToTable ==
  ASSUME NEW k \in Nat, NEW f
  PROVE  Append([i \in 1..k |-> f[i]], f[k + 1]) = [i \in 1..(k + 1) |-> f[i]]
<1> DEFINE s == [i \in 1..k |-> f[i]]
           t == [i \in 1..(k + 1) |-> f[i]]
<1>1. PICK T : T = {f[i] : i \in 1..(k + 1)}
  OBVIOUS
<1>2. s \in Seq(T) /\ Len(s) = k /\ t \in Seq(T) /\ Len(t) = k + 1 /\ f[k + 1] \in T
  BY <1>1
<1>3. /\ Append(s, f[k + 1]) \in Seq(T) /\ Len(Append(s, f[k + 1])) = k + 1
      /\ \A i \in 1..k : Append(s, f[k + 1])[i] = s[i]
      /\ Append(s, f[k + 1])[k + 1] = f[k + 1]
  BY <1>2, AppendProperties
<1>4. \A i \in 1..(k + 1) : Append(s, f[k + 1])[i] = t[i]
  <2>1. \A i \in 1..(k + 1) : t[i] = f[i]
    OBVIOUS
  <2>2. \A i \in 1..k : s[i] = f[i]
    OBVIOUS
  <2> HIDE DEF s, t
  <2> QED
    BY <1>3, <2>1, <2>2
<1> HIDE DEF s, t
<1>5. Append(s, f[k + 1]) = t
  BY <1>2, <1>3, <1>4, SeqEqual
<1> QED
  BY <1>5 DEF s, t

LEMMA RowGrows ==
  ASSUME NEW o, NEW c, NEW k \in Nat, NEW row, row = RowRead(o, c, k),
         NEW x, x = [at |-> o.abbrevs[c].attributes[k + 1].at,
                     type |-> get_DW_FORM(FormCode[o.abbrevs[c].attributes[k + 1].form])]
  PROVE  [row EXCEPT !.attributes = Append(row.attributes, x)] = RowRead(o, c, k + 1)
<1> DEFINE e(i) == [at |-> o.abbrevs[c].attributes[i].at,
                    type |-> get_DW_FORM(FormCode[o.abbrevs[c].attributes[i].form])]
           f == [i \in 1..(k + 1) |-> e(i)]
           s == [i \in 1..k |-> f[i]]
           t == [i \in 1..(k + 1) |-> f[i]]
<1>1. k + 1 \in 1..(k + 1) /\ \A i \in 1..k : i \in 1..(k + 1)
  OBVIOUS
<1>2. \A i \in 1..(k + 1) : f[i] = e(i)
  OBVIOUS
<1>3. s = [i \in 1..k |-> e(i)] /\ t = [i \in 1..(k + 1) |-> e(i)] /\ f[k + 1] = x
  <2> HIDE DEF e, f
  <2>1. s = [i \in 1..k |-> e(i)] /\ t = [i \in 1..(k + 1) |-> e(i)]
    BY <1>1, <1>2, Zenon
  <2>2. f[k + 1] = e(k + 1)
    BY <1>1, <1>2
  <2> QED
    BY <2>1, <2>2 DEF e
<1>4. Append(s, x) = t
  <2> HIDE DEF f, e
  <2>1. Append([i \in 1..k |-> f[i]], f[k + 1]) = [i \in 1..(k + 1) |-> f[i]]
    BY AppendToTable
  <2> QED
    BY <1>3, <2>1
<1>5. row = [tag |-> o.abbrevs[c].tag, children |-> o.abbrevs[c].children, attributes |-> s]
  BY <1>3 DEF RowRead
<1>6. RowRead(o, c, k + 1) = [tag |-> o.abbrevs[c].tag, children |-> o.abbrevs[c].children, attributes |-> t]
  BY <1>3 DEF RowRead
<1> HIDE DEF s, t, e, f
<1>7. PICK tag, children : tag = o.abbrevs[c].tag /\ children = o.abbrevs[c].children
  OBVIOUS
<1>8. row = [tag |-> tag, children |-> children, attributes |-> s] /\ row.attributes = s
  BY <1>5, <1>7
<1>9. [[tag |-> tag, children |-> children, attributes |-> s] EXCEPT !.attributes = t]
        = [tag |-> tag, children |-> children, attributes |-> t]
  OBVIOUS
<1> QED
  BY <1>4, <1>6, <1>7, <1>8, <1>9, Zenon

\* The steps of readAbbrevTable.
LEMMA TableRead ==
  ASSUME PlainTable, TableInv, EndOfTable
  PROVE  TableInv'
<1>1. pc = "readAbbrevTable" /\ abbrevByte(0) = 0 /\ pc' = "readOneDIE"
      /\ UNCHANGED <<object, abbrevPtr, abbrevTable>>
  BY DEF EndOfTable, Stop
<1>2. PICK n : n = Len(abbrevTable)
  OBVIOUS
<1>3. n = Len(object.abbrevs) + 1 /\ Len(object.abbrevs) \in Nat
  BY <1>1, <1>2, BytesBetween
<1>4. RowsRead(n - 1) /\ n - 1 = Len(object.abbrevs)
  BY <1>1, <1>2, <1>3 DEF TableInv, BetweenRows
<1>5. AllRows'
  BY <1>1, <1>2, <1>3, <1>4 DEF AllRows, RowsRead
<1>6. IsSeq(abbrevTable) /\ Len(abbrevTable) \in 1..(Len(object.abbrevs) + 1)
  BY DEF TableInv
<1> QED
  BY <1>1, <1>5, <1>6 DEF TableInv

LEMMA NoUnexpectedCode ==
  ASSUME PlainTable, TableInv, UnexpectedCode
  PROVE  FALSE
<1>1. pc = "readAbbrevTable" /\ abbrevByte(0) \notin {0, Len(abbrevTable)}
  BY DEF UnexpectedCode
<1>2. PICK n : n = Len(abbrevTable)
  OBVIOUS
<1>3. n \in 1..(Len(object.abbrevs) + 1) /\ Len(object.abbrevs) \in Nat
  BY <1>1, <1>2, BytesBetween
<1>4. n = Len(object.abbrevs) + 1 \/ n <= Len(object.abbrevs)
  BY <1>3
<1> QED
  BY <1>1, <1>2, <1>4, BytesBetween

LEMMA RowBegun ==
  ASSUME PlainTable, TableInv, ReadTag
  PROVE  TableInv'
<1> DEFINE row == [tag |-> abbrevByte(1), children |-> abbrevByte(2) # 0, attributes |-> << >>]
<1>1. /\ pc = "readAbbrevTable" /\ abbrevByte(0) = Len(abbrevTable) /\ pc' = "readAbbrev"
      /\ abbrevTable' = Append(abbrevTable, row) /\ abbrevPtr' = abbrevPtr + 3 /\ object' = object
  BY DEF ReadTag
<1>2. PICK n : n = Len(abbrevTable)
  OBVIOUS
<1>3. n \in 1..(Len(object.abbrevs) + 1) /\ Len(object.abbrevs) \in Nat
  BY <1>1, <1>2, BytesBetween
<1>4. n <= Len(object.abbrevs)
  <2>1. abbrevByte(0) # 0
    BY <1>1, <1>2, <1>3
  <2>2. n # Len(object.abbrevs) + 1
    BY <1>1, <1>2, <2>1, BytesBetween
  <2> QED
    BY <1>3, <2>2
<1>5. /\ n \in 1..Len(object.abbrevs) /\ abbrevByte(1) = object.abbrevs[n].tag
      /\ abbrevByte(2) = IF object.abbrevs[n].children THEN 1 ELSE 0
  BY <1>1, <1>2, <1>4, BytesBetween
<1>6. row = RowRead(object, n, 0)
  <2>1. object.abbrevs[n].children \in BOOLEAN
    BY <1>5, PlainIsReadable, RowsType, PlainFields, Zenon
  <2>2. (abbrevByte(2) # 0) = object.abbrevs[n].children
    BY <1>5, <2>1
  <2> QED
    BY <1>5, <2>2, RowBegins, Zenon
<1>7. /\ RowsRead(n - 1) /\ abbrevPtr = RowAt(object, n) + 1 /\ IsSeq(abbrevTable)
  BY <1>1, <1>2 DEF TableInv, BetweenRows
<1> HIDE DEF row
<1>8. /\ IsSeq(abbrevTable') /\ Len(abbrevTable') = n + 1 /\ abbrevTable'[n + 1] = row
      /\ \A i \in 1..n : abbrevTable'[i] = abbrevTable[i]
  BY <1>1, <1>2, <1>7, Appended
<1>9. RowsRead(n - 1)'
  <2>1. ASSUME NEW c \in 1..(n - 1) PROVE abbrevTable'[c + 1] = RowRead(object', c, Attributes(object', c))
    <3>1. c + 1 \in 1..n
      BY <1>3
    <3>2. abbrevTable[c + 1] = RowRead(object, c, Attributes(object, c))
      BY <1>7 DEF RowsRead
    <3> QED
      BY <1>1, <1>8, <3>1, <3>2, Zenon
  <2> QED
    BY <2>1 DEF RowsRead
<1>10. InRow(n, 0)'
  <2>1. PairAt(object.abbrevs[n], 0) = 0
    BY FlattenEmpty DEF PairAt
  <2>2. RowAt(object, n) \in Nat
    BY <1>5, PlainIsReadable, RowsAt, Zenon
  <2>3. abbrevPtr' = RowAt(object, n) + (3 + 0) + 1
    BY <1>1, <1>7, <2>2
  <2> QED
    BY <1>1, <1>6, <1>8, <1>9, <2>1, <2>3 DEF InRow
<1>11. 0 \in 0..Attributes(object, n)
  <2>1. Attributes(object, n) \in Nat
    BY <1>5, PlainIsReadable, RowsType, PlainFields, LengthType, Zenon DEF Attributes
  <2> QED
    BY <2>1
<1>12. n + 1 \in 1..(Len(object.abbrevs) + 1)
  BY <1>3, <1>4
<1>13. pc' = "readAbbrev"
  BY <1>1
<1> QED
  BY <1>1, <1>5, <1>8, <1>10, <1>11, <1>12, <1>13 DEF TableInv

LEMMA RowEnded ==
  ASSUME PlainTable, TableInv, EndOfAbbrev
  PROVE  TableInv'
<1>1. /\ pc = "readAbbrev" /\ abbrevByte(0) = 0 /\ abbrevByte(1) = 0 /\ pc' = "readAbbrevTable"
      /\ abbrevPtr' = abbrevPtr + 2 /\ abbrevTable' = abbrevTable /\ object' = object
  BY DEF EndOfAbbrev
<1>2. PICK c \in 1..Len(object.abbrevs) :
        Len(abbrevTable) = c + 1 /\ \E k \in 0..Attributes(object, c) : InRow(c, k)
  BY <1>1 DEF TableInv
<1>3. PICK k \in 0..Attributes(object, c) : InRow(c, k)
  BY <1>2
<1>4. PICK a : a = object.abbrevs[c]
  OBVIOUS
<1>5. k = Len(a.attributes)
  <2>1. SUFFICES ASSUME k # Len(a.attributes) PROVE FALSE
    OBVIOUS
  <2>2. PairGood(a.attributes[k + 1], Pairs(a)[k + 1]) /\ abbrevByte(0) = Pairs(a)[k + 1][1]
    BY <1>3, <1>4, <2>1, BytesWithin, Zenon
  <2> QED
    BY <1>1, <2>2, Zenon DEF PairGood
<1>6. Attributes(object, c) = k
  BY <1>4, <1>5 DEF Attributes
<1>7. RowsRead(c)
  <2>1. RowsRead(c - 1) /\ abbrevTable[c + 1] = RowRead(object, c, k)
    BY <1>3 DEF InRow
  <2>2. ASSUME NEW d \in 1..c PROVE abbrevTable[d + 1] = RowRead(object, d, Attributes(object, d))
    <3>1. CASE d = c
      BY <1>6, <2>1, <3>1
    <3>2. CASE d # c
      <4>1. d \in 1..(c - 1)
        BY <3>2
      <4> QED
        BY <2>1, <4>1 DEF RowsRead
    <3> QED
      BY <3>1, <3>2
  <2> QED
    BY <2>2 DEF RowsRead
<1>8. abbrevPtr' = RowAt(object, c + 1) + 1
  <2>1. abbrevPtr = RowAt(object, c) + (3 + PairAt(a, k)) + 1 /\ RowAt(object, c) \in Nat /\ PairAt(a, k) \in Nat
    BY <1>3, <1>4, BytesWithin, Zenon DEF InRow
  <2>2. RowAt(object, c + 1) = RowAt(object, c) + (5 + PairAt(a, k))
    BY <1>4, <1>5, PlainIsReadable, HeadBytes
  <2> QED
    BY <1>1, <2>1, <2>2
<1>9. BetweenRows'
  <2>1. c + 1 - 1 = c
    OBVIOUS
  <2> QED
    BY <1>1, <1>2, <1>7, <1>8, <2>1 DEF BetweenRows, RowsRead
<1>10. IsSeq(abbrevTable) /\ Len(abbrevTable) \in 1..(Len(object.abbrevs) + 1)
  BY DEF TableInv
<1> QED
  BY <1>1, <1>9, <1>10 DEF TableInv

\* An attribute that is read is of no vendor.
LEMMA AttributeRead ==
  ASSUME PlainTable, TableInv, ReadAttribute
  PROVE  TableInv'
<1>1. /\ IsPair /\ abbrevByte(1) \in KnownForms
      /\ abbrevTable' = [abbrevTable EXCEPT ![Len(abbrevTable)].attributes =
           Append(@, [at |-> abbrevByte(0), type |-> get_DW_FORM(abbrevByte(1))])]
      /\ abbrevPtr' = abbrevPtr + 2 /\ object' = object /\ pc' = pc
  BY DEF ReadAttribute
<1>2. pc = "readAbbrev" /\ ~(abbrevByte(0) = 0 /\ abbrevByte(1) = 0)
  BY <1>1 DEF IsPair
<1>3. PICK c \in 1..Len(object.abbrevs) :
        Len(abbrevTable) = c + 1 /\ \E k \in 0..Attributes(object, c) : InRow(c, k)
  BY <1>2 DEF TableInv
<1>4. PICK k \in 0..Attributes(object, c) : InRow(c, k)
  BY <1>3
<1>5. PICK a : a = object.abbrevs[c]
  OBVIOUS
<1>6. k # Len(a.attributes)
  BY <1>2, <1>4, <1>5, BytesWithin, Zenon
<1>7. PICK pair : pair = Pairs(a)[k + 1]
  OBVIOUS
<1>8. PICK attribute : attribute = a.attributes[k + 1]
  OBVIOUS
<1>9. /\ k + 1 \in 1..Len(a.attributes) /\ PairGood(attribute, pair)
      /\ PairAt(a, k + 1) = PairAt(a, k) + Len(pair) /\ abbrevByte(0) = pair[1] /\ abbrevByte(1) = pair[2]
  BY <1>4, <1>5, <1>6, <1>7, <1>8, BytesWithin, Zenon
<1>10. Len(pair) = 2 /\ pair[1] = attribute.at /\ pair[2] = FormCode[attribute.form]
  BY <1>1, <1>9, Zenon DEF PairGood
<1> DEFINE x == [at |-> attribute.at, type |-> get_DW_FORM(FormCode[attribute.form])]
           row == abbrevTable[c + 1]
           next == [row EXCEPT !.attributes = Append(row.attributes, x)]
<1>11. IsSeq(abbrevTable) /\ c + 1 \in 1..Len(abbrevTable) /\ Len(abbrevTable) = c + 1
  BY <1>3 DEF TableInv
<1>12. abbrevTable' = [abbrevTable EXCEPT ![c + 1] = next]
  <2>1. [at |-> abbrevByte(0), type |-> get_DW_FORM(abbrevByte(1))] = x
    BY <1>9, <1>10, Zenon
  <2> HIDE DEF x
  <2> QED
    BY <1>1, <1>3, <2>1, Zenon
<1>13. next = RowRead(object, c, k + 1)
  <2>1. row = RowRead(object, c, k) /\ k \in Nat
    BY <1>4 DEF InRow
  <2> HIDE DEF row
  <2> QED
    BY <1>5, <1>8, <2>1, RowGrows, Zenon
<1> HIDE DEF next
<1>14. /\ IsSeq(abbrevTable') /\ Len(abbrevTable') = c + 1 /\ abbrevTable'[c + 1] = next
       /\ \A j \in 1..Len(abbrevTable) : j # c + 1 => abbrevTable'[j] = abbrevTable[j]
  <2>1. Differs(abbrevTable', abbrevTable, c + 1, next)
    BY <1>11, <1>12, Changed, Zenon
  <2> QED
    BY <1>11, <2>1, Zenon DEF Differs
<1>15. RowsRead(c - 1)'
  <2>1. RowsRead(c - 1)
    BY <1>4 DEF InRow
  <2>2. ASSUME NEW d \in 1..(c - 1) PROVE abbrevTable'[d + 1] = RowRead(object', d, Attributes(object', d))
    <3>1. d + 1 \in 1..Len(abbrevTable) /\ d + 1 # c + 1
      BY <1>3
    <3>2. abbrevTable[d + 1] = RowRead(object, d, Attributes(object, d))
      BY <2>1 DEF RowsRead
    <3> QED
      BY <1>1, <1>14, <3>1, <3>2, Zenon
  <2> QED
    BY <2>2 DEF RowsRead
<1>16. abbrevPtr' = RowAt(object, c) + (3 + PairAt(a, k + 1)) + 1
  <2>1. abbrevPtr = RowAt(object, c) + (3 + PairAt(a, k)) + 1 /\ RowAt(object, c) \in Nat /\ PairAt(a, k) \in Nat
    BY <1>4, <1>5, BytesWithin, Zenon DEF InRow
  <2>2. PairAt(a, k + 1) = PairAt(a, k) + 2
    BY <1>9, <1>10
  <2> QED
    BY <1>1, <2>1, <2>2
<1>17. InRow(c, k + 1)'
  BY <1>1, <1>5, <1>13, <1>14, <1>15, <1>16, Zenon DEF InRow
<1>18. k + 1 \in 0..Attributes(object, c)
  BY <1>5, <1>9 DEF Attributes
<1>19. c + 1 \in 1..(Len(object.abbrevs) + 1)
  BY <1>3 DEF TableInv
<1>20. pc' = "readAbbrev"
  BY <1>1, <1>2
<1> QED
  BY <1>1, <1>14, <1>17, <1>18, <1>19, <1>20 DEF TableInv

LEMMA VendorFound ==
  ASSUME PlainTable, TableInv, UnknownForm
  PROVE  \E c \in DOMAIN object.abbrevs : \E i \in DOMAIN object.abbrevs[c].attributes :
           object.abbrevs[c].attributes[i].at \in VendorAttributes
<1>1. pc = "readAbbrev" /\ ~(abbrevByte(0) = 0 /\ abbrevByte(1) = 0) /\ abbrevByte(1) \notin KnownForms
  BY DEF UnknownForm, IsPair
<1>2. PICK c \in 1..Len(object.abbrevs) : \E k \in 0..Attributes(object, c) : InRow(c, k)
  BY <1>1 DEF TableInv
<1>3. PICK k \in 0..Attributes(object, c) : InRow(c, k)
  BY <1>2
<1>4. PICK a : a = object.abbrevs[c]
  OBVIOUS
<1>5. k # Len(a.attributes)
  BY <1>1, <1>3, <1>4, BytesWithin, Zenon
<1>6. /\ k + 1 \in 1..Len(a.attributes) /\ PairGood(a.attributes[k + 1], Pairs(a)[k + 1])
      /\ abbrevByte(1) = Pairs(a)[k + 1][2] /\ a.attributes \in Seq(Attribute)
  BY <1>3, <1>4, <1>5, BytesWithin, Zenon
<1>7. a.attributes[k + 1].at \in VendorAttributes
  <2>1. PICK attribute, pair : attribute = a.attributes[k + 1] /\ pair = Pairs(a)[k + 1]
    OBVIOUS
  <2>2. PairGood(attribute, pair) /\ pair[2] \notin KnownForms
    BY <1>1, <1>6, <2>1, Zenon
  <2>3. attribute.at \notin VendorAttributes => pair[2] \in KnownForms
    BY <2>2, CodesKnown, Zenon DEF PairGood
  <2> QED
    BY <2>1, <2>2, <2>3, Zenon
<1>8. c \in DOMAIN object.abbrevs
  <2>1. object.abbrevs \in Seq(PlainAbbreviation)
    BY PlainIsReadable DEF Readable
  <2> QED
    BY <2>1
<1>9. k + 1 \in DOMAIN a.attributes
  BY <1>6
<1> QED
  BY <1>4, <1>7, <1>8, <1>9, Zenon

\* What follows changes neither the object nor its table.
Later == {"readOneDIE", "readFromPointer", "done"}

LEMMA TableKept ==
  ASSUME TableInv, UNCHANGED <<object, abbrevPtr, abbrevTable>>,
         pc' \in Later \cup {"error", "abort"}, pc \in Later \/ pc' \in {"error", "abort"}
  PROVE  TableInv'
<1>1. pc' \in Later => AllRows
  BY DEF TableInv, Later
<1>2. (IsSeq(abbrevTable) /\ Len(abbrevTable) \in 1..(Len(object.abbrevs) + 1))'
  BY DEF TableInv
<1>3. AllRows' <=> AllRows
  BY DEF AllRows, RowsRead
<1> QED
  BY <1>1, <1>2, <1>3 DEF TableInv, Later

LEMMA PlainTableKept == ASSUME object' = object PROVE PlainTable' <=> PlainTable
  BY DEF PlainTable

\* The steps of readOneDIE and readFromPointer.
DIEStep ==
  \/ UnknownAbbrev \/ StartDIE \/ ReadString \/ SkipExprloc \/ ReadULEB128 \/ NotImplemented
  \/ ReadFlag \/ ReadNumber \/ ReadRelocatedString \/ ReadLinkedString \/ EndOfDIE

\* What a relocation can be resolved to.
LEMMA Resolutions ==
  ASSUME NEW file, NEW name, NEW offset
  PROVE  ELF!AttemptResolveLocalReloc(file, name, offset).is \in {"value", "error", "abort"}
<1>1. ASSUME NEW sym PROVE ELF!SymValue(file, sym).is \in {"value", "error", "abort"}
  BY DEF ELF!SymValue, ELF!Value, ELF!Err
<1>2. ASSUME NEW rel PROVE ELF!ResolveLocalDefinedReloc(file, rel).is \in {"value", "error", "abort"}
  BY <1>1 DEF ELF!ResolveLocalDefinedReloc, ELF!Abort, ELF!Err
<1> QED
  BY <1>2 DEF ELF!AttemptResolveLocalReloc, ELF!Value, ELF!Err

LEMMA DIESteps ==
  ASSUME DIEStep
  PROVE  /\ UNCHANGED <<object, abbrevPtr, abbrevTable>> /\ pc \in {"readOneDIE", "readFromPointer"}
         /\ pc' \in {"readFromPointer", "done", "error", "abort"}
<1>1. CASE UnknownAbbrev
  BY <1>1 DEF UnknownAbbrev, Stop
<1>2. CASE StartDIE
  BY <1>2 DEF StartDIE
<1>3. CASE ReadString
  BY <1>3, Zenon DEF ReadString, Reading, Data
<1>4. CASE SkipExprloc \/ ReadULEB128 \/ ReadFlag
  BY <1>4 DEF SkipExprloc, ReadULEB128, ReadFlag, Reading, Data
<1>5. CASE NotImplemented \/ EndOfDIE
  BY <1>5 DEF NotImplemented, EndOfDIE, Reading, Stop
<1>6. CASE ReadNumber
  BY <1>6, Zenon DEF ReadNumber, Reading, Data
<1>7. CASE ReadRelocatedString
  <2>1. PICK at : /\ at = ELF!AttemptResolveLocalReloc(object.file, ".rela.debug_info", OffsetOf(debugInfo))
                  /\ at.is \in {"value", "error", "abort"}
    BY Resolutions
  <2>2. \/ at.is = "error" /\ Data(Str(<< >>), 4)
        \/ at.is = "abort" /\ Stop("abort")
        \/ at.is = "value" /\ Data(Str(ELF!StringAt(object.file, at.value)), 4)
    BY <1>7, <2>1, Zenon DEF ReadRelocatedString
  <2>3. pc = "readFromPointer"
    BY <1>7 DEF ReadRelocatedString, Reading
  <2> QED
    BY <2>2, <2>3 DEF Stop, Data
<1>8. CASE ReadLinkedString
  BY <1>8 DEF ReadLinkedString, Reading, Stop, Data
<1> QED
  BY <1>1, <1>2, <1>3, <1>4, <1>5, <1>6, <1>7, <1>8, Zenon DEF DIEStep

LEMMA ObjectKept == ASSUME [Next]_vars PROVE object' = object
<1>1. DIEStep => object' = object
  BY DIESteps
<1> QED
  BY <1>1, Zenon DEF Next, DIEStep, vars, Stop, EndOfTable, UnexpectedCode, ReadTag, EndOfAbbrev, UnknownForm,
                     ReadAttribute, Returned

LEMMA TableInvStep ==
  ASSUME PlainTable, TableInv, [Next]_vars
  PROVE  TableInv'
<1>1. CASE UNCHANGED vars
  BY <1>1 DEF vars, TableInv, BetweenRows, InRow, AllRows, RowsRead, abbrevByte
<1>2. CASE EndOfTable
  BY <1>2, TableRead
<1>3. CASE UnexpectedCode
  BY <1>3, NoUnexpectedCode
<1>4. CASE ReadTag
  BY <1>4, RowBegun
<1>5. CASE EndOfAbbrev
  BY <1>5, RowEnded
<1>6. CASE UnknownForm
  BY <1>6, TableKept DEF UnknownForm, Stop
<1>7. CASE ReadAttribute
  BY <1>7, AttributeRead
<1>8. CASE DIEStep
  BY <1>8, DIESteps, TableKept DEF Later
<1>9. CASE Returned
  BY <1>1, <1>9 DEF Returned
<1> QED
  BY <1>1, <1>2, <1>3, <1>4, <1>5, <1>6, <1>7, <1>8, <1>9, Zenon DEF Next, DIEStep

\* A row that is read is what is meant.
Names(list) == [i \in DOMAIN list |-> list[i].at]

IsMeant(row, o, c, list) ==
  row.tag = o.abbrevs[c].tag /\ row.children = o.abbrevs[c].children /\ Names(row.attributes) = Names(list)

LEMMA RowIsMeant ==
  ASSUME NEW o, NEW c, NEW list, list = o.abbrevs[c].attributes, list \in Seq(Attribute),
         NEW row, row = RowRead(o, c, Len(list))
  PROVE  IsMeant(row, o, c, list)
<1>1. PICK n : n = Len(list)
  OBVIOUS
<1>2. DOMAIN list = 1..n
  BY <1>1
<1>3. row.attributes = [i \in 1..n |-> [at |-> list[i].at, type |-> get_DW_FORM(FormCode[list[i].form])]]
  BY <1>1, Zenon DEF RowRead
<1>4. row.tag = o.abbrevs[c].tag /\ row.children = o.abbrevs[c].children
  BY Zenon DEF RowRead
<1>5. DOMAIN row.attributes = 1..n
  BY <1>3, Zenon
<1>6. ASSUME NEW i \in 1..n PROVE row.attributes[i].at = list[i].at
  <2>1. row.attributes[i] = [at |-> list[i].at, type |-> get_DW_FORM(FormCode[list[i].form])]
    BY <1>3, Zenon
  <2> QED
    BY <2>1
<1>7. Names(row.attributes) = Names(list)
  BY <1>2, <1>5, <1>6 DEF Names
<1> QED
  BY <1>4, <1>7 DEF IsMeant

LEMMA TableInvImpliesRight ==
  ASSUME PlainTable => TableInv
  PROVE  TableRight
<1>1. SUFFICES ASSUME PlainTable, TableInv, pc \in Later
               PROVE  /\ Len(abbrevTable) = Len(object.abbrevs) + 1
                      /\ \A c \in DOMAIN object.abbrevs : Read(c) = Meant(c)
  BY DEF TableRight, Later
<1>2. AllRows
  BY <1>1 DEF TableInv, Later
<1>3. Readable(object)
  BY <1>1, PlainIsReadable
<1>4. ASSUME NEW c \in DOMAIN object.abbrevs PROVE Read(c) = Meant(c)
  <2>1. c \in 1..Len(object.abbrevs)
    BY <1>3 DEF Readable
  <2>2. PICK list : list = object.abbrevs[c].attributes
    OBVIOUS
  <2>3. PICK row : row = abbrevTable[c + 1]
    OBVIOUS
  <2>4. row = RowRead(object, c, Len(list))
    BY <1>2, <2>1, <2>2, <2>3, Zenon DEF AllRows, RowsRead, Attributes
  <2>5. list \in Seq(Attribute)
    BY <1>3, <2>1, <2>2, RowsType, PlainFields, Zenon
  <2>6. IsMeant(row, object, c, list)
    BY <2>2, <2>4, <2>5, RowIsMeant, Zenon
  <2> QED
    BY <2>2, <2>3, <2>6, Zenon DEF Read, Meant, IsMeant, Names
<1> QED
  BY <1>2, <1>4 DEF AllRows

\* The table of abbreviations is right whenever readAbbrevTable returns, for every
\* object: each row is where the one before it ends, its code is its index, and
\* no attribute that is read is of a vendor.
THEOREM TableAlwaysRight == Spec => []TableRight
<1> DEFINE Inv == PlainTable => TableInv
<1>1. Init => Inv
  BY TableInvInit
<1>2. Inv /\ [Next]_vars => Inv'
  BY ObjectKept, PlainTableKept, TableInvStep
<1>3. Inv => TableRight
  BY TableInvImpliesRight
<1> QED
  BY <1>1, <1>2, <1>3, PTL DEF Spec

------------------------------------------------------------------------------
(* The bytes of a DIE *)

LEMMA NumberBytes ==
  ASSUME NEW n \in Nat
  PROVE  ULEB128(n) \in Seq(Nat)
<1>1. n % 128 \in Nat /\ n \div 128 \in Nat /\ n \div 16384 \in Nat /\ (n \div 128) % 128 \in Nat
  OBVIOUS
<1> QED
  BY <1>1 DEF ULEB128

LEMMA BytesAreNumbers ==
  /\ \A v \in Seq(Byte) : v \in Seq(Nat)
  /\ \A v \in Seq(1..255) : v \in Seq(Nat)
<1>1. \A b \in Byte : b \in Nat
  BY DEF Byte
<1>2. \A b \in 1..255 : b \in Nat
  OBVIOUS
<1>3. ASSUME NEW S, \A b \in S : b \in Nat, NEW v \in Seq(S) PROVE v \in Seq(Nat)
  BY <1>3
<1> QED
  BY <1>1, <1>2, <1>3, Zenon

LEMMA LowBytes ==
  ASSUME NEW v \in [1..8 -> Byte], NEW size \in 0..8
  PROVE  /\ Low(v, size) \in Seq(Nat) /\ Len(Low(v, size)) = size
         /\ \A k \in 1..size : Low(v, size)[k] = v[k]
<1>1. ASSUME NEW k \in 1..size PROVE v[k] \in Nat
  <2>1. k \in 1..8
    OBVIOUS
  <2>2. v[k] \in Byte
    BY <2>1, Zenon
  <2> QED
    BY <2>2 DEF Byte
<1>2. /\ SubSeq(v, 1, size) \in Seq(Nat) /\ Len(SubSeq(v, 1, size)) = IF 1 <= size THEN size - 1 + 1 ELSE 0
      /\ \A k \in 1..(size - 1 + 1) : SubSeq(v, 1, size)[k] = v[1 + k - 1]
  BY <1>1, SubSeqProperties
<1>3. PICK s : s = SubSeq(v, 1, size)
  OBVIOUS
<1>4. s \in Seq(Nat) /\ Len(s) = size
  BY <1>2, <1>3
<1>5. ASSUME NEW k \in 1..size PROVE s[k] = v[k]
  <2>1. k \in 1..(size - 1 + 1) /\ 1 + k - 1 = k
    OBVIOUS
  <2> QED
    BY <1>2, <1>3, <2>1
<1> QED
  BY <1>3, <1>4, <1>5, Zenon DEF Low

LEMMA Prefixed ==
  ASSUME NEW n \in Nat, NEW v \in Seq(Byte)
  PROVE  ULEB128(n) \o v \in Seq(Nat)
  BY NumberBytes, BytesAreNumbers, ConcatProperties, Zenon

\* The values of the forms.
LEMMA FixedValue ==
  ASSUME NEW form \in Fixed, NEW v \in ValuesOf(form)
  PROVE  v \in [1..8 -> Byte] /\ Bytes(form, v, AddrSize) = Low(v, FixedSize(AddrSize)[form])
  BY FormsListed DEF ValuesOf, Bytes, Numbers

LEMMA NumberValue ==
  ASSUME NEW form \in Numbers \cup {"indirect"}, NEW v \in ValuesOf(form)
  PROVE  /\ v \in Nat
         /\ form \in Numbers => Bytes(form, v, AddrSize) = ULEB128(v)
         /\ form = "indirect" => Bytes(form, v, AddrSize) = <<FormCode.udata>> \o ULEB128(v)
  BY FormsListed DEF ValuesOf, Bytes, Numbers

LEMMA StringValue ==
  ASSUME NEW v \in ValuesOf("string")
  PROVE  v \in Seq(1..255) /\ Bytes("string", v, AddrSize) = Cat(v, <<0>>)
  BY FormsListed DEF ValuesOf, Bytes, Numbers, Cat

LEMMA BlockValue ==
  ASSUME NEW form \in {"block", "exprloc"}, NEW v \in ValuesOf(form)
  PROVE  v \in Seq(Byte) /\ Bytes(form, v, AddrSize) = Cat(ULEB128(Len(v)), v)
  BY FormsListed DEF ValuesOf, Bytes, Numbers, Cat

LEMMA BytesType ==
  ASSUME NEW form \in Forms \ {"block1", "block2", "block4"}, NEW v \in ValuesOf(form)
  PROVE  Bytes(form, v, AddrSize) \in Seq(Nat)
<1>1. CASE form \in Fixed
  <2>1. v \in [1..8 -> Byte] /\ Bytes(form, v, AddrSize) = Low(v, FixedSize(AddrSize)[form])
    BY <1>1, FixedValue
  <2>2. FixedSize(AddrSize)[form] \in 0..8
    BY <1>1, SizesSmall
  <2> QED
    BY <2>1, <2>2, LowBytes
<1>2. CASE form \in Numbers
  BY <1>2, NumberValue, NumberBytes, Zenon
<1>3. CASE form = "indirect"
  <2>1. v \in Nat /\ Bytes(form, v, AddrSize) = <<FormCode.udata>> \o ULEB128(v)
    BY <1>3, NumberValue, Zenon
  <2>2. <<FormCode.udata>> \in Seq(Nat)
    BY FormCodes
  <2> QED
    BY <2>1, <2>2, NumberBytes, ConcatProperties, Zenon
<1>4. CASE form = "string"
  <2>1. v \in Seq(1..255) /\ Bytes(form, v, AddrSize) = Cat(v, <<0>>)
    BY <1>4, StringValue, Zenon
  <2>2. v \in Seq(Nat) /\ <<0>> \in Seq(Nat)
    BY <2>1, BytesAreNumbers
  <2> QED
    BY <2>1, <2>2, CatProperties, Zenon
<1>5. CASE form \in {"block", "exprloc"}
  <2>1. v \in Seq(Byte) /\ Bytes(form, v, AddrSize) = Cat(ULEB128(Len(v)), v)
    BY <1>5, BlockValue, Zenon
  <2>2. Len(v) \in Nat
    BY <2>1, LengthType, Zenon
  <2> QED
    BY <2>1, <2>2, Prefixed, Zenon DEF Cat
<1> QED
  BY <1>1, <1>2, <1>3, <1>4, <1>5, FormsListed DEF Numbers

\* The bytes of each value.
Vals(o) == [i \in 1..Attributes(o, o.code) |-> Bytes(FormAt(o, i), o.values[i], AddrSize)]

\* Value i is one of its form, and the reader can know its end.
Typical(o, i) ==
  /\ FormAt(o, i) \in Forms \ {"block1", "block2", "block4"} /\ o.values[i] \in ValuesOf(FormAt(o, i))
  /\ Delimited(FormAt(o, i), o.values[i])

LEMMA PlainValues ==
  ASSUME Plain
  PROVE  /\ object.code \in 1..Len(object.abbrevs) /\ Attributes(object, object.code) \in Nat
         /\ DOMAIN object.values = 1..Attributes(object, object.code)
         /\ \A i \in 1..Attributes(object, object.code) : Typical(object, i)
         /\ object.info = Cat(ULEB128(object.code), FlattenSeq(Vals(object)))
<1> DEFINE list == object.abbrevs[object.code].attributes
<1>1. PlainTable /\ Readable(object)
  BY PlainIsReadable DEF Plain
<1>2. /\ object.code \in DOMAIN object.abbrevs /\ DOMAIN object.values = DOMAIN list
      /\ \A i \in DOMAIN object.values : object.values[i] \in ValuesOf(FormAt(object, i))
      /\ object.info = ULEB128(object.code)
           \o FlattenSeq([i \in DOMAIN object.values |-> Bytes(FormAt(object, i), object.values[i], AddrSize)])
  BY <1>1, Zenon DEF PlainTable, AsWritten, BytesAgree
<1>3. object.code \in 1..Len(object.abbrevs)
  BY <1>1, <1>2 DEF Readable
<1>4. list \in Seq(Attribute)
  BY <1>1, <1>3, RowsType, PlainFields, Zenon
<1>5. Attributes(object, object.code) = Len(list)
  BY DEF Attributes
<1> HIDE DEF list
<1>6. Len(list) \in Nat /\ DOMAIN object.values = 1..Len(list)
  BY <1>2, <1>4
<1>7. ASSUME NEW i \in 1..Len(list) PROVE Typical(object, i)
  <2>1. list[i] \in Attribute /\ FormAt(object, i) = list[i].form
    BY <1>4 DEF FormAt, list
  <2>2. FormAt(object, i) \in Forms
    BY <2>1, AttributeFields, Zenon
  <2>3. object.values[i] \in ValuesOf(FormAt(object, i))
    BY <1>2, <1>6, Zenon
  <2>4. Delimited(FormAt(object, i), object.values[i])
    BY <1>6, Zenon DEF Plain, Values, FormOf
  <2>5. FormAt(object, i) \notin {"block1", "block2", "block4"}
    BY <2>4, Zenon DEF Delimited
  <2> QED
    BY <2>2, <2>3, <2>4, <2>5 DEF Typical
<1>8. object.info = Cat(ULEB128(object.code), FlattenSeq(Vals(object)))
  BY <1>2, <1>5, <1>6, Zenon DEF Vals, Cat
<1> QED
  BY <1>3, <1>5, <1>6, <1>7, <1>8, Zenon

LEMMA ValsAre ==
  ASSUME NEW o, NEW n, n = Attributes(o, o.code), n \in Nat
  PROVE  /\ \A i \in 1..n : Vals(o)[i] = Bytes(FormAt(o, i), o.values[i], AddrSize)
         /\ FlattenSeq(Vals(o)) = UpTo(Vals(o), n)
         /\ \A m \in 0..n : EndOf(o, m) = 2 + Len(UpTo(Vals(o), m))
<1>1. \A i \in 1..n : Vals(o)[i] = Bytes(FormAt(o, i), o.values[i], AddrSize)
  BY Zenon DEF Vals
<1>2. ASSUME NEW m \in 0..n PROVE EndOf(o, m) = 2 + Len(UpTo(Vals(o), m))
  <2>1. \A i \in 1..m : i \in 1..n
    OBVIOUS
  <2>2. [i \in 1..m |-> Vals(o)[i]] = [i \in 1..m |-> Bytes(FormAt(o, i), o.values[i], AddrSize)]
    BY <1>1, <2>1, Zenon
  <2> QED
    BY <2>2, Zenon DEF EndOf, UpTo
<1>3. FlattenSeq(Vals(o)) = UpTo(Vals(o), n)
  BY Zenon DEF Vals, UpTo
<1> QED
  BY <1>1, <1>2, <1>3, Zenon

\* The bytes of value b are read next.
Ahead(b) == \A k \in 1..Len(b) : infoByte(k - 1) = b[k]

LEMMA ValsBytewise ==
  ASSUME Plain
  PROVE  Bytewise(Vals(object), Attributes(object, object.code))
<1>1. PICK n : n = Attributes(object, object.code)
  OBVIOUS
<1>2. n \in Nat /\ \A i \in 1..n : Typical(object, i)
  BY <1>1, PlainValues
<1>3. \A i \in 1..n : Vals(object)[i] = Bytes(FormAt(object, i), object.values[i], AddrSize)
  BY <1>1, <1>2, ValsAre, Zenon
<1>4. ASSUME NEW i \in 1..n PROVE Vals(object)[i] \in Seq(Nat)
  BY <1>2, <1>3, BytesType, Zenon DEF Typical
<1> QED
  BY <1>1, <1>2, <1>4 DEF Bytewise

LEMMA InfoParts ==
  ASSUME Plain, NEW n, n = Attributes(object, object.code)
  PROVE  /\ n \in Nat /\ object.info \in Seq(Nat)
         /\ Occurs(ULEB128(object.code), object.info, 0) /\ OneByte(object.code)
         /\ Occurs(UpTo(Vals(object), n), object.info, 1) /\ UpTo(Vals(object), n) \in Seq(Nat)
<1>1. /\ object.code \in 1..Len(object.abbrevs) /\ n \in Nat
      /\ object.info = Cat(ULEB128(object.code), FlattenSeq(Vals(object)))
  BY PlainValues
<1>2. Len(object.abbrevs) < 128 /\ Len(object.abbrevs) \in Nat
  <2>1. Readable(object)
    BY PlainIsReadable DEF Plain
  <2> QED
    BY <2>1, LengthType DEF Readable
<1>3. object.code \in 0..127
  <2>1. PICK c, l : c = object.code /\ l = Len(object.abbrevs)
    OBVIOUS
  <2>2. c \in 1..l /\ l < 128 /\ l \in Nat
    BY <1>1, <1>2, <2>1, Zenon
  <2>3. c \in 0..127
    BY <2>2
  <2> QED
    BY <2>1, <2>3
<1>4. OneByte(object.code)
  BY <1>3, Singles, Zenon
<1>5. Bytewise(Vals(object), n) /\ FlattenSeq(Vals(object)) = UpTo(Vals(object), n)
  BY <1>1, ValsBytewise, ValsAre, Zenon
<1>6. UpTo(Vals(object), n) \in Seq(Nat)
  <2>1. n \in 0..n
    BY <1>1
  <2> QED
    BY <1>5, <2>1, Lengths, Zenon
<1>7. PICK s, t : s = ULEB128(object.code) /\ t = UpTo(Vals(object), n)
  OBVIOUS
<1>8. s \in Seq(Nat) /\ t \in Seq(Nat) /\ Len(s) = 1 /\ object.info = Cat(s, t)
  BY <1>1, <1>4, <1>5, <1>6, <1>7, Zenon DEF OneByte
<1>9. object.info \in Seq(Nat) /\ Occurs(s, object.info, 0) /\ Occurs(t, object.info, 1)
  <2>1. Cat(s, t) \in Seq(Nat) /\ Occurs(s, Cat(s, t), 0) /\ Occurs(t, Cat(s, t), Len(s))
    BY <1>8, CatOccurs, Zenon
  <2> QED
    BY <1>8, <2>1, Zenon
<1> QED
  BY <1>1, <1>4, <1>6, <1>7, <1>9, Zenon

LEMMA CodeAhead ==
  ASSUME Plain, debugInfo = 1
  PROVE  infoByte(0) = object.code
<1>1. PICK s : s = ULEB128(object.code)
  OBVIOUS
<1>2. object.info \in Seq(Nat) /\ Occurs(s, object.info, 0) /\ OneByte(object.code)
  BY <1>1, InfoParts
<1>3. s \in Seq(Nat) /\ Len(s) = 1 /\ s[1] = object.code
  BY <1>1, <1>2, Zenon DEF OneByte
<1>4. 0 \in Nat
  OBVIOUS
<1>5. \A k \in 1..Len(s) : At(object.info, 0 + k) = s[k]
  BY <1>2, <1>3, <1>4, ReadsAll, Zenon
<1>6. PICK info : info = object.info
  OBVIOUS
<1>7. At(info, 1) = s[1]
  <2>1. At(info, 0 + 1) = s[1]
    BY <1>3, <1>5, <1>6
  <2> QED
    BY <2>1
<1>8. debugInfo + 0 = 1
  OBVIOUS
<1> QED
  BY <1>3, <1>6, <1>7, <1>8, Zenon DEF infoByte

LEMMA BytesAhead ==
  ASSUME Plain, NEW i \in 1..Attributes(object, object.code), debugInfo = EndOf(object, i - 1),
         NEW b, b = Bytes(FormOf(i), Values[i], AddrSize)
  PROVE  /\ b \in Seq(Nat) /\ Len(b) \in Nat /\ debugInfo \in Nat
         /\ EndOf(object, i) = debugInfo + Len(b)
         /\ Ahead(b) /\ Len(b) <= Len(object.info) /\ Len(object.info) \in Nat
<1>1. PICK n : n = Attributes(object, object.code)
  OBVIOUS
<1>2. PICK vals : vals = Vals(object)
  OBVIOUS
<1>3. /\ n \in Nat /\ object.info \in Seq(Nat) /\ Occurs(UpTo(vals, n), object.info, 1) /\ UpTo(vals, n) \in Seq(Nat)
      /\ Bytewise(vals, n)
  BY <1>1, <1>2, InfoParts, ValsBytewise, Zenon
<1>4. b = vals[i] /\ \A m \in 0..n : EndOf(object, m) = 2 + Len(UpTo(vals, m))
  BY <1>1, <1>2, <1>3, ValsAre, Zenon DEF FormOf, Values
<1>5. i \in 1..n /\ i \in 0..n /\ i - 1 \in 0..n
  BY <1>1, <1>3
<1>6. PICK p : p = Len(UpTo(vals, i - 1))
  OBVIOUS
<1>7. p \in Nat /\ Len(UpTo(vals, i)) = p + Len(b) /\ Occurs(b, UpTo(vals, n), p)
  BY <1>3, <1>4, <1>5, <1>6, Lengths, Positions, Zenon
<1>8. b \in Seq(Nat) /\ Len(b) \in Nat /\ Len(object.info) \in Nat
  BY <1>3, <1>4, <1>5, LengthType, Zenon DEF Bytewise
<1>9. debugInfo = 2 + p /\ EndOf(object, i) = 2 + (p + Len(b))
  BY <1>4, <1>5, <1>6, <1>7, Zenon
<1>10. Occurs(b, object.info, 1 + p) /\ 1 + p \in Nat
  <2>1. 1 \in Nat
    OBVIOUS
  <2> QED
    BY <1>3, <1>7, <1>8, <2>1, Within, Zenon
<1>11. \A k \in 1..Len(b) : At(object.info, (1 + p) + k) = b[k]
  BY <1>3, <1>8, <1>10, ReadsAll, Zenon
<1>12. Ahead(b)
  <2>1. ASSUME NEW k \in 1..Len(b) PROVE infoByte(k - 1) = b[k]
    <3>1. debugInfo + (k - 1) = (1 + p) + k
      <4>1. debugInfo = 2 + p /\ p \in Nat
        BY <1>7, <1>9, Zenon
      <4>2. k \in Int
        BY <1>8
      <4> QED
        BY <4>1, <4>2
    <3> QED
      BY <1>11, <3>1, Zenon DEF infoByte
  <2> QED
    BY <2>1 DEF Ahead
<1>13. Len(b) <= Len(object.info)
  <2>1. CASE Len(b) = 0
    BY <1>8, <2>1
  <2>2. CASE Len(b) # 0
    <3>1. (1 + p) + Len(b) \in 1..Len(object.info)
      BY <1>8, <1>10, <2>2 DEF Occurs
    <3> QED
      BY <1>7, <1>8, <3>1
  <2> QED
    BY <2>1, <2>2
<1>14. debugInfo \in Nat /\ EndOf(object, i) = debugInfo + Len(b)
  BY <1>7, <1>8, <1>9
<1> QED
  BY <1>8, <1>12, <1>13, <1>14

------------------------------------------------------------------------------
(* The invariant of the DIE *)

\* What attribute i may be read as.
Right(i, datum) ==
  \/ datum = DatumOf(FormOf(i), Values[i], object.strings[i].text)
  \/ ~Findable(i) /\ datum = Str(<< >>)

\* The data read so far are right, and the reader stands after their values.
SoFar ==
  /\ die = [code |-> object.code, info |-> die.info] /\ IsSeq(die.info)
  /\ Len(die.info) \in 0..Attributes(object, object.code)
  /\ debugInfo = EndOf(object, Len(die.info))
  /\ \A i \in 1..Len(die.info) : Right(i, die.info[i])

DIEInv ==
  /\ pc \in {"readAbbrevTable", "readAbbrev", "readOneDIE"} => debugInfo = 1
  /\ pc \in {"readFromPointer", "done"} => SoFar

\* Attribute i is read next.
NextAttribute(i) ==
  /\ i = Len(die.info) + 1 /\ i \in 1..Attributes(object, object.code) /\ debugInfo = EndOf(object, i - 1)
  /\ Typical(object, i) /\ attributes[i].type = get_DW_FORM(FormCode[FormOf(i)])

LEMMA TypesKnown ==
  ASSUME Plain, TableInv, DIEInv, pc = "readFromPointer", NEW n, n = Attributes(object, object.code)
  PROVE  /\ n \in Nat /\ Len(attributes) = n
         /\ \A m \in 1..n : attributes[m].type = get_DW_FORM(FormCode[FormOf(m)])
<1>1. n \in Nat /\ object.code \in 1..Len(object.abbrevs)
  BY PlainValues
<1>2. AllRows /\ die.code = object.code
  <2>1. AllRows
    BY DEF TableInv
  <2>2. SoFar
    BY DEF DIEInv
  <2>3. die.code = object.code
    <3>1. PICK f : die = [code |-> object.code, info |-> f]
      BY <2>2 DEF SoFar
    <3> QED
      BY <3>1
  <2> QED
    BY <2>1, <2>3
<1>3. abbrevTable[die.code + 1] = RowRead(object, object.code, n)
  BY <1>1, <1>2, Zenon DEF AllRows, RowsRead
<1>4. attributes = [m \in 1..n |-> [at |-> object.abbrevs[object.code].attributes[m].at,
                                    type |-> get_DW_FORM(FormCode[FormOf(m)])]]
  <2>1. PICK row : row = RowRead(object, object.code, n)
    OBVIOUS
  <2>2. attributes = row.attributes
    BY <1>3, <2>1, Zenon DEF attributes
  <2>3. row.attributes = [m \in 1..n |-> [at |-> object.abbrevs[object.code].attributes[m].at,
                                         type |-> get_DW_FORM(FormCode[FormOf(m)])]]
    BY <2>1, Zenon DEF RowRead, FormOf, FormAt
  <2> QED
    BY <2>2, <2>3, Zenon
<1> QED
  BY <1>1, <1>4

LEMMA AttributeAhead ==
  ASSUME Plain, TableInv, DIEInv, NEW types, Reading(types)
  PROVE  \E i : NextAttribute(i) /\ get_DW_FORM(FormCode[FormOf(i)]) \in types
<1>1. PICK n : n = Attributes(object, object.code)
  OBVIOUS
<1>2. /\ pc = "readFromPointer" /\ Len(die.info) < Len(attributes)
      /\ attributes[Len(die.info) + 1].type \in types
  BY DEF Reading
<1>3. /\ n \in Nat /\ Len(attributes) = n
      /\ \A m \in 1..n : attributes[m].type = get_DW_FORM(FormCode[FormOf(m)])
  BY <1>1, <1>2, TypesKnown, Zenon
<1>4. Len(die.info) \in 0..n /\ debugInfo = EndOf(object, Len(die.info))
  BY <1>1, <1>2 DEF DIEInv, SoFar
<1>5. PICK i : i = Len(die.info) + 1 /\ i \in 1..n /\ i - 1 = Len(die.info)
  BY <1>2, <1>3, <1>4
<1>6. Typical(object, i)
  BY <1>1, <1>5, PlainValues
<1>7. attributes[i].type = get_DW_FORM(FormCode[FormOf(i)])
  BY <1>3, <1>5, Zenon
<1> QED
  BY <1>1, <1>2, <1>4, <1>5, <1>6, <1>7, Zenon DEF NextAttribute

LEMMA PlainKept ==
  ASSUME object' = object
  PROVE  Plain' <=> Plain
  BY PlainTableKept, Zenon DEF Plain, Values, FormOf

LEMMA DataRead ==
  ASSUME Plain, DIEInv, pc = "readFromPointer", NEW i, NextAttribute(i),
         NEW datum, NEW size, Data(datum, size), Right(i, datum),
         size = Len(Bytes(FormOf(i), Values[i], AddrSize))
  PROVE  DIEInv'
<1>1. SoFar
  BY DEF DIEInv
<1>2. /\ die' = [die EXCEPT !.info = Append(die.info, datum)] /\ debugInfo' = debugInfo + size
      /\ object' = object /\ pc' = pc
  BY DEF Data
<1>3. die' = [code |-> object.code, info |-> Append(die.info, datum)]
  <2>1. PICK c, f : c = object.code /\ f = die.info
    OBVIOUS
  <2>2. die = [code |-> c, info |-> f]
    BY <1>1, <2>1 DEF SoFar
  <2>3. PICK g : g = Append(f, datum)
    OBVIOUS
  <2>4. [[code |-> c, info |-> f] EXCEPT !.info = g] = [code |-> c, info |-> g]
    OBVIOUS
  <2> QED
    BY <1>2, <2>1, <2>2, <2>3, <2>4, Zenon
<1>4. PICK f, g : f = die.info /\ g = Append(f, datum)
  OBVIOUS
<1>5. die'.info = g
  BY <1>3, <1>4
<1>6. IsSeq(f) /\ Len(f) \in Nat /\ IsSeq(g) /\ Len(g) = Len(f) + 1
  BY <1>1, <1>4, Appended, Zenon DEF SoFar
<1>7. (\A j \in 1..Len(f) : g[j] = f[j]) /\ g[Len(f) + 1] = datum
  BY <1>4, <1>6, Appended
<1>8. i = Len(f) + 1 /\ i \in 1..Attributes(object, object.code) /\ debugInfo = EndOf(object, i - 1)
  BY <1>4 DEF NextAttribute
<1>9. debugInfo' = EndOf(object, i)
  BY <1>2, <1>8, BytesAhead, Zenon
<1>10. ASSUME NEW j \in 1..Len(g) PROVE Right(j, g[j])
  <2>1. CASE j = i
    BY <1>7, <1>8, <2>1, Zenon
  <2>2. CASE j # i
    <3>1. j \in 1..Len(f)
      BY <1>6, <1>8, <2>2
    <3> QED
      BY <1>1, <1>4, <1>7, <3>1, Zenon DEF SoFar
  <2> QED
    BY <2>1, <2>2
<1>11. (\A j \in 1..Len(die.info) : Right(j, die.info[j]))'
  BY <1>2, <1>5, <1>10 DEF Right, FormOf, Values, Findable
<1>12. (IsSeq(die.info) /\ Len(die.info) \in 0..Attributes(object, object.code)
        /\ debugInfo = EndOf(object, Len(die.info)))'
  <2>1. Len(g) = i /\ i \in 0..Attributes(object, object.code)
    BY <1>6, <1>8
  <2> QED
    BY <1>2, <1>5, <1>6, <1>9, <2>1, Zenon
<1>13. (die = [code |-> object.code, info |-> die.info])'
  BY <1>2, <1>3, <1>4, <1>5
<1> QED
  BY <1>2, <1>11, <1>12, <1>13 DEF DIEInv, SoFar

------------------------------------------------------------------------------
(* The data of each form *)

LEMMA DatumsOf ==
  ASSUME NEW form \in Forms, NEW v, NEW string
  PROVE  /\ form = "exprloc" => DatumOf(form, v, string) = Number(Word(0))
         /\ form = "flag_present" => DatumOf(form, v, string) = Number(Word(1))
         /\ form = "string" => DatumOf(form, v, string) = Str(v)
         /\ form = "strp" => DatumOf(form, v, string) = Str(string)
         /\ form \in {"udata", "ref_udata"} => DatumOf(form, v, string) = Number(Word(v))
  BY DEF DatumOf, Numbers

LEMMA FixedDatum ==
  ASSUME NEW form \in Fixed \ {"strp", "flag_present"}, NEW v, NEW string
  PROVE  DatumOf(form, v, string) = Number([k \in 1..8 |-> IF k <= FixedSize(AddrSize)[form] THEN v[k] ELSE 0])
  BY FormsListed, Zenon DEF DatumOf, Numbers

\* What the bytes of a value are, for the forms the reader tells apart.
LEMMA StringStep ==
  ASSUME Plain, TableInv, DIEInv, ReadString
  PROVE  DIEInv'
<1>1. PICK i : NextAttribute(i) /\ get_DW_FORM(FormCode[FormOf(i)]) \in {"String"}
  BY AttributeAhead DEF ReadString
<1>2. FormOf(i) \in Forms /\ Values[i] \in ValuesOf(FormOf(i))
  BY <1>1, Zenon DEF NextAttribute, Typical, FormOf, Values
<1>3. FormOf(i) = "string"
  BY <1>1, <1>2, FormClasses DEF NumberTypes
<1>4. PICK v, b : v = Values[i] /\ b = Bytes(FormOf(i), v, AddrSize)
  OBVIOUS
<1>5. v \in Seq(1..255) /\ b = Cat(v, <<0>>)
  BY <1>2, <1>3, <1>4, StringValue, Zenon
<1>6. Ahead(b) /\ Len(b) <= Len(object.info) /\ Len(object.info) \in Nat
  BY <1>1, <1>4, BytesAhead, Zenon DEF NextAttribute
<1>7. v \in Seq(Nat) /\ <<0>> \in Seq(Nat) /\ Len(<<0>>) = 1 /\ <<0>>[1] = 0
  BY <1>5, BytesAreNumbers
<1>8. PICK n : n = Len(v) /\ n \in Nat
  BY <1>7
<1>9. Len(b) = n + 1 /\ (\A k \in 1..n : b[k] = v[k]) /\ b[n + 1] = 0
  <2>1. PICK t : t = <<0>>
    OBVIOUS
  <2>2. v \in Seq(Nat) /\ t \in Seq(Nat) /\ Len(t) = 1 /\ t[1] = 0 /\ b = Cat(v, t) /\ Len(v) = n
    BY <1>5, <1>7, <1>8, <2>1, Zenon
  <2> QED
    BY <2>2, CatOne
<1>10. \A k \in 1..n : infoByte(k - 1) = v[k]
  <2>1. ASSUME NEW k \in 1..n PROVE infoByte(k - 1) = v[k]
    <3>1. k \in 1..Len(b)
      BY <1>8, <1>9
    <3> QED
      BY <1>6, <1>9, <3>1, Zenon DEF Ahead
  <2> QED
    BY <2>1
<1>11. infoByte(n) = 0
  <2>1. n + 1 \in 1..Len(b) /\ (n + 1) - 1 = n
    BY <1>8, <1>9
  <2>2. infoByte((n + 1) - 1) = 0
    BY <1>6, <1>9, <2>1, Zenon DEF Ahead
  <2> QED
    BY <2>1, <2>2, Zenon
<1>12. \A k \in 1..n : v[k] # 0
  <2>1. ASSUME NEW k \in 1..n PROVE v[k] # 0
    <3>1. v[k] \in 1..255
      BY <1>5, <1>8, ElementOfSeq
    <3> QED
      BY <3>1
  <2> QED
    BY <2>1
<1>13. \A l \in 0..(n - 1) : infoByte(l) # 0
  <2>1. ASSUME NEW l \in 0..(n - 1) PROVE infoByte(l) # 0
    <3>1. l + 1 \in 1..n /\ (l + 1) - 1 = l
      BY <1>8
    <3>2. infoByte((l + 1) - 1) # 0
      BY <1>10, <1>12, <3>1, Zenon
    <3> QED
      BY <3>1, <3>2, Zenon
  <2> QED
    BY <2>1
<1> DEFINE IsSize(k) == infoByte(k) = 0 /\ \A l \in 0..(k - 1) : infoByte(l) # 0
           size == CHOOSE k \in 0..Len(object.info) : IsSize(k)
<1>14. n \in 0..Len(object.info) /\ IsSize(n)
  BY <1>6, <1>8, <1>9, <1>11, <1>13
<1>15. size \in 0..Len(object.info) /\ IsSize(size)
  BY <1>14
<1>16. Data(Str([k \in 1..size |-> infoByte(k - 1)]), size + 1)
  BY Zenon DEF ReadString
<1> HIDE DEF size
<1>17. size = n
  <2>1. ~(size < n)
    BY <1>8, <1>13, <1>15
  <2>2. ~(n < size)
    BY <1>8, <1>11, <1>15
  <2> QED
    BY <1>8, <1>15, <2>1, <2>2
<1>18. [k \in 1..size |-> infoByte(k - 1)] = v
  <2>1. v = [k \in 1..n |-> v[k]]
    BY <1>7, <1>8
  <2> QED
    BY <1>10, <1>17, <2>1, Zenon
<1>19. Right(i, Str(v))
  <2>1. PICK string : string = object.strings[i].text
    OBVIOUS
  <2>2. PICK form : form = FormOf(i)
    OBVIOUS
  <2>3. DatumOf(form, v, string) = Str(v)
    BY <1>2, <1>3, <2>2, DatumsOf, Zenon
  <2> QED
    BY <1>4, <2>1, <2>2, <2>3, Zenon DEF Right
<1>20. size + 1 = Len(Bytes(FormOf(i), Values[i], AddrSize))
  BY <1>4, <1>9, <1>17, Zenon
<1>21. pc = "readFromPointer"
  BY DEF ReadString, Reading
<1> QED
  BY <1>1, <1>16, <1>18, <1>19, <1>20, <1>21, DataRead, Zenon

\* A number of one byte is what readULEB128 returns.
LEMMA OneByteAhead ==
  ASSUME NEW n \in 0..127, infoByte(0) = n
  PROVE  ULEB = n
  BY DEF ULEB

LEMMA FirstAhead ==
  ASSUME NEW b, Ahead(b), NEW n \in Nat, Len(b) = n, n > 0
  PROVE  infoByte(0) = b[1]
<1>1. 1 \in 1..Len(b) /\ 1 - 1 = 0
  OBVIOUS
<1> QED
  BY <1>1, Zenon DEF Ahead

LEMMA ExprlocStep ==
  ASSUME Plain, TableInv, DIEInv, SkipExprloc
  PROVE  DIEInv'
<1>1. PICK i : NextAttribute(i) /\ get_DW_FORM(FormCode[FormOf(i)]) \in {"Exprloc"}
  BY AttributeAhead DEF SkipExprloc
<1>2. /\ FormOf(i) \in Forms /\ Values[i] \in ValuesOf(FormOf(i)) /\ Delimited(FormOf(i), Values[i])
  BY <1>1, Zenon DEF NextAttribute, Typical, FormOf, Values
<1>3. FormOf(i) = "exprloc"
  BY <1>1, <1>2, FormClasses DEF NumberTypes
<1>4. PICK v, b : v = Values[i] /\ b = Bytes(FormOf(i), v, AddrSize)
  OBVIOUS
<1>5. v \in Seq(Byte) /\ b = Cat(ULEB128(Len(v)), v) /\ Len(v) < 128
  <2>1. v \in Seq(Byte) /\ b = Cat(ULEB128(Len(v)), v)
    BY <1>2, <1>3, <1>4, BlockValue
  <2> QED
    BY <1>2, <1>3, <1>4, <2>1, Zenon DEF Delimited
<1>6. Ahead(b)
  BY <1>1, <1>4, BytesAhead, Zenon DEF NextAttribute
<1>7. PICK n : n = Len(v)
  OBVIOUS
<1>8. v \in Seq(Nat) /\ n \in 0..127
  <2>1. n \in Nat /\ n < 128
    BY <1>5, <1>7, LengthType, Zenon
  <2> QED
    BY <1>5, <2>1, BytesAreNumbers
<1>9. PICK s : s = ULEB128(n)
  OBVIOUS
<1>10. s \in Seq(Nat) /\ Len(s) = 1 /\ s[1] = n
  BY <1>8, <1>9, Singles, Zenon DEF OneByte
<1>11. b = Cat(s, v)
  BY <1>5, <1>7, <1>9, Zenon
<1>12. Len(b) = 1 + n /\ b[1] = n
  <2>1. Len(b) = Len(s) + Len(v) /\ \A k \in 1..(Len(s) + Len(v)) : b[k] = IF k <= Len(s) THEN s[k] ELSE v[k - Len(s)]
    BY <1>8, <1>10, <1>11, CatProperties, Zenon
  <2>2. 1 \in 1..(Len(s) + Len(v)) /\ 1 <= Len(s)
    BY <1>7, <1>8, <1>10
  <2> QED
    BY <1>7, <1>10, <2>1, <2>2, Zenon
<1>13. infoByte(0) = n
  <2>1. 1 + n \in Nat /\ 1 + n > 0
    BY <1>8
  <2> QED
    BY <1>6, <1>12, <2>1, FirstAhead, Zenon
<1>14. ULEB = n
  BY <1>8, <1>13, OneByteAhead
<1>15. Data(Number(Word(0)), 1 + n) /\ pc = "readFromPointer"
  BY <1>14, Zenon DEF SkipExprloc, Reading
<1>16. Right(i, Number(Word(0)))
  BY <1>2, <1>3, DatumsOf DEF Right
<1> QED
  BY <1>1, <1>4, <1>12, <1>15, <1>16, DataRead, Zenon

LEMMA NumberStep ==
  ASSUME Plain, TableInv, DIEInv, ReadULEB128
  PROVE  DIEInv'
<1>1. PICK i : NextAttribute(i) /\ get_DW_FORM(FormCode[FormOf(i)]) \in {"ULEB128"}
  BY AttributeAhead DEF ReadULEB128
<1>2. FormOf(i) \in Forms /\ Values[i] \in ValuesOf(FormOf(i)) /\ Delimited(FormOf(i), Values[i])
  BY <1>1, Zenon DEF NextAttribute, Typical, FormOf, Values
<1>3. FormOf(i) \in {"udata", "ref_udata"}
  BY <1>1, <1>2, FormClasses DEF NumberTypes
<1>4. PICK v, b : v = Values[i] /\ b = Bytes(FormOf(i), v, AddrSize)
  OBVIOUS
<1>5. FormOf(i) \in Numbers
  BY <1>3 DEF Numbers
<1>6. v \in Nat /\ b = ULEB128(v) /\ v < 128
  BY <1>2, <1>4, <1>5, NumberValue, Zenon DEF Delimited
<1>7. v \in 0..127
  BY <1>6
<1>8. Len(b) = 1 /\ b[1] = v
  BY <1>6, <1>7, Singles, Zenon DEF OneByte
<1>9. Ahead(b)
  BY <1>1, <1>4, BytesAhead, Zenon DEF NextAttribute
<1>10. ULEB = v
  <2>1. 1 \in Nat /\ 1 > 0
    OBVIOUS
  <2>2. infoByte(0) = v
    BY <1>8, <1>9, <2>1, FirstAhead, Zenon
  <2> QED
    BY <1>7, <2>2, OneByteAhead
<1>11. Data(Number(Word(v)), 1) /\ pc = "readFromPointer"
  BY <1>10, Zenon DEF ReadULEB128, Reading
<1>12. Right(i, Number(Word(v)))
  BY <1>2, <1>3, <1>4, DatumsOf, Zenon DEF Right
<1> QED
  BY <1>1, <1>4, <1>8, <1>11, <1>12, DataRead, Zenon

LEMMA FlagStep ==
  ASSUME Plain, TableInv, DIEInv, ReadFlag
  PROVE  DIEInv'
<1>1. PICK i : NextAttribute(i) /\ get_DW_FORM(FormCode[FormOf(i)]) \in {"Zero"}
  BY AttributeAhead DEF ReadFlag
<1>2. FormOf(i) \in Forms /\ Values[i] \in ValuesOf(FormOf(i))
  BY <1>1, Zenon DEF NextAttribute, Typical, FormOf, Values
<1>3. FormOf(i) = "flag_present"
  BY <1>1, <1>2, FormClasses DEF NumberTypes
<1>4. Len(Bytes(FormOf(i), Values[i], AddrSize)) = 0
  <2>1. FormOf(i) \in Fixed /\ FixedSize(AddrSize)[FormOf(i)] = 0
    BY <1>3, FormsListed, FixedSizes
  <2>2. Values[i] \in [1..8 -> Byte] /\ Bytes(FormOf(i), Values[i], AddrSize) = Low(Values[i], 0)
    BY <1>2, <2>1, FixedValue, Zenon
  <2>3. 0 \in 0..8
    OBVIOUS
  <2> QED
    BY <2>2, <2>3, LowBytes, Zenon
<1>5. Data(Number(Word(1)), 0) /\ pc = "readFromPointer"
  BY DEF ReadFlag, Reading
<1>6. Right(i, Number(Word(1)))
  BY <1>2, <1>3, DatumsOf DEF Right
<1> QED
  BY <1>1, <1>4, <1>5, <1>6, DataRead, Zenon

\* The bytes of a field.
LEMMA FieldAhead ==
  ASSUME NEW v \in [1..8 -> Byte], NEW size \in 0..8, Ahead(Low(v, size))
  PROVE  Field(size) = [k \in 1..8 |-> IF k <= size THEN v[k] ELSE 0]
<1>1. Len(Low(v, size)) = size /\ \A k \in 1..size : Low(v, size)[k] = v[k]
  BY LowBytes, Zenon
<1>2. \A k \in 1..size : infoByte(k - 1) = v[k]
  BY <1>1, Zenon DEF Ahead
<1>3. \A k \in 1..8 : k <= size => k \in 1..size
  OBVIOUS
<1> QED
  BY <1>2, <1>3, Zenon DEF Field

LEMMA FixedStep ==
  ASSUME Plain, TableInv, DIEInv, ReadNumber
  PROVE  DIEInv'
<1>1. PICK i : NextAttribute(i) /\ get_DW_FORM(FormCode[FormOf(i)]) \in NumberTypes
  BY AttributeAhead DEF ReadNumber, NumberTypes
<1>2. FormOf(i) \in Forms /\ Values[i] \in ValuesOf(FormOf(i)) /\ FormOf(i) \notin {"block1", "block2", "block4"}
  BY <1>1, Zenon DEF NextAttribute, Typical, FormOf, Values
<1>3. PICK form, type : form = FormOf(i) /\ type = get_DW_FORM(FormCode[form])
  OBVIOUS
<1>4. form \in Fixed \ {"strp", "flag_present"} /\ DTypeSize[type] = FixedSize(AddrSize)[form]
  BY <1>1, <1>2, <1>3, FormClasses DEF NumberTypes
<1>5. PICK size : size = FixedSize(AddrSize)[form] /\ size \in 0..8
  BY <1>4, SizesSmall
<1>6. PICK v : v = Values[i]
  OBVIOUS
<1>7. v \in [1..8 -> Byte] /\ Bytes(form, v, AddrSize) = Low(v, size)
  BY <1>2, <1>3, <1>4, <1>5, <1>6, FixedValue
<1>8. Ahead(Low(v, size))
  BY <1>1, <1>3, <1>6, <1>7, BytesAhead, Zenon DEF NextAttribute
<1>9. attributes[Len(die.info) + 1].type = type
  BY <1>1, <1>3, Zenon DEF NextAttribute
<1>10. Data(Number(Field(size)), size) /\ pc = "readFromPointer"
  BY <1>4, <1>5, <1>9, Zenon DEF ReadNumber, Reading
<1>11. Number(Field(size)) = DatumOf(form, v, object.strings[i].text)
  <2>1. PICK string : string = object.strings[i].text
    OBVIOUS
  <2>2. DatumOf(form, v, string) = Number([k \in 1..8 |-> IF k <= size THEN v[k] ELSE 0])
    BY <1>4, <1>5, FixedDatum, Zenon
  <2>3. Field(size) = [k \in 1..8 |-> IF k <= size THEN v[k] ELSE 0]
    BY <1>5, <1>7, <1>8, FieldAhead
  <2> QED
    BY <2>1, <2>2, <2>3, Zenon
<1>12. Right(i, Number(Field(size)))
  BY <1>3, <1>6, <1>11, Zenon DEF Right
<1>13. size = Len(Bytes(FormOf(i), Values[i], AddrSize))
  <2>1. Len(Low(v, size)) = size
    BY <1>5, <1>7, LowBytes
  <2> QED
    BY <1>3, <1>6, <1>7, <2>1, Zenon
<1> QED
  BY <1>1, <1>10, <1>12, <1>13, DataRead, Zenon

------------------------------------------------------------------------------
(* The strings elsewhere in the file *)

LEMMA MinOfOne ==
  ASSUME NEW n \in Nat
  PROVE  ELF!Min({n}) = n
  BY DEF ELF!Min

\* The section of a name, of which there is one at most.
LEMMA HeaderFound ==
  ASSUME NEW file, OrdinaryFile(file), NEW name, NEW i, i = ELF!SectionHeader(file, name)
  PROVE  \/ i = 0 /\ Named(file, name) = {}
         \/ i \in 1..Len(file.sections) /\ Named(file, name) = {i}
<1> DEFINE I == {s \in 1..Len(file.sections) : file.sections[s].name = name}
<1>1. ELF!HasShdrTable(file)
  BY DEF OrdinaryFile, ELF!HasShdrTable
<1>2. i = IF I # {} THEN ELF!Min(I) ELSE 0
  BY <1>1 DEF ELF!SectionHeader, ELF!SelectInSeq
<1>3. DOMAIN file.sections = 1..Len(file.sections)
  <2>1. PICK S : file.sections \in Seq(S)
    BY DEF OrdinaryFile
  <2> QED
    BY <2>1
<1>4. Named(file, name) = I
  BY <1>3, Zenon DEF Named
<1>5. \A s, t \in I : s = t
  BY <1>3, Zenon DEF OrdinaryFile
<1>6. CASE I = {}
  BY <1>2, <1>4, <1>6, Zenon
<1>7. CASE I # {}
  <2>1. PICK s \in I : TRUE
    BY <1>7
  <2>2. I = {s}
    BY <1>5, <2>1, Zenon
  <2>3. s \in 1..Len(file.sections) /\ s \in Nat
    BY <2>1
  <2>4. i = s
    BY <1>2, <1>7, <2>2, <2>3, MinOfOne, Zenon
  <2> QED
    BY <1>4, <2>2, <2>3, <2>4, Zenon
<1> QED
  BY <1>6, <1>7

\* Index i is that of the relocation of an offset, of which there is one at most.
OneReloc(section, offset, i) ==
  LET rels == {rel \in Range(section.relocs) : rel.r_offset = offset} IN
  \/ i = 0 /\ rels = {}
  \/ i \in 1..Len(section.relocs) /\ rels = {section.relocs[i]} /\ section.relocs[i] \in ELF!Relocation

LEMMA RelocFound ==
  ASSUME NEW section, section.relocs \in Seq(ELF!Relocation), NEW offset,
         \A j, k \in DOMAIN section.relocs : section.relocs[j].r_offset = section.relocs[k].r_offset => j = k,
         NEW i, i = ELF!RelocForOffset(section, offset)
  PROVE  OneReloc(section, offset, i)
<1> DEFINE relocs == section.relocs
           I == {j \in 1..Len(relocs) : relocs[j].r_offset = offset}
           rels == {rel \in Range(relocs) : rel.r_offset = offset}
<1>1. i = IF I # {} THEN ELF!Min(I) ELSE 0
  BY DEF ELF!RelocForOffset, ELF!SelectInSeq
<1>2. DOMAIN relocs = 1..Len(relocs) /\ \A j \in 1..Len(relocs) : relocs[j] \in ELF!Relocation
  <2>1. PICK S : S = ELF!Relocation
    OBVIOUS
  <2>2. relocs \in Seq(S)
    BY <2>1
  <2>3. DOMAIN relocs = 1..Len(relocs) /\ \A j \in 1..Len(relocs) : relocs[j] \in S
    BY <2>2
  <2> QED
    BY <2>1, <2>3
<1>3. \A j, k \in I : j = k
  BY <1>2, Zenon
<1>4. Range(relocs) = {relocs[j] : j \in 1..Len(relocs)}
  BY <1>2, Zenon DEF Range
<1> HIDE DEF relocs
<1>5. CASE I = {}
  <2>1. rels = {}
    BY <1>4, <1>5, Zenon
  <2> QED
    BY <1>1, <1>5, <2>1, Zenon DEF relocs, OneReloc
<1>6. CASE I # {}
  <2>1. PICK j \in I : TRUE
    BY <1>6
  <2>2. I = {j} /\ j \in 1..Len(relocs)
    BY <1>3, <2>1, Zenon
  <2>3. j \in Nat
    BY <2>2
  <2>4. i = j
    BY <1>1, <1>6, <2>2, <2>3, MinOfOne, Zenon
  <2>5. rels = {relocs[j]}
    BY <1>4, <2>2, Zenon
  <2> QED
    BY <1>2, <2>2, <2>4, <2>5, Zenon DEF relocs, OneReloc
<1> QED
  BY <1>5, <1>6

\* What an ordinary file is, section by section.
OrdinarySection(sec) ==
  /\ sec.offset \in Nat \ {0} /\ DOMAIN sec.strings \subseteq Nat
  /\ sec.relocs \in Seq(ELF!Relocation) /\ sec.syms \in Seq(ELF!Symbol)
  /\ \A i, j \in DOMAIN sec.relocs : sec.relocs[i].r_offset = sec.relocs[j].r_offset => i = j

LEMMA Sections ==
  ASSUME NEW file, OrdinaryFile(file), NEW s \in 1..Len(file.sections)
  PROVE  DOMAIN file.sections = 1..Len(file.sections) /\ OrdinarySection(file.sections[s])
<1>1. DOMAIN file.sections = 1..Len(file.sections)
  <2>1. PICK S : file.sections \in Seq(S)
    BY DEF OrdinaryFile
  <2> QED
    BY <2>1
<1>2. PICK sec : sec = file.sections[s]
  OBVIOUS
<1>3. sec \in Range(file.sections)
  BY <1>1, <1>2, Zenon DEF Range
<1>4. OrdinarySection(sec)
  BY <1>3, Zenon DEF OrdinaryFile, OrdinarySection
<1> QED
  BY <1>1, <1>2, <1>4, Zenon

\* The string that begins at a place of a section.
StringIs(file, pos, string) == ELF!StringAt(file, pos) = string

LEMMA StringFound ==
  ASSUME NEW file, OrdinaryFile(file), NEW s \in 1..Len(file.sections), NEW sec, sec = file.sections[s],
         NEW p \in DOMAIN sec.strings, NEW pos, pos = sec.offset + p
  PROVE  StringIs(file, pos, sec.strings[p])
<1> DEFINE I == {t \in 1..Len(file.sections) : pos - file.sections[t].offset \in DOMAIN file.sections[t].strings}
<1>1. /\ DOMAIN file.sections = 1..Len(file.sections)
      /\ \A t \in 1..Len(file.sections) : /\ file.sections[t].offset \in Nat \ {0}
                                          /\ DOMAIN file.sections[t].strings \subseteq Nat
  BY Sections, Zenon DEF OrdinarySection
<1>2. sec.offset \in Nat /\ p \in Nat
  BY <1>1, Zenon
<1>3. pos - sec.offset = p
  BY <1>2
<1>4. s \in I
  BY <1>3, Zenon
<1>5. ASSUME NEW t \in I PROVE t = s
  <2>1. PICK T : T = file.sections[t]
    OBVIOUS
  <2>2. PICK q : q = pos - T.offset
    OBVIOUS
  <2>3. t \in 1..Len(file.sections) /\ q \in DOMAIN T.strings
    BY <2>1, <2>2, Zenon
  <2>4. T.offset \in Nat /\ q \in Nat
    BY <1>1, <2>1, <2>3, Zenon
  <2>5. sec.offset + p = T.offset + q
    BY <1>2, <2>2, <2>4
  <2>6. \A x, y \in DOMAIN file.sections :
          \A m \in DOMAIN file.sections[x].strings, n \in DOMAIN file.sections[y].strings :
            file.sections[x].offset + m = file.sections[y].offset + n => x = y
    BY Zenon DEF OrdinaryFile
  <2> QED
    BY <1>1, <2>1, <2>3, <2>5, <2>6, Zenon
<1>6. I = {s}
  BY <1>4, <1>5, Zenon
<1> DEFINE i == IF I # {} THEN ELF!Min(I) ELSE 0
<1>7. ELF!StringAt(file, pos) =
        IF i = 0 THEN ELF!Garbage ELSE file.sections[i].strings[pos - file.sections[i].offset]
  BY DEF ELF!StringAt, ELF!SelectInSeq
<1> HIDE DEF I
<1>8. i = s /\ s # 0
  <2>1. s \in Nat /\ s # 0
    OBVIOUS
  <2> QED
    BY <1>6, <2>1, MinOfOne, Zenon
<1> HIDE DEF i
<1> QED
  BY <1>3, <1>7, <1>8, Zenon DEF StringIs

\* The one place a string is at.
Place(file, places, at) ==
  \E s \in 1..Len(file.sections) : \E p :
    places = {[section |-> s, at |-> p]} /\ at = file.sections[s].offset + p

LEMMA SymbolSame ==
  ASSUME NEW file, NEW rel, NEW t, Named(file, ".symtab") = {t},
         rel.type \in {ELF!R_X86_64_32, ELF!R_X86_64_64}
  PROVE  /\ rel.sym < Len(file.sections[t].syms) => SymbolsOf(file, rel) = {file.sections[t].syms[rel.sym + 1]}
         /\ ~(rel.sym < Len(file.sections[t].syms)) => SymbolsOf(file, rel) = {}
  BY Zenon DEF SymbolsOf

LEMMA Resolved ==
  ASSUME NEW file, OrdinaryFile(file), NEW rel \in ELF!Relocation,
         NEW at, at = ELF!ResolveLocalDefinedReloc(file, rel)
  PROVE  \/ at.is \in {"error", "abort"} /\ Targets(file, rel) = {}
         \/ at.is = "value" /\ Place(file, Targets(file, rel), at.value + rel.r_addend)
<1>1. rel.sym \in Nat /\ rel.r_addend \in Nat
  BY DEF ELF!Relocation
<1>2. PICK t : t = ELF!SectionHeader(file, ".symtab")
  OBVIOUS
<1>3. \/ t = 0 /\ Named(file, ".symtab") = {}
      \/ t \in 1..Len(file.sections) /\ Named(file, ".symtab") = {t}
  BY <1>2, HeaderFound, Zenon
<1>4. ELF!Err.is = "error" /\ ELF!Abort.is = "abort" /\ \A v : ELF!Value(v).is = "value" /\ ELF!Value(v).value = v
  BY DEF ELF!Err, ELF!Abort, ELF!Value
<1>5. CASE t = 0
  <2>1. at = ELF!Err
    BY <1>2, <1>5, Zenon DEF ELF!ResolveLocalDefinedReloc
  <2>2. SymbolsOf(file, rel) = {}
    <3>1. Named(file, ".symtab") = {}
      BY <1>3, <1>5
    <3> QED
      BY <3>1, Zenon DEF SymbolsOf
  <2>3. Targets(file, rel) = {}
    BY <2>2, Zenon DEF Targets
  <2> QED
    BY <1>4, <2>1, <2>3
<1>6. CASE t # 0 /\ rel.type \notin {ELF!R_X86_64_32, ELF!R_X86_64_64}
  <2>1. at = ELF!Abort
    BY <1>2, <1>6, Zenon DEF ELF!ResolveLocalDefinedReloc
  <2>2. Targets(file, rel) = {}
    BY <1>6, Zenon DEF SymbolsOf, Targets
  <2> QED
    BY <1>4, <2>1, <2>2
<1>7. CASE t # 0 /\ rel.type \in {ELF!R_X86_64_32, ELF!R_X86_64_64}
  <2>1. PICK syms : syms = file.sections[t].syms
    OBVIOUS
  <2>2. syms \in Seq(ELF!Symbol) /\ Named(file, ".symtab") = {t}
    BY <1>3, <1>7, <2>1, Sections, Zenon DEF OrdinarySection
  <2>3. Len(syms) \in Nat
    BY <2>2, LengthType, Zenon
  <2>4. CASE ~(rel.sym < Len(syms))
    <3>1. rel.sym >= Len(syms)
      BY <1>1, <2>3, <2>4
    <3>2. at = ELF!Err
      BY <1>2, <1>7, <2>1, <3>1, Zenon DEF ELF!ResolveLocalDefinedReloc
    <3>3. SymbolsOf(file, rel) = {}
      BY <1>7, <2>1, <2>2, <2>4, SymbolSame, Zenon
    <3>4. Targets(file, rel) = {}
      BY <3>3, Zenon DEF Targets
    <3> QED
      BY <1>4, <3>2, <3>4
  <2>5. CASE rel.sym < Len(syms)
    <3>1. ~(rel.sym >= Len(syms)) /\ rel.sym + 1 \in 1..Len(syms)
      BY <1>1, <2>3, <2>5
    <3>2. PICK sym : sym = syms[rel.sym + 1]
      OBVIOUS
    <3>3. sym \in ELF!Symbol
      <4>1. PICK S : S = ELF!Symbol
        OBVIOUS
      <4> QED
        BY <2>2, <3>1, <3>2, <4>1, ElementOfSeq
    <3>4. sym.st_shndx \in Nat /\ sym.st_value \in Nat
      BY <3>3 DEF ELF!Symbol
    <3>5. at = ELF!SymValue(file, sym)
      BY <1>2, <1>7, <2>1, <3>1, <3>2, Zenon DEF ELF!ResolveLocalDefinedReloc
    <3>6. SymbolsOf(file, rel) = {sym}
      BY <1>7, <2>1, <2>2, <2>5, <3>2, SymbolSame
    <3>7. Len(file.sections) \in Nat
      <4>1. PICK S : file.sections \in Seq(S)
        BY DEF OrdinaryFile
      <4> QED
        BY <4>1
    <3>8. CASE sym.st_shndx >= Len(file.sections)
      <4>1. at = ELF!Err
        BY <3>5, <3>8, Zenon DEF ELF!SymValue
      <4>2. ~(sym.st_shndx < Len(file.sections))
        BY <3>4, <3>7, <3>8
      <4>3. Targets(file, rel) = {}
        BY <3>6, <4>2, Zenon DEF Targets
      <4> QED
        BY <1>4, <4>1, <4>3
    <3>9. CASE ~(sym.st_shndx >= Len(file.sections))
      <4>1. PICK s : s = sym.st_shndx + 1 /\ s \in 1..Len(file.sections) /\ sym.st_shndx < Len(file.sections)
        BY <3>4, <3>7, <3>9
      <4>2. PICK offset : offset = file.sections[s].offset
        OBVIOUS
      <4>3. offset \in Nat
        <5>1. offset \in Nat \ {0}
          BY <4>1, <4>2, Sections, Zenon DEF OrdinarySection
        <5> QED
          BY <5>1
      <4>4. at = ELF!Value(offset + sym.st_value)
        BY <3>5, <3>9, <4>1, <4>2, Zenon DEF ELF!SymValue
      <4>5. PICK p : p = sym.st_value + rel.r_addend
        OBVIOUS
      <4>6. Targets(file, rel) = {[section |-> s, at |-> p]}
        BY <3>6, <4>1, <4>5, Zenon DEF Targets
      <4>7. at.value + rel.r_addend = offset + p
        <5>1. at.value = offset + sym.st_value
          BY <1>4, <4>4, Zenon
        <5> QED
          BY <1>1, <3>4, <4>3, <4>5, <5>1
      <4>8. at.is = "value"
        BY <1>4, <4>4, Zenon
      <4>9. Place(file, Targets(file, rel), at.value + rel.r_addend)
        BY <4>1, <4>2, <4>6, <4>7, Zenon DEF Place
      <4> QED
        BY <4>8, <4>9
    <3> QED
      BY <3>8, <3>9
  <2> QED
    BY <2>4, <2>5
<1> QED
  BY <1>5, <1>6, <1>7

\* Where the relocations of a position lead.
PlacesAt(file, p) == UNION {Targets(file, rel) : rel \in RelocsAt(file, p)}

LEMMA RelocResolved ==
  ASSUME NEW file, OrdinaryFile(file), NEW p,
         NEW at, at = ELF!AttemptResolveLocalReloc(file, ".rela.debug_info", OffsetOf(p))
  PROVE  \/ at.is \in {"error", "abort"} /\ PlacesAt(file, p) = {}
         \/ at.is = "value" /\ Place(file, PlacesAt(file, p), at.value)
<1>1. PICK r : r = ELF!SectionHeader(file, ".rela.debug_info")
  OBVIOUS
<1>2. \/ r = 0 /\ Named(file, ".rela.debug_info") = {}
      \/ r \in 1..Len(file.sections) /\ Named(file, ".rela.debug_info") = {r}
  BY <1>1, HeaderFound, Zenon
<1>3. ELF!Err.is = "error" /\ \A v : ELF!Value(v).is = "value" /\ ELF!Value(v).value = v
  BY DEF ELF!Err, ELF!Value
<1>4. CASE r = 0
  <2>1. at = ELF!Err
    BY <1>1, <1>4, Zenon DEF ELF!AttemptResolveLocalReloc
  <2>2. Named(file, ".rela.debug_info") = {}
    BY <1>2, <1>4
  <2>3. PlacesAt(file, p) = {}
    BY <2>2, Zenon DEF PlacesAt, RelocsAt
  <2> QED
    BY <1>3, <2>1, <2>3
<1>5. CASE r # 0
  <2>1. r \in 1..Len(file.sections) /\ Named(file, ".rela.debug_info") = {r}
    BY <1>2, <1>5
  <2>2. PICK sec, offset : sec = file.sections[r] /\ offset = OffsetOf(p)
    OBVIOUS
  <2>3. PICK i : i = ELF!RelocForOffset(sec, offset)
    OBVIOUS
  <2>4. PICK rels : rels = {rel \in Range(sec.relocs) : rel.r_offset = offset}
    OBVIOUS
  <2>5. \/ i = 0 /\ rels = {}
        \/ i \in 1..Len(sec.relocs) /\ rels = {sec.relocs[i]} /\ sec.relocs[i] \in ELF!Relocation
    <3>1. /\ sec.relocs \in Seq(ELF!Relocation)
          /\ \A j, k \in DOMAIN sec.relocs : sec.relocs[j].r_offset = sec.relocs[k].r_offset => j = k
      BY <2>1, <2>2, Sections, Zenon DEF OrdinarySection
    <3>2. OneReloc(sec, offset, i)
      BY <2>3, <3>1, RelocFound, Zenon
    <3> QED
      BY <2>4, <3>2, Zenon DEF OneReloc
  <2>6. RelocsAt(file, p) = rels
    <3>1. \A rel : rel \in RelocsAt(file, p) <=> rel \in rels
      BY <2>1, <2>2, <2>4 DEF RelocsAt
    <3> QED
      BY <3>1
  <2>7. CASE i = 0
    <3>1. at = ELF!Err
      BY <1>1, <1>5, <2>2, <2>3, <2>7, Zenon DEF ELF!AttemptResolveLocalReloc
    <3>2. rels = {}
      BY <2>5, <2>7
    <3>3. PlacesAt(file, p) = {}
      BY <2>6, <3>2, Zenon DEF PlacesAt
    <3> QED
      BY <1>3, <3>1, <3>3
  <2>8. CASE i # 0
    <3>1. PICK rel : rel = sec.relocs[i]
      OBVIOUS
    <3>2. rel \in ELF!Relocation /\ rels = {rel}
      BY <2>5, <2>8, <3>1
    <3>3. PlacesAt(file, p) = Targets(file, rel)
      BY <2>6, <3>2, Zenon DEF PlacesAt
    <3>4. PICK in : in = ELF!ResolveLocalDefinedReloc(file, rel)
      OBVIOUS
    <3>5. at = IF in.is = "value" THEN ELF!Value(in.value + rel.r_addend) ELSE in
      BY <1>1, <1>5, <2>2, <2>3, <2>8, <3>1, <3>4, Zenon DEF ELF!AttemptResolveLocalReloc
    <3>6. \/ in.is \in {"error", "abort"} /\ Targets(file, rel) = {}
          \/ in.is = "value" /\ Place(file, Targets(file, rel), in.value + rel.r_addend)
      BY <3>2, <3>4, Resolved, Zenon
    <3>7. CASE in.is = "value"
      <4>1. at.is = "value" /\ at.value = in.value + rel.r_addend
        BY <1>3, <3>5, <3>7, Zenon
      <4>2. Place(file, Targets(file, rel), in.value + rel.r_addend)
        BY <3>6, <3>7
      <4> QED
        BY <3>3, <4>1, <4>2, Zenon
    <3>8. CASE in.is # "value"
      <4>1. at = in /\ in.is \in {"error", "abort"} /\ Targets(file, rel) = {}
        BY <3>5, <3>6, <3>8
      <4> QED
        BY <3>3, <4>1, Zenon
    <3> QED
      BY <3>7, <3>8
  <2> QED
    BY <2>7, <2>8
<1> QED
  BY <1>4, <1>5

\* The string that is meant is the one there.
Meaning(file, places, string) ==
  IF string.findable
  THEN \E place \in places : LET strings == file.sections[place.section].strings IN
         place.at \in DOMAIN strings /\ strings[place.at] = string.text
  ELSE places = {}

LEMMA StringRead ==
  ASSUME NEW file, OrdinaryFile(file), NEW places, NEW string, Meaning(file, places, string),
         NEW at, Place(file, places, at)
  PROVE  StringIs(file, at, string.text)
<1>1. PICK s, p :
        s \in 1..Len(file.sections) /\ places = {[section |-> s, at |-> p]} /\ at = file.sections[s].offset + p
  BY Zenon DEF Place
<1>2. places # {}
  BY <1>1
<1>3. PICK place \in places : /\ place.at \in DOMAIN file.sections[place.section].strings
                              /\ file.sections[place.section].strings[place.at] = string.text
  BY <1>2, Zenon DEF Meaning
<1>4. place.section = s /\ place.at = p
  <2>1. place = [section |-> s, at |-> p]
    BY <1>1, <1>3, Zenon
  <2> QED
    BY <2>1
<1>5. PICK sec : sec = file.sections[s]
  OBVIOUS
<1>6. p \in DOMAIN sec.strings /\ sec.strings[p] = string.text
  BY <1>3, <1>4, <1>5, Zenon
<1>7. at = sec.offset + p
  BY <1>1, <1>5, Zenon
<1>8. StringIs(file, at, sec.strings[p])
  <2>1. s \in 1..Len(file.sections)
    BY <1>1
  <2>2. p \in DOMAIN sec.strings
    BY <1>6
  <2> QED
    BY <1>5, <1>7, <2>1, <2>2, StringFound
<1> QED
  BY <1>6, <1>8, Zenon

LEMMA NotFindable ==
  ASSUME NEW file, NEW places, NEW string, Meaning(file, places, string), places = {}
  PROVE  ~string.findable
  BY Zenon DEF Meaning

LEMMA ZeroWord == Word(0) \in [1..8 -> Byte] /\ \A k \in 1..8 : Word(0)[k] = 0
<1>1. Word(0) = <<0, 0, 0, 0, 0, 0, 0, 0>>
  BY DEF Word
<1> QED
  BY <1>1 DEF Byte

\* An offset of 0 is one of four null bytes.
LEMMA ZeroOffset ==
  ASSUME NEW v \in [1..8 -> Byte], Field(4) = [k \in 1..8 |-> IF k <= 4 THEN v[k] ELSE 0]
  PROVE  Field(4) = Word(0) <=> Low(v, 4) = Low(Word(0), 4)
<1>1. PICK s, t : s = Low(v, 4) /\ t = Low(Word(0), 4)
  OBVIOUS
<1>2. 4 \in 0..8
  OBVIOUS
<1>3. s \in Seq(Nat) /\ Len(s) = 4 /\ \A k \in 1..4 : s[k] = v[k]
  BY <1>1, <1>2, LowBytes, Zenon
<1>4. t \in Seq(Nat) /\ Len(t) = 4 /\ \A k \in 1..4 : t[k] = Word(0)[k]
  BY <1>1, <1>2, ZeroWord, LowBytes, Zenon
<1>5. s = t <=> \A k \in 1..4 : s[k] = t[k]
  <2>1. ASSUME \A k \in 1..4 : s[k] = t[k] PROVE s = t
    BY <1>3, <1>4, <2>1, SeqEqual
  <2> QED
    BY <2>1, Zenon
<1>6. s = t <=> \A k \in 1..4 : v[k] = 0
  <2>1. \A k \in 1..4 : k \in 1..8
    OBVIOUS
  <2> QED
    BY <1>3, <1>4, <1>5, <2>1, ZeroWord
<1>7. PICK w : w = Word(0)
  OBVIOUS
<1>8. Field(4) = w <=> \A k \in 1..4 : v[k] = 0
  <2>1. w = [k \in 1..8 |-> w[k]] /\ \A k \in 1..8 : w[k] = 0
    BY <1>7, ZeroWord
  <2>2. PICK f : f = Field(4)
    OBVIOUS
  <2>3. f = [k \in 1..8 |-> IF k <= 4 THEN v[k] ELSE 0]
    BY <2>2
  <2>4. ASSUME f = w, NEW k \in 1..4 PROVE v[k] = 0
    <3>1. k \in 1..8 /\ f[k] = v[k]
      BY <2>3
    <3> QED
      BY <2>1, <2>4, <3>1, Zenon
  <2>5. ASSUME \A k \in 1..4 : v[k] = 0 PROVE f = w
    <3>1. \A k \in 1..8 : (IF k <= 4 THEN v[k] ELSE 0) = w[k]
      BY <2>1, <2>5
    <3> QED
      BY <2>1, <2>3, <3>1, Zenon
  <2> QED
    BY <2>2, <2>4, <2>5, Zenon
<1> QED
  BY <1>1, <1>6, <1>7, <1>8, Zenon

\* What is known of a strp that is read next.
StrpAhead(i) ==
  /\ NextAttribute(i) /\ FormOf(i) = "strp" /\ Len(Bytes(FormOf(i), Values[i], AddrSize)) = 4
  /\ Values[i] \in [1..8 -> Byte] /\ Field(4) = [k \in 1..8 |-> IF k <= 4 THEN Values[i][k] ELSE 0]
  /\ i \in DOMAIN Values /\ OrdinaryFile(object.file)
  /\ Meaning(object.file, Places(object, i), object.strings[i])

LEMMA StrpIsAhead ==
  ASSUME Plain, TableInv, DIEInv, Reading({"StringPtr"})
  PROVE  \E i : StrpAhead(i)
<1>1. PICK i : NextAttribute(i) /\ get_DW_FORM(FormCode[FormOf(i)]) \in {"StringPtr"}
  BY AttributeAhead
<1>2. FormOf(i) \in Forms /\ Values[i] \in ValuesOf(FormOf(i))
  BY <1>1, Zenon DEF NextAttribute, Typical, FormOf, Values
<1>3. FormOf(i) = "strp"
  BY <1>1, <1>2, FormClasses DEF NumberTypes
<1>4. FormOf(i) \in Fixed /\ FixedSize(AddrSize)[FormOf(i)] = 4 /\ 4 \in 0..8
  BY <1>3, FormsListed, FixedSizes
<1>5. PICK v, b : v = Values[i] /\ b = Bytes(FormOf(i), v, AddrSize)
  OBVIOUS
<1>6. v \in [1..8 -> Byte] /\ b = Low(v, 4)
  BY <1>2, <1>4, <1>5, FixedValue, Zenon
<1>7. Ahead(b)
  BY <1>1, <1>5, BytesAhead, Zenon DEF NextAttribute
<1>8. Field(4) = [k \in 1..8 |-> IF k <= 4 THEN v[k] ELSE 0]
  BY <1>4, <1>6, <1>7, FieldAhead
<1>9. Len(b) = 4
  BY <1>4, <1>6, LowBytes, Zenon
<1>10. i \in DOMAIN Values
  BY <1>1, PlainValues, Zenon DEF NextAttribute, Values
<1>11. OrdinaryFile(object.file) /\ StringsAgree(object)
  BY Zenon DEF Plain, PlainTable, AsWritten
<1>12. Meaning(object.file, Places(object, i), object.strings[i])
  BY <1>3, <1>10, <1>11, Zenon DEF StringsAgree, Meaning, FormOf, Values
<1> QED
  BY <1>1, <1>3, <1>5, <1>6, <1>8, <1>9, <1>10, <1>11, <1>12, Zenon DEF StrpAhead

\* The failures that are known.
Known ==
  \/ \E c \in DOMAIN object.abbrevs : \E i \in DOMAIN object.abbrevs[c].attributes :
       object.abbrevs[c].attributes[i].at \in VendorAttributes
  \/ \E i \in DOMAIN Values : FormOf(i) \in {"sdata", "block", "indirect"}
  \/ \E i \in DOMAIN Values : FormOf(i) = "strp" /\ ~object.strings[i].findable

\* A string that cannot be found, by what is done then.
LEMMA NoString ==
  ASSUME Plain, DIEInv, pc = "readFromPointer", NEW i, StrpAhead(i), Places(object, i) = {},
         Data(Str(<< >>), 4) \/ Stop("abort")
  PROVE  DIEInv' /\ (pc' \in {"error", "abort"} => pc' = "abort" /\ Known)
<1>1. ~object.strings[i].findable /\ FormOf(i) = "strp" /\ i \in DOMAIN Values
  BY NotFindable, Zenon DEF StrpAhead
<1>2. CASE Data(Str(<< >>), 4)
  <2>1. Right(i, Str(<< >>))
    BY <1>1, Zenon DEF Right, Findable
  <2>2. DIEInv'
    BY <1>2, <2>1, DataRead, Zenon DEF StrpAhead
  <2>3. pc' = "readFromPointer"
    BY <1>2 DEF Data
  <2> QED
    BY <2>2, <2>3
<1>3. CASE Stop("abort")
  <2>1. pc' = "abort"
    BY <1>3 DEF Stop
  <2> QED
    BY <1>1, <2>1, Zenon DEF DIEInv, Known
<1> QED
  BY <1>2, <1>3

\* One that can, by where it is read from.
LEMMA AString ==
  ASSUME Plain, DIEInv, pc = "readFromPointer", NEW i, StrpAhead(i),
         NEW at, Place(object.file, Places(object, i), at), Data(Str(ELF!StringAt(object.file, at)), 4)
  PROVE  DIEInv' /\ (pc' \in {"error", "abort"} => pc' = "abort" /\ Known)
<1>1. PICK string : string = object.strings[i].text
  OBVIOUS
<1>2. ELF!StringAt(object.file, at) = string
  <2>1. StringIs(object.file, at, object.strings[i].text)
    BY StringRead, Zenon DEF StrpAhead
  <2> QED
    BY <1>1, <2>1, Zenon DEF StringIs
<1>3. Right(i, Str(string))
  <2>1. PICK form, v : form = FormOf(i) /\ v = Values[i]
    OBVIOUS
  <2>2. form = "strp" /\ form \in Forms
    BY <2>1, FormsListed DEF StrpAhead
  <2>3. DatumOf(form, v, string) = Str(string)
    BY <2>2, DatumsOf
  <2> QED
    BY <1>1, <2>1, <2>3, Zenon DEF Right
<1>4. DIEInv'
  BY <1>2, <1>3, DataRead, Zenon DEF StrpAhead
<1>5. pc' = "readFromPointer"
  BY DEF Data
<1> QED
  BY <1>4, <1>5

LEMMA RelocatedStep ==
  ASSUME Plain, TableInv, DIEInv, ReadRelocatedString
  PROVE  DIEInv' /\ (pc' \in {"error", "abort"} => pc' = "abort" /\ Known)
<1>1. Reading({"StringPtr"}) /\ Field(4) = Word(0)
  BY Zenon DEF ReadRelocatedString
<1>2. pc = "readFromPointer"
  BY <1>1 DEF Reading
<1>3. PICK i : StrpAhead(i)
  BY <1>1, StrpIsAhead
<1>4. Low(object.values[i], 4) = Low(Word(0), 4)
  BY <1>1, <1>3, ZeroOffset, Zenon DEF StrpAhead, Values
<1>5. Places(object, i) = PlacesAt(object.file, debugInfo)
  BY <1>3, <1>4, Zenon DEF Places, PlacesAt, StrpAhead, NextAttribute
<1>6. PICK at : at = ELF!AttemptResolveLocalReloc(object.file, ".rela.debug_info", OffsetOf(debugInfo))
  OBVIOUS
<1>7. \/ at.is = "error" /\ Data(Str(<< >>), 4)
      \/ at.is = "abort" /\ Stop("abort")
      \/ at.is = "value" /\ Data(Str(ELF!StringAt(object.file, at.value)), 4)
  <2>1. at.is \in {"value", "error", "abort"}
    BY <1>6, Resolutions, Zenon
  <2> QED
    BY <1>6, <2>1, Zenon DEF ReadRelocatedString
<1>8. \/ at.is \in {"error", "abort"} /\ PlacesAt(object.file, debugInfo) = {}
      \/ at.is = "value" /\ Place(object.file, PlacesAt(object.file, debugInfo), at.value)
  <2>1. PICK file, p : file = object.file /\ p = debugInfo
    OBVIOUS
  <2>2. OrdinaryFile(file)
    BY <1>3, <2>1, Zenon DEF StrpAhead
  <2>3. \/ at.is \in {"error", "abort"} /\ PlacesAt(file, p) = {}
        \/ at.is = "value" /\ Place(file, PlacesAt(file, p), at.value)
    BY <1>6, <2>1, <2>2, RelocResolved, Zenon
  <2> QED
    BY <2>1, <2>3, Zenon
<1>9. CASE at.is \in {"error", "abort"}
  <2>1. Places(object, i) = {}
    BY <1>5, <1>8, <1>9
  <2>2. Data(Str(<< >>), 4) \/ Stop("abort")
    BY <1>7, <1>9
  <2> QED
    BY <1>2, <1>3, <2>1, <2>2, NoString, Zenon
<1>10. CASE at.is = "value"
  <2>1. Place(object.file, Places(object, i), at.value)
    BY <1>5, <1>8, <1>10
  <2>2. Data(Str(ELF!StringAt(object.file, at.value)), 4)
    BY <1>7, <1>10
  <2> QED
    BY <1>2, <1>3, <2>1, <2>2, AString, Zenon
<1> QED
  BY <1>7, <1>9, <1>10

LEMMA LinkedStep ==
  ASSUME Plain, TableInv, DIEInv, ReadLinkedString
  PROVE  DIEInv' /\ (pc' \in {"error", "abort"} => pc' = "abort" /\ Known)
<1>1. Reading({"StringPtr"}) /\ Field(4) # Word(0)
  BY Zenon DEF ReadLinkedString
<1>2. pc = "readFromPointer"
  BY <1>1 DEF Reading
<1>3. PICK i : StrpAhead(i)
  BY <1>1, StrpIsAhead
<1>4. Low(object.values[i], 4) # Low(Word(0), 4)
  BY <1>1, <1>3, ZeroOffset, Zenon DEF StrpAhead, Values
<1>5. PICK file : file = object.file
  OBVIOUS
<1>6. PICK q : q = Natural(object.values[i])
  OBVIOUS
<1>7. Places(object, i) = {[section |-> s, at |-> q] : s \in Named(file, ".debug_str")}
  BY <1>4, <1>5, <1>6, Zenon DEF Places
<1>8. Natural(Field(4)) = q
  <2>1. PICK f, v : f = Field(4) /\ v = object.values[i]
    OBVIOUS
  <2>2. f = [k \in 1..8 |-> IF k <= 4 THEN v[k] ELSE 0]
    BY <1>3, <2>1, Zenon DEF StrpAhead, Values
  <2>3. f[1] = v[1] /\ f[2] = v[2] /\ f[3] = v[3] /\ f[4] = v[4]
    BY <2>2
  <2> QED
    BY <1>6, <2>1, <2>3 DEF Natural
<1>9. PICK d : d = ELF!SectionHeader(file, ".debug_str")
  OBVIOUS
<1>10. OrdinaryFile(file)
  BY <1>3, <1>5, Zenon DEF StrpAhead
<1>11. \/ d = 0 /\ Named(file, ".debug_str") = {}
       \/ d \in 1..Len(file.sections) /\ Named(file, ".debug_str") = {d}
  BY <1>9, <1>10, HeaderFound, Zenon
<1>12. ELF!Section(file, ".debug_str") = IF d = 0 THEN ELF!NULL ELSE file.sections[d].offset
  BY <1>9, Zenon DEF ELF!Section
<1>13. \/ ELF!Section(file, ".debug_str") = ELF!NULL /\ Stop("abort")
       \/ /\ ELF!Section(file, ".debug_str") # ELF!NULL
          /\ Data(Str(ELF!StringAt(file, ELF!Section(file, ".debug_str") + q)), 4)
  BY <1>5, <1>8, Zenon DEF ReadLinkedString
<1>14. CASE d = 0
  <2>1. Places(object, i) = {}
    <3>1. Named(file, ".debug_str") = {}
      BY <1>11, <1>14
    <3> QED
      BY <1>7, <3>1, Zenon
  <2>2. Stop("abort")
    BY <1>12, <1>13, <1>14
  <2> QED
    BY <1>2, <1>3, <2>1, <2>2, NoString, Zenon
<1>15. CASE d # 0
  <2>1. d \in 1..Len(file.sections) /\ Named(file, ".debug_str") = {d}
    BY <1>11, <1>15
  <2>2. PICK offset : offset = file.sections[d].offset
    OBVIOUS
  <2>3. offset \in Nat \ {0}
    BY <1>10, <2>1, <2>2, Sections, Zenon DEF OrdinarySection
  <2>4. ELF!Section(file, ".debug_str") = offset /\ offset # ELF!NULL
    BY <1>12, <1>15, <2>2, <2>3 DEF ELF!NULL
  <2>5. Places(object, i) = {[section |-> d, at |-> q]}
    BY <1>7, <2>1, Zenon
  <2>6. Place(file, Places(object, i), offset + q)
    BY <2>1, <2>2, <2>5, Zenon DEF Place
  <2>7. Data(Str(ELF!StringAt(file, offset + q)), 4)
    BY <1>13, <2>4, Zenon
  <2> QED
    BY <1>2, <1>3, <1>5, <2>6, <2>7, AString, Zenon
<1> QED
  BY <1>14, <1>15

------------------------------------------------------------------------------
(* The steps together *)

LEMMA NoUnknownAbbrev ==
  ASSUME Plain, TableInv, DIEInv, UnknownAbbrev
  PROVE  FALSE
<1>1. infoByte(0) = object.code
  BY CodeAhead DEF UnknownAbbrev, DIEInv
<1>2. Len(abbrevTable) = Len(object.abbrevs) + 1 /\ infoByte(0) >= Len(abbrevTable)
  BY DEF UnknownAbbrev, TableInv, AllRows
<1>3. object.code \in 1..Len(object.abbrevs)
  BY PlainValues
<1>4. PICK n : n = Len(object.abbrevs)
  OBVIOUS
<1>5. n \in Nat
  <2>1. Readable(object)
    BY PlainIsReadable DEF Plain
  <2> QED
    BY <1>4, <2>1, LengthType DEF Readable
<1> QED
  BY <1>1, <1>2, <1>3, <1>4, <1>5

LEMMA DIEStarted ==
  ASSUME Plain, TableInv, DIEInv, StartDIE
  PROVE  DIEInv'
<1>1. infoByte(0) = object.code /\ debugInfo = 1
  BY CodeAhead DEF StartDIE, DIEInv
<1>2. die' = [code |-> object.code, info |-> << >>] /\ debugInfo' = 2 /\ object' = object /\ pc' = "readFromPointer"
  BY <1>1 DEF StartDIE
<1>3. EndOf(object, 0) = 2
  <2>1. PICK n : n = Attributes(object, object.code) /\ n \in Nat
    BY PlainValues
  <2>2. 0 \in 0..n
    BY <2>1
  <2>3. EndOf(object, 0) = 2 + Len(UpTo(Vals(object), 0))
    BY <2>1, <2>2, ValsAre, Zenon
  <2>4. Len(UpTo(Vals(object), 0)) = 0
    BY FlattenEmpty
  <2> QED
    BY <2>3, <2>4
<1>4. die'.info = << >> /\ Len(<< >>) = 0
  BY <1>2
<1>5. IsSeq(<< >>)
  BY DEF IsSeq
<1>6. 0 \in 0..Attributes(object, object.code)
  BY PlainValues
<1>7. (\A i \in 1..Len(die.info) : Right(i, die.info[i]))'
  BY <1>4
<1>8. (die = [code |-> object.code, info |-> die.info])'
  BY <1>2, <1>4
<1>9. (IsSeq(die.info) /\ Len(die.info) \in 0..Attributes(object, object.code) /\ debugInfo = EndOf(object, Len(die.info)))'
  BY <1>2, <1>3, <1>4, <1>5, <1>6, Zenon
<1> QED
  BY <1>2, <1>7, <1>8, <1>9 DEF DIEInv, SoFar

\* Where nothing is read.
LEMMA DIEKept ==
  ASSUME DIEInv, UNCHANGED <<object, debugInfo, die>>,
         pc' \in {"readAbbrevTable", "readAbbrev", "readOneDIE"} => pc \in {"readAbbrevTable", "readAbbrev", "readOneDIE"},
         pc' \in {"readFromPointer", "done"} => pc \in {"readFromPointer", "done"}
  PROVE  DIEInv'
<1>1. SoFar' <=> SoFar
  BY DEF SoFar, Right, FormOf, Values, Findable
<1> QED
  BY <1>1 DEF DIEInv

LEMMA NotImplementedKnown ==
  ASSUME Plain, TableInv, DIEInv, NotImplemented
  PROVE  DIEInv' /\ (pc' \in {"error", "abort"} => pc' = "abort" /\ Known)
<1>1. PICK i : NextAttribute(i) /\ get_DW_FORM(FormCode[FormOf(i)]) \in {"LEB128", "Indirect"}
  BY AttributeAhead DEF NotImplemented
<1>2. FormOf(i) \in Forms
  BY <1>1, Zenon DEF NextAttribute, Typical, FormOf
<1>3. FormOf(i) \in {"sdata", "block", "indirect"}
  BY <1>1, <1>2, FormClasses DEF NumberTypes
<1>4. i \in DOMAIN Values
  BY <1>1, PlainValues, Zenon DEF NextAttribute, Values
<1>5. pc' = "abort"
  BY DEF NotImplemented, Stop
<1> QED
  BY <1>3, <1>4, <1>5, Zenon DEF DIEInv, Known

LEMMA PlainStep ==
  ASSUME Plain, TableInv, DIEInv, [Next]_vars
  PROVE  /\ DIEInv'
         /\ pc' \in {"error", "abort"} => pc' = pc \/ (pc' = "abort" /\ Known)
<1>1. PlainTable
  BY DEF Plain
<1>2. CASE UNCHANGED vars
  BY <1>2, DIEKept DEF vars
<1>3. CASE EndOfTable \/ EndOfAbbrev \/ ReadTag \/ ReadAttribute
  <2>1. /\ UNCHANGED <<object, debugInfo, die>> /\ pc \in {"readAbbrevTable", "readAbbrev"}
        /\ pc' \in {"readAbbrevTable", "readAbbrev", "readOneDIE"}
    BY <1>3 DEF EndOfTable, EndOfAbbrev, ReadTag, ReadAttribute, IsPair, Stop
  <2> QED
    BY <2>1, DIEKept
<1>4. CASE UnexpectedCode
  BY <1>1, <1>4, NoUnexpectedCode
<1>5. CASE UnknownForm
  <2>1. UNCHANGED <<object, debugInfo, die>> /\ pc' = "abort"
    BY <1>5 DEF UnknownForm, Stop
  <2>2. Known
    BY <1>1, <1>5, VendorFound DEF Known
  <2>3. DIEInv'
    BY <2>1, DIEKept
  <2> QED
    BY <2>1, <2>2, <2>3
<1>6. CASE UnknownAbbrev
  BY <1>6, NoUnknownAbbrev
<1>7. CASE StartDIE
  <2>1. pc' = "readFromPointer"
    BY <1>7 DEF StartDIE
  <2>2. DIEInv'
    BY <1>7, DIEStarted
  <2> QED
    BY <2>1, <2>2
<1>8. CASE ReadString \/ SkipExprloc \/ ReadULEB128 \/ ReadFlag \/ ReadNumber
  <2>1. pc' = "readFromPointer"
    BY <1>8 DEF ReadString, SkipExprloc, ReadULEB128, ReadFlag, ReadNumber, Reading, Data
  <2>2. DIEInv'
    BY <1>8, StringStep, ExprlocStep, NumberStep, FlagStep, FixedStep
  <2> QED
    BY <2>1, <2>2
<1>9. CASE NotImplemented
  BY <1>9, NotImplementedKnown
<1>10. CASE ReadRelocatedString
  BY <1>10, RelocatedStep
<1>11. CASE ReadLinkedString
  BY <1>11, LinkedStep
<1>12. CASE EndOfDIE
  <2>1. UNCHANGED <<object, debugInfo, die>> /\ pc' = "done" /\ pc = "readFromPointer"
    BY <1>12 DEF EndOfDIE, Stop
  <2> QED
    BY <2>1, DIEKept
<1>13. CASE Returned
  BY <1>2, <1>13 DEF Returned
<1> QED
  BY <1>2, <1>3, <1>4, <1>5, <1>6, <1>7, <1>8, <1>9, <1>10, <1>11, <1>12, <1>13 DEF Next

\* The inductive invariant, with what holds in every reachable state.
PlainInv == Plain => TableInv /\ DIEInv /\ (pc \in {"error", "abort"} => pc = "abort" /\ Known)

LEMMA PlainInvHolds == Spec => []PlainInv
<1>1. Init => PlainInv
  <2> SUFFICES ASSUME Init, Plain PROVE TableInv /\ DIEInv /\ (pc \in {"error", "abort"} => pc = "abort" /\ Known)
    BY DEF PlainInv
  <2>1. TableInv
    BY TableInvInit DEF Plain
  <2>2. pc = "readAbbrevTable" /\ debugInfo = 1
    BY DEF Init
  <2> QED
    BY <2>1, <2>2 DEF DIEInv
<1>2. PlainInv /\ [Next]_vars => PlainInv'
  <2> SUFFICES ASSUME PlainInv, [Next]_vars, Plain'
               PROVE  (TableInv /\ DIEInv /\ (pc \in {"error", "abort"} => pc = "abort" /\ Known))'
    BY DEF PlainInv
  <2>1. object' = object /\ Plain
    BY ObjectKept, PlainKept
  <2>2. TableInv /\ DIEInv /\ (pc \in {"error", "abort"} => pc = "abort" /\ Known)
    BY <2>1 DEF PlainInv
  <2>3. TableInv'
    BY <2>1, <2>2, TableInvStep, Zenon DEF Plain
  <2>4. DIEInv' /\ (pc' \in {"error", "abort"} => pc' = pc \/ (pc' = "abort" /\ Known))
    BY <2>1, <2>2, PlainStep, Zenon
  <2>5. Known' <=> Known
    BY <2>1 DEF Known, Values, FormOf
  <2> QED
    BY <2>2, <2>3, <2>4, <2>5
<1> QED
  BY <1>1, <1>2, PTL DEF Spec

\* After each attribute the reader stands where the next one begins, for every
\* object whose values have an end the reader can know: the form it takes from the
\* table has the size the compiler gave the value, in every class of forms.
THEOREM PointerAlwaysRight == Spec => []PointerRight
<1>1. PlainInv => PointerRight
  BY Zenon DEF PlainInv, PointerRight, DIEInv, SoFar
<1> QED
  BY <1>1, PlainInvHolds, PTL

\* Every attribute has the value the compiler gave it, and a string is that of its
\* own field, in every file where names and places have one meaning: the section,
\* the relocation and the symbol that readFromPointer ends up with are those of it.
THEOREM ValuesAlwaysRight == Spec => []ValuesRight
<1>1. PlainInv => ValuesRight
  <2> SUFFICES ASSUME Plain, DIEInv, pc \in {"readFromPointer", "done"}, NEW i \in DOMAIN die.info
               PROVE  \/ die.info[i] = DatumOf(FormOf(i), Values[i], object.strings[i].text)
                      \/ ~Findable(i) /\ die.info[i] = Str(<< >>)
    BY Zenon DEF PlainInv, ValuesRight
  <2>1. SoFar
    BY DEF DIEInv
  <2>2. DOMAIN die.info = 1..Len(die.info)
    <3>1. PICK S : die.info \in Seq(S)
      BY <2>1 DEF SoFar, IsSeq
    <3> QED
      BY <3>1
  <2>3. Right(i, die.info[i])
    BY <2>1, <2>2, Zenon DEF SoFar
  <2> QED
    BY <2>3, Zenon DEF Right
<1> QED
  BY <1>1, PlainInvHolds, PTL

\* No object is refused, and the assertions only fail for what the reader is known
\* not to read: code and abbreviation always agree, and a string that is somewhere
\* is found.
THEOREM OnlyKnownFailures == Spec => []KnownFailures
<1>1. PlainInv => KnownFailures
  BY Zenon DEF PlainInv, KnownFailures, Known
<1> QED
  BY <1>1, PlainInvHolds, PTL
==============================================================================
