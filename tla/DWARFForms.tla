------------------------------ MODULE DWARFForms ------------------------------
(***************************************************************************)
(* The bytes below DWARFReader.tla, which takes an abbreviation for a row  *)
(* and the values of a DIE for a number of bytes: how lib/Binfmt/DWARF.cpp *)
(* reads the abbreviation table and then the attributes of a DIE, by the   *)
(* table of forms of DWARFConstants.h.                                     *)
(*                                                                         *)
(* An object is a record of what the compiler meant (abbrevs, a DIE of     *)
(* abbreviation `code` with `values`) and of what there is to be read:     *)
(*   abbrev  the bytes of .debug_abbrev                                    *)
(*   info    the bytes of .debug_info from the DIE on                      *)
(*   file    the ELF file they are in, for the strings elsewhere in it     *)
(* Memory after these bytes is taken to be null.                           *)
(***************************************************************************)
EXTENDS DWARFEncoding

ELF == INSTANCE ELFReader

CONSTANTS Objects,   \* the objects the reader may be given
          AddrSize   \* their address size

ASSUME AddrSizeAssumption == AddrSize \in {4, 8}

VARIABLES object, pc,
          abbrevPtr,    \* position of the next byte of .debug_abbrev
          abbrevTable,  \* abbreviation c is abbrevTable[c + 1]
          debugInfo,    \* position of the next byte of .debug_info
          die           \* the DIE being read: its abbreviation, and the data read so far

vars == <<object, pc, abbrevPtr, abbrevTable, debugInfo, die>>

Ended == {"done", "error", "abort"}

Init ==
  /\ object \in Objects
  /\ pc = "readAbbrevTable" /\ abbrevPtr = 1
  /\ abbrevTable = <<[tag |-> 0, children |-> FALSE, attributes |-> << >>]>>
  /\ debugInfo = 1 /\ die = [code |-> 0, info |-> << >>]

At(bytes, p) == IF p <= Len(bytes) THEN bytes[p] ELSE 0

Stop(how) == pc' = how /\ UNCHANGED <<object, abbrevPtr, abbrevTable, debugInfo, die>>

------------------------------------------------------------------------------
(* The table of forms *)

KnownForms == ((1..25) \ {2}) \cup {32}

\* DW_FORM_static_list: the DWARFType of a form.
get_DW_FORM(value) ==
  CASE value = 1                -> "MachineAddr"
    [] value \in {10, 11, 12, 17} -> "One"
    [] value \in {3, 5, 18}     -> "Two"
    [] value \in {4, 6, 19}     -> "Four"
    [] value \in {7, 20, 32}    -> "Eight"
    [] value = 8                -> "String"
    [] value \in {9, 13}        -> "LEB128"
    [] value = 14               -> "StringPtr"
    [] value \in {15, 21}       -> "ULEB128"
    [] value \in {16, 23}       -> "DWARFAddr"
    [] value = 22               -> "Indirect"
    [] value = 24               -> "Exprloc"
    [] OTHER                    -> "Zero"      \* flag_present

\* getDTypeSize, for the types with a size.  Units of the 64-bit format have been
\* refused by now, so that an offset has 4 bytes.
DTypeSize ==
  [Zero |-> 0, One |-> 1, Two |-> 2, Four |-> 4, Eight |-> 8,
   DWARFAddr |-> 4, StringPtr |-> 4, MachineAddr |-> AddrSize]

------------------------------------------------------------------------------
(* readAbbrevTable: every number is taken for one byte *)

abbrevByte(k) == At(object.abbrev, abbrevPtr + k)

EndOfTable == pc = "readAbbrevTable" /\ abbrevByte(0) = 0 /\ Stop("readOneDIE")

UnexpectedCode ==
  /\ pc = "readAbbrevTable" /\ abbrevByte(0) \notin {0, Len(abbrevTable)}
  /\ Stop("error")

ReadTag ==
  /\ pc = "readAbbrevTable" /\ abbrevByte(0) = Len(abbrevTable)
  /\ abbrevTable' = Append(abbrevTable,
       [tag |-> abbrevByte(1), children |-> abbrevByte(2) # 0, attributes |-> << >>])
  /\ abbrevPtr' = abbrevPtr + 3 /\ pc' = "readAbbrev"
  /\ UNCHANGED <<object, debugInfo, die>>

EndOfAbbrev ==
  /\ pc = "readAbbrev" /\ abbrevByte(0) = 0 /\ abbrevByte(1) = 0
  /\ abbrevPtr' = abbrevPtr + 2 /\ pc' = "readAbbrevTable"
  /\ UNCHANGED <<object, abbrevTable, debugInfo, die>>

IsPair == pc = "readAbbrev" /\ ~(abbrevByte(0) = 0 /\ abbrevByte(1) = 0)

\* Mutant of UnknownForm: it is skipped.
SkipUnknownForm ==
  /\ IsPair /\ abbrevByte(1) \notin KnownForms
  /\ abbrevPtr' = abbrevPtr + 2
  /\ UNCHANGED <<object, pc, abbrevTable, debugInfo, die>>

\* The assertion of get_DW_FORM.
UnknownForm == IsPair /\ abbrevByte(1) \notin KnownForms /\ Stop("abort")

ReadAttribute ==
  /\ IsPair /\ abbrevByte(1) \in KnownForms
  /\ abbrevTable' = [abbrevTable EXCEPT ![Len(abbrevTable)].attributes =
       Append(@, [at |-> abbrevByte(0), type |-> get_DW_FORM(abbrevByte(1))])]
  /\ abbrevPtr' = abbrevPtr + 2
  /\ UNCHANGED <<object, pc, debugInfo, die>>

------------------------------------------------------------------------------
(* readOneDIE without the tree, and readFromPointer *)

infoByte(k) == At(object.info, debugInfo + k)

UnknownAbbrev == pc = "readOneDIE" /\ infoByte(0) >= Len(abbrevTable) /\ Stop("error")

StartDIE ==
  /\ pc = "readOneDIE" /\ infoByte(0) < Len(abbrevTable)
  /\ die' = [code |-> infoByte(0), info |-> << >>]
  /\ debugInfo' = debugInfo + 1 /\ pc' = "readFromPointer"
  /\ UNCHANGED <<object, abbrevPtr, abbrevTable>>

attributes == abbrevTable[die.code + 1].attributes

\* The type of the next attribute, if one is left.
Reading(types) ==
  /\ pc = "readFromPointer" /\ Len(die.info) < Len(attributes)
  /\ attributes[Len(die.info) + 1].type \in types

\* The data of an attribute, of a number of bytes.
Data(data, size) ==
  /\ die' = [die EXCEPT !.info = Append(@, data)]
  /\ debugInfo' = debugInfo + size
  /\ UNCHANGED <<object, pc, abbrevPtr, abbrevTable>>

\* A DWARF::Data is a number, as its bytes, or a string, as its own.
Number(word) == <<"uint64_t", word>>
Str(bytes)   == <<"string", bytes>>

ReadString ==
  /\ Reading({"String"})
  /\ LET size == CHOOSE k \in 0..Len(object.info) : infoByte(k) = 0 /\ \A l \in 0..(k - 1) : infoByte(l) # 0
     IN  Data(Str([k \in 1..size |-> infoByte(k - 1)]), size + 1)

\* The number readULEB128 returns.  It clears the continuation bit of the byte
\* before testing it, and so reads one byte.
ULEB == infoByte(0) % 128

\* Mutant of SkipExprloc: without the byte of the length.
SkipExprlocShort == Reading({"Exprloc"}) /\ Data(Number(Word(0)), ULEB)

\* The expression is skipped and the data is 0.
SkipExprloc == Reading({"Exprloc"}) /\ Data(Number(Word(0)), 1 + ULEB)

ReadULEB128 == Reading({"ULEB128"}) /\ Data(Number(Word(ULEB)), 1)

\* Mutant of NotImplemented: expressions are not either.
ExprlocNotImplemented == Reading({"LEB128", "Indirect", "Exprloc"}) /\ Stop("abort")

\* The assertions on what is not implemented.
NotImplemented == Reading({"LEB128", "Indirect"}) /\ Stop("abort")

\* The bytes of the next field.
Field(size) == [k \in 1..8 |-> IF k <= size THEN infoByte(k - 1) ELSE 0]

ReadFlag == Reading({"Zero"}) /\ Data(Number(Word(1)), 0)

ReadNumber ==
  /\ Reading({"One", "Two", "Four", "Eight", "DWARFAddr", "MachineAddr"})
  /\ LET size == DTypeSize[attributes[Len(die.info) + 1].type] IN Data(Number(Field(size)), size)

\* The offset in .debug_info of a position in object.info, after the header.
OffsetOf(p) == 11 + p - 1

\* Mutant of ReadRelocatedString: it looks for the offset after the field.
RelocatedAfterField ==
  /\ Reading({"StringPtr"}) /\ Field(4) = Word(0)
  /\ LET at == ELF!AttemptResolveLocalReloc(object.file, ".rela.debug_info", OffsetOf(debugInfo + 4))
     IN  CASE at.is = "error" -> Data(Str(<< >>), 4)
           [] at.is = "abort" -> Stop("abort")
           [] at.is = "value" -> Data(Str(ELF!StringAt(object.file, at.value)), 4)

\* An offset of 0 is taken for a relocation, and for no string if there is none.
ReadRelocatedString ==
  /\ Reading({"StringPtr"}) /\ Field(4) = Word(0)
  /\ LET at == ELF!AttemptResolveLocalReloc(object.file, ".rela.debug_info", OffsetOf(debugInfo))
     IN  CASE at.is = "error" -> Data(Str(<< >>), 4)
           [] at.is = "abort" -> Stop("abort")
           [] at.is = "value" -> Data(Str(ELF!StringAt(object.file, at.value)), 4)

\* The value of a field of 4 bytes.
Natural(word) == word[1] + 256 * word[2] + 65536 * word[3] + 16777216 * (word[4] % 128)

ReadLinkedString ==
  /\ Reading({"StringPtr"}) /\ Field(4) # Word(0)
  /\ LET debugStr == ELF!Section(object.file, ".debug_str")
     IN  IF debugStr = ELF!NULL THEN Stop("abort")
         ELSE Data(Str(ELF!StringAt(object.file, debugStr + Natural(Field(4)))), 4)

EndOfDIE == pc = "readFromPointer" /\ Len(die.info) = Len(attributes) /\ Stop("done")

Returned == pc \in Ended /\ UNCHANGED vars

Next ==
  \/ EndOfTable \/ UnexpectedCode \/ ReadTag \/ EndOfAbbrev \/ UnknownForm \/ ReadAttribute
  \/ UnknownAbbrev \/ StartDIE \/ ReadString \/ SkipExprloc \/ ReadULEB128 \/ NotImplemented
  \/ ReadFlag \/ ReadNumber \/ ReadRelocatedString \/ ReadLinkedString \/ EndOfDIE
  \/ Returned

Spec == Init /\ [][Next]_vars

------------------------------------------------------------------------------
(* Objects as compilers and linkers write them *)

FormAt(o, i) == o.abbrevs[o.code].attributes[i].form

\* The position after the first n attributes.
EndOf(o, n) == 2 + Len(FlattenSeq([i \in 1..n |-> Bytes(FormAt(o, i), o.values[i], AddrSize)]))

\* The bytes are those of the abbreviations, and of a DIE of one of them.
BytesAgree(o) ==
  /\ o.abbrevs \in Seq(Abbreviation) /\ o.code \in DOMAIN o.abbrevs
  /\ DOMAIN o.values = DOMAIN o.abbrevs[o.code].attributes
  /\ \A i \in DOMAIN o.values : o.values[i] \in ValuesOf(FormAt(o, i))
  /\ o.abbrev = AbbrevTableBytes(o.abbrevs)
  /\ o.info = ULEB128(o.code)
       \o FlattenSeq([i \in DOMAIN o.values |-> Bytes(FormAt(o, i), o.values[i], AddrSize)])

\* The sections of a name, by their index.
Named(file, name) == {s \in DOMAIN file.sections : file.sections[s].name = name}

\* A file with a table of sections, where a name, an offset to relocate and a
\* place have one meaning at most.
OrdinaryFile(file) ==
  /\ file.shoff # 0 /\ file.shstrndx < Len(file.sections)
  /\ file.sections \in Seq(Range(file.sections))
  /\ \A s \in Range(file.sections) :
       /\ s.offset \in Nat \ {0} /\ DOMAIN s.strings \subseteq Nat
       /\ s.relocs \in Seq(ELF!Relocation) /\ s.syms \in Seq(ELF!Symbol)
       /\ \A i, j \in DOMAIN s.relocs : s.relocs[i].r_offset = s.relocs[j].r_offset => i = j
  /\ \A s, t \in DOMAIN file.sections :
       LET S == file.sections[s]  T == file.sections[t] IN
       /\ S.name = T.name => s = t
       /\ \A p \in DOMAIN S.strings, q \in DOMAIN T.strings : S.offset + p = T.offset + q => s = t

\* The symbols a relocation of this machine may name: one at most.
SymbolsOf(file, rel) ==
  IF rel.type \notin {ELF!R_X86_64_32, ELF!R_X86_64_64} THEN {}
  ELSE {file.sections[s].syms[rel.sym + 1] :
          s \in {t \in Named(file, ".symtab") : rel.sym < Len(file.sections[t].syms)}}

\* Where a relocation refers to: an offset in the section of its symbol.
Targets(file, rel) ==
  {[section |-> sym.st_shndx + 1, at |-> sym.st_value + rel.r_addend] :
     sym \in {m \in SymbolsOf(file, rel) : m.st_shndx < Len(file.sections)}}

\* The relocations of the field at a position of object.info.
RelocsAt(file, p) ==
  UNION {{rel \in Range(file.sections[s].relocs) : rel.r_offset = OffsetOf(p)} : s \in Named(file, ".rela.debug_info")}

\* Where the string of attribute i is: one place at most.
Places(o, i) ==
  IF Low(o.values[i], 4) = Low(Word(0), 4)
  THEN UNION {Targets(o.file, rel) : rel \in RelocsAt(o.file, EndOf(o, i - 1))}
  ELSE {[section |-> s, at |-> Natural(o.values[i])] : s \in Named(o.file, ".debug_str")}

\* The strings meant are at those places.
StringsAgree(o) ==
  \A i \in DOMAIN o.values : FormAt(o, i) = "strp" =>
    IF o.strings[i].findable
    THEN \E place \in Places(o, i) : LET strings == o.file.sections[place.section].strings IN
           place.at \in DOMAIN strings /\ strings[place.at] = o.strings[i].text
    ELSE Places(o, i) = {}

\* The object holds what the compiler meant.
AsWritten(o) == BytesAgree(o) /\ OrdinaryFile(o.file) /\ StringsAgree(o)

------------------------------------------------------------------------------
(* Properties *)

\* The forms of the DIE, and its values.
Values     == object.values
FormOf(i)  == FormAt(object, i)

\* What is meant by the table: abbreviation c with the names of its attributes.
Meant(c) == [tag |-> object.abbrevs[c].tag, children |-> object.abbrevs[c].children,
             ats |-> [i \in DOMAIN object.abbrevs[c].attributes |-> object.abbrevs[c].attributes[i].at]]
Read(c)  == [tag |-> abbrevTable[c + 1].tag, children |-> abbrevTable[c + 1].children,
             ats |-> [i \in DOMAIN abbrevTable[c + 1].attributes |-> abbrevTable[c + 1].attributes[i].at]]

\* The table of an object as it should be in which codes and tags fit in a byte: there
\* are few of them and none of a vendor.  Others shift what comes after them.
PlainTable ==
  /\ AsWritten(object)
  /\ Len(object.abbrevs) < 128 /\ \A c \in DOMAIN object.abbrevs : object.abbrevs[c].tag \notin VendorTags

\* The table of abbreviations is right whenever readAbbrevTable returns, for all
\* attributes there are: those of vendors have two bytes, but the second is taken
\* for a form that is none, and the reader aborts.
TableRight ==
  PlainTable /\ pc \in {"readOneDIE", "readFromPointer", "done"} =>
    /\ Len(abbrevTable) = Len(object.abbrevs) + 1
    /\ \A c \in DOMAIN object.abbrevs : Read(c) = Meant(c)

\* A value the reader can know the end of: no block (the length of block1, 2 and 4 is
\* all it reads of them), and no number or length of more than seven bits.
Delimited(form, v) ==
  /\ form \notin {"block1", "block2", "block4"}
  /\ form \in Numbers => v < 128
  /\ form = "exprloc" => Len(v) < 128

Plain == PlainTable /\ \A i \in DOMAIN Values : Delimited(FormOf(i), Values[i])

\* After each attribute the reader stands where the next one begins, and after
\* the last at the end of the DIE: the rest of the unit is read in its place.
PointerRight ==
  Plain /\ pc \in {"readFromPointer", "done"} => debugInfo = EndOf(object, Len(die.info))

\* The datum a value should become: a location is not represented, and strp holds
\* where a string is.
DatumOf(form, v, string) ==
  CASE form = "exprloc"      -> Number(Word(0))
    [] form = "flag_present" -> Number(Word(1))
    [] form = "string"       -> Str(v)
    [] form = "strp"         -> Str(string)
    [] form \in Numbers      -> Number(Word(v))
    [] OTHER                 -> Number([k \in 1..8 |-> IF k <= FixedSize(AddrSize)[form] THEN v[k] ELSE 0])

\* The string of attribute i can be found: not the first string of an object
\* whose offsets are not relocated in .rela.debug_info.
Findable(i) == FormOf(i) = "strp" => object.strings[i].findable

\* Every attribute has the value the compiler gave it; a string is that of its own
\* field, in relocatable objects and in linked ones, or none if it cannot be found,
\* but never another one.
ValuesRight ==
  Plain /\ pc \in {"readFromPointer", "done"} =>
    \A i \in DOMAIN die.info :
      \/ die.info[i] = DatumOf(FormOf(i), Values[i], object.strings[i].text)
      \/ ~Findable(i) /\ die.info[i] = Str(<< >>)

\* No object is refused, and the process only aborts for an attribute of a vendor, a
\* signed number, a block or an indirect form, or in a file without its string section
\* or with relocations of another machine.
KnownFailures ==
  Plain /\ pc \in {"error", "abort"} =>
    /\ pc = "abort"
    /\ \/ \E c \in DOMAIN object.abbrevs : \E i \in DOMAIN object.abbrevs[c].attributes :
            object.abbrevs[c].attributes[i].at \in VendorAttributes
       \/ \E i \in DOMAIN Values : FormOf(i) \in {"sdata", "block", "indirect"}
       \/ \E i \in DOMAIN Values : FormOf(i) = "strp" /\ ~object.strings[i].findable
==============================================================================
