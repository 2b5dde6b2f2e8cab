------------------------------ MODULE ELFReader ------------------------------
(***************************************************************************)
(* ELFReaderImpl of lib/Binfmt/ELF.cpp: sections found by their name, and  *)
(* the relocations of .debug_info followed to what they stand for.         *)
(*                                                                         *)
(* A file is a record of the ELF header (shoff, shstrndx) and the section  *)
(* headers, `sections`.  A section has a name, the offset of its contents  *)
(* in the file, and what they are: relocations, symbols, or the strings    *)
(* that begin at an offset in it.                                          *)
(***************************************************************************)
EXTENDS Integers, Sequences, SequencesExt

Relocation == [r_offset: Nat, type: Nat, sym: Nat, r_addend: Nat]
Symbol     == [st_shndx: Nat, st_value: Nat]

R_X86_64_64 == 1
R_X86_64_32 == 10

\* ErrorOr<uint64_t>, or the assertion that fails.
Value(v) == [is |-> "value", value |-> v]
Err      == [is |-> "error", value |-> 0]
Abort    == [is |-> "abort", value |-> 0]

HasShdrTable(file) == file.shoff # 0 /\ file.shstrndx < Len(file.sections)

\* getSectionHeader: 0 if there is an error.
SectionHeader(file, name) ==
  IF HasShdrTable(file) THEN SelectInSeq(file.sections, LAMBDA s : s.name = name) ELSE 0

\* getSection: NULL for a section that is not found, else a position in the file.
NULL == 0
Section(file, name) ==
  LET i == SectionHeader(file, name) IN IF i = 0 THEN NULL ELSE file.sections[i].offset

RelocForOffset(section, offset) == SelectInSeq(section.relocs, LAMBDA r : r.r_offset = offset)

\* In a relocatable object the value of a symbol counts from its section.
SymValue(file, sym) ==
  IF sym.st_shndx >= Len(file.sections) THEN Err
  ELSE Value(file.sections[sym.st_shndx + 1].offset + sym.st_value)

ResolveLocalDefinedReloc(file, rel) ==
  LET symtab == SectionHeader(file, ".symtab") IN
  IF symtab = 0 THEN Err
  ELSE IF rel.type \notin {R_X86_64_32, R_X86_64_64} THEN Abort
  ELSE IF rel.sym >= Len(file.sections[symtab].syms) THEN Err
  ELSE SymValue(file, file.sections[symtab].syms[rel.sym + 1])

\* The position in the file of what the field at an offset of a section refers
\* to; relaName is the name of the section with the relocations of that section.
AttemptResolveLocalReloc(file, relaName, offset) ==
  LET rela == SectionHeader(file, relaName)
      i    == RelocForOffset(file.sections[rela], offset)
  IN  IF rela = 0 THEN Err
      ELSE IF i = 0 THEN Err
      ELSE LET rel == file.sections[rela].relocs[i]
               at  == ResolveLocalDefinedReloc(file, rel)
           IN  IF at.is = "value" THEN Value(at.value + rel.r_addend) ELSE at

\* What is at a position of the file where no known string begins.
Garbage == <<63, 63>>

\* The C string at a position of the file, as the bytes before its null.
StringAt(file, pos) ==
  LET i == SelectInSeq(file.sections, LAMBDA s : pos - s.offset \in DOMAIN s.strings) IN
  IF i = 0 THEN Garbage ELSE file.sections[i].strings[pos - file.sections[i].offset]
==============================================================================
