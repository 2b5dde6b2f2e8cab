---------------------------- MODULE MCDWARFForms ----------------------------
(***************************************************************************)
(* Objects with one DIE of up to two attributes of every form (three, of   *)
(* some), in files where its strings are found in different ways.          *)
(***************************************************************************)
EXTENDS DWARFForms, TLC

Ones(n)  == [k \in 1..8 |-> IF k <= n THEN 255 ELSE 0]
Block(n) == [k \in 1..n |-> 7]

\* The strings of .debug_str.
OffsetIn == [ab |-> 0, c |-> 3]
Text     == [ab |-> <<97, 98>>, c |-> <<99>>]
Strings  == (0 :> Text.ab) @@ (3 :> Text.c)

Choice(at, form, v) == [at |-> at, form |-> form, v |-> v]

Fields == {Choice(73, f, Ones(8)) : f \in Fixed \ {"strp"}} \cup {Choice(73, f, Word(0)) : f \in {"data4", "ref4", "addr"}}

StrpFields == {Choice(3, "strp", s) : s \in DOMAIN Text}

OtherFields ==
  {Choice(11, f, n) : f \in {"udata", "ref_udata"}, n \in {0, 127, 128, 20000}}
    \cup {Choice(28, f, 5) : f \in {"sdata", "indirect"}}
    \cup {Choice(2, f, Block(n)) : f \in {"block", "block1", "block2", "block4"}, n \in {0, 2}}
    \cup {Choice(2, "exprloc", Block(n)) : n \in {0, 9, 127, 128}}
    \cup {Choice(3, "string", s) : s \in {<< >>, Text.ab}}

AllFields == Fields \cup StrpFields \cup OtherFields

Vendors == {Choice(at, f, Ones(1)) : at \in {8192, 8470, 16383}, f \in {"flag_present", "data1"}}

\* How the strings are found, or why they are not.
FileKinds == {"relocatable", "local symbols", "linked", "no .debug_str", "no relocation",
              "other machine", "no symbols", "bad symbol", "bad section"}

HasStrp(fs) == \E i \in DOMAIN fs : fs[i].form = "strp"

Relocates(kind) == kind \notin {"linked", "no .debug_str"}

\* What is written in a field.
Written(f, kind) ==
  IF f.form # "strp" THEN f.v ELSE IF Relocates(kind) THEN Word(0) ELSE Word(OffsetIn[f.v])

InfoBytes(fs, kind) == <<2>> \o FlattenSeq([i \in 1..Len(fs) |-> Bytes(fs[i].form, Written(fs[i], kind), AddrSize)])

FieldAt(fs, i, kind) == OffsetOf(Len(InfoBytes(SubSeq(fs, 1, i - 1), kind)) + 1)

\* The relocation of field i; the last field comes first.
Reloc(fs, i, kind) ==
  [r_offset |-> FieldAt(fs, i, kind),
   type     |-> IF kind = "other machine" THEN 258 ELSE ELF!R_X86_64_32,
   sym      |-> CASE kind = "bad symbol" -> 9 [] kind = "bad section" -> 2
                  [] kind = "local symbols" /\ fs[i].v = "c" -> 3 [] OTHER -> 1,
   r_addend |-> IF kind = "local symbols" THEN 0 ELSE OffsetIn[fs[i].v]]

\* There is one for every field that has bytes.
Relocs(fs, kind) ==
  LET ks == SelectSeq([k \in 1..Len(fs) |-> k], LAMBDA k : fs[k].form # "flag_present")
  IN  Reverse([j \in 1..Len(ks) |->
        IF fs[ks[j]].form = "strp" THEN Reloc(fs, ks[j], kind)
        ELSE [r_offset |-> FieldAt(fs, ks[j], kind), type |-> ELF!R_X86_64_64, sym |-> 0, r_addend |-> 0]])

Sec(name, offset) == [name |-> name, offset |-> offset, relocs |-> << >>, syms |-> << >>, strings |-> << >>]

ELFFile(fs, kind) ==
  [shoff |-> 64, shstrndx |-> 0, sections |->
     << Sec(".shstrtab", 900), Sec(".debug_info", 100),
        [Sec(IF kind = "no .debug_str" THEN ".debug_line_str" ELSE ".debug_str", 300)
           EXCEPT !.strings = Strings],
        [Sec(IF kind = "no symbols" THEN ".dynsym" ELSE ".symtab", 500) EXCEPT !.syms =
           <<[st_shndx |-> 0, st_value |-> 0], [st_shndx |-> 2, st_value |-> 0],
             [st_shndx |-> 65521, st_value |-> 0], [st_shndx |-> 2, st_value |-> 3]>>] >>
     \o IF Relocates(kind) /\ kind # "no relocation"
        THEN <<[Sec(".rela.debug_info", 700) EXCEPT !.relocs = Relocs(fs, kind)]>> ELSE << >>]

Found(f, kind) ==
  /\ f.form = "strp"
  /\ kind \in {"relocatable", "local symbols"} \/ (kind = "linked" /\ f.v # "ab")

Declared(fs) == [i \in 1..Len(fs) |-> [at |-> fs[i].at, form |-> fs[i].form]]

\* An object whose DIE has these fields, with a tag, and vendors in the unit's abbreviation.
ObjectOf(fs, kind, tag, vendors) ==
  LET abbrevs == <<[tag |-> 17, children |-> TRUE, attributes |-> Declared(vendors)],
                   [tag |-> tag, children |-> FALSE, attributes |-> Declared(fs)]>>
  IN  [abbrevs |-> abbrevs, code |-> 2,
       values  |-> [i \in 1..Len(fs) |-> Written(fs[i], kind)],
       strings |-> [i \in 1..Len(fs) |->
          [findable |-> Found(fs[i], kind), text |-> IF fs[i].form = "strp" THEN Text[fs[i].v] ELSE << >>]],
       abbrev  |-> AbbrevTableBytes(abbrevs),
       info    |-> InfoBytes(fs, kind),
       file    |-> ELFFile(fs, kind)]

FieldLists ==
  {<<f, g>> : f \in AllFields, g \in AllFields} \cup {<<f>> : f \in AllFields}
    \cup {<<f, g, h>> : f \in StrpFields \cup Fields, g \in StrpFields, h \in StrpFields}

Variable == 52

WrittenObjects ==
  {ObjectOf(fs, "relocatable", Variable, << >>) : fs \in {l \in FieldLists : ~HasStrp(l)}}
    \cup {ObjectOf(fs, kind, Variable, << >>) : fs \in {l \in FieldLists : HasStrp(l)}, kind \in FileKinds}
    \cup {ObjectOf(<<f>>, "linked", tag, v) :
            f \in StrpFields \cup Vendors, tag \in {Variable, 16649}, v \in {<<g>> : g \in Vendors}}

\* What the properties are about: nothing of these is excluded by how they are made.
ASSUME ObjectsAssumption == \A o \in WrittenObjects : AsWritten(o)

\* Those, and some with a code no abbreviation has, or with codes out of order.
AllObjects ==
  WrittenObjects
    \cup {[ObjectOf(<<f>>, "linked", Variable, << >>) EXCEPT !.info = <<9>>] : f \in StrpFields}
    \cup {[ObjectOf(<<f>>, "linked", Variable, << >>) EXCEPT !.abbrev[1] = 2] : f \in StrpFields}
==============================================================================
