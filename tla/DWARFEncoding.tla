---------------------------- MODULE DWARFEncoding ----------------------------
(***************************************************************************)
(* The bytes the DWARF standard (version 4) gives to abbreviations and to  *)
(* the values of attributes: what compilers write, and what the reader is  *)
(* compared with.  Nothing here is taken from the reader.                  *)
(***************************************************************************)
EXTENDS Integers, Sequences, SequencesExt

\* A number as the eight bytes of a uint64_t, the lowest first.
Word(n) == <<n % 256, (n \div 256) % 256, (n \div 65536) % 256, n \div 16777216, 0, 0, 0, 0>>

Low(word, size) == SubSeq(word, 1, size)

\* Seven bits a byte; all bytes but the last have the high bit.
ULEB128(n) ==
  IF n < 128 THEN <<n>>
  ELSE IF n < 16384 THEN <<128 + (n % 128), n \div 128>>
  ELSE <<128 + (n % 128), 128 + ((n \div 128) % 128), n \div 16384>>

\* The code of each form.
FormCode ==
  [addr |-> 1, block2 |-> 3, block4 |-> 4, data2 |-> 5, data4 |-> 6, data8 |-> 7,
   string |-> 8, block |-> 9, block1 |-> 10, data1 |-> 11, flag |-> 12, sdata |-> 13,
   strp |-> 14, udata |-> 15, ref_addr |-> 16, ref1 |-> 17, ref2 |-> 18, ref4 |-> 19,
   ref8 |-> 20, ref_udata |-> 21, indirect |-> 22, sec_offset |-> 23, exprloc |-> 24,
   flag_present |-> 25, ref_sig8 |-> 32]

Forms == DOMAIN FormCode

\* Forms with a size of their own; addresses have that of the machine.
FixedSize(addrSize) ==
  [data1 |-> 1, flag |-> 1, ref1 |-> 1, data2 |-> 2, ref2 |-> 2, data4 |-> 4, ref4 |-> 4,
   data8 |-> 8, ref8 |-> 8, ref_sig8 |-> 8, ref_addr |-> 4, sec_offset |-> 4, strp |-> 4,
   flag_present |-> 0, addr |-> addrSize]

Fixed   == DOMAIN FixedSize(8)
Numbers == {"udata", "ref_udata", "sdata"}   \* sdata of numbers up to 63

\* The bytes of a value.  Numbers of a fixed size are words, other numbers are
\* naturals, blocks and strings are sequences of bytes.
Bytes(form, v, addrSize) ==
  CASE form \in Fixed     -> Low(v, FixedSize(addrSize)[form])
    [] form \in Numbers   -> ULEB128(v)
    [] form = "indirect"  -> <<FormCode.udata>> \o ULEB128(v)
    [] form = "string"    -> v \o <<0>>
    [] form = "block1"    -> <<Len(v)>> \o v
    [] form = "block2"    -> Low(Word(Len(v)), 2) \o v
    [] form = "block4"    -> Low(Word(Len(v)), 4) \o v
    [] OTHER              -> ULEB128(Len(v)) \o v     \* block, exprloc

\* A row of .debug_abbrev: its code, tag, whether it has children, and the name
\* and form of each attribute.
AbbrevBytes(code, abbrev) ==
  ULEB128(code) \o ULEB128(abbrev.tag) \o <<IF abbrev.children THEN 1 ELSE 0>>
    \o FlattenSeq([i \in 1..Len(abbrev.attributes) |->
         ULEB128(abbrev.attributes[i].at) \o ULEB128(FormCode[abbrev.attributes[i].form])])
    \o <<0, 0>>

AbbrevTableBytes(abbrevs) ==
  FlattenSeq([c \in 1..Len(abbrevs) |-> AbbrevBytes(c, abbrevs[c])]) \o <<0>>

\* The values of a form: words, naturals, strings without a null, bytes.
Byte == 0..255

ValuesOf(form) ==
  CASE form \in Fixed                     -> [1..8 -> Byte]
    [] form \in Numbers \cup {"indirect"} -> Nat
    [] form = "string"                    -> Seq(1..255)
    [] OTHER                              -> Seq(Byte)

\* Attributes and tags of vendors lie in ranges of their own.
VendorAttributes == 8192..16383
VendorTags       == 16512..65535

Attribute    == [at: 1..127 \cup VendorAttributes, form: Forms]
Abbreviation == [tag: 1..127 \cup VendorTags, children: BOOLEAN, attributes: Seq(Attribute)]
==============================================================================
