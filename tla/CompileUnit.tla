----------------------------- MODULE CompileUnit -----------------------------
(***************************************************************************)
(* The input of the DWARF reader: one compilation unit, as a compiler      *)
(* writes it.                                                              *)
(*                                                                         *)
(* A unit is a record.  Its bytes are `body` (what follows the header in   *)
(* .debug_info, one number per byte, the first at position 1) and          *)
(* `beyond` (the byte in memory after the unit).  `abbrevs` lists the      *)
(* declarations of .debug_abbrev.  The values of the attributes of a DIE   *)
(* are abstracted to the number of bytes they take, the `width` of its     *)
(* abbreviation; what these bytes hold is arbitrary.                       *)
(*                                                                         *)
(* `entries` is what the compiler meant by the bytes: the DIEs in the      *)
(* order they are written, each with its position, its depth in the tree   *)
(* and the number of end-of-children marks (null bytes) that follow it.    *)
(* The reader never sees `entries`; the properties compare with them.      *)
(***************************************************************************)
EXTENDS Integers, Sequences

CONSTANTS Tags,           \* the DW_TAG values
          Padding,        \* DW_TAG_padding, the tag with value 0
          ReservedLength  \* 0xfffffff0: unit lengths from here on are reserved

ASSUME PaddingIsTag == Padding \in Tags

HeaderSize == 7   \* bytes of the header after the length: version 2, abbrev offset 4, address size 1

\* A row of .debug_abbrev.
Declarations == [code: Nat, tag: Tags, children: BOOLEAN, width: Nat]

Entries == [at: Nat, code: Nat, depth: Nat, marks: Nat]

DeclOf(u, i)   == u.abbrevs[u.entries[i].code]
AttrEnd(u, i)  == u.entries[i].at + 1 + DeclOf(u, i).width
EntryEnd(u, i) == AttrEnd(u, i) + u.entries[i].marks
Opens(u, i)    == IF DeclOf(u, i).children THEN 1 ELSE 0

\* Abbreviation codes count up from 1, in the order of the declarations, and are few
\* enough to be one byte each: from 128 on they are two, of which the reader takes one.
NumberedAbbrevs(u) ==
  /\ Len(u.abbrevs) < 128
  /\ \A c \in 1..Len(u.abbrevs) : u.abbrevs[c].code = c

\* The header is one the reader accepts for an object of this address size.
GoodHeader(u, addrSize) ==
  /\ u.hasSections
  /\ ~u.dwarf64
  /\ u.length = HeaderSize + Len(u.body) /\ u.length < ReservedLength
  /\ u.version \in 2..4
  /\ u.addrSize = addrSize

\* The entries are the bytes: codes where entries start, nulls where marks are.
BytesAgree(u) ==
  LET n == Len(u.entries) IN
  /\ \A i \in 1..n :
       /\ u.entries[i].at \in 1..Len(u.body)
       /\ u.entries[i].code \in 1..Len(u.abbrevs)
       /\ u.body[u.entries[i].at] = u.entries[i].code
       /\ \A p \in AttrEnd(u, i)..(EntryEnd(u, i) - 1) : u.body[p] = 0
  /\ \A i \in 1..(n - 1) : u.entries[i + 1].at = EntryEnd(u, i)
  /\ \A i, j \in 1..n : i < j => u.entries[i].at < u.entries[j].at
  /\ EntryEnd(u, n) = Len(u.body) + 1

\* The marks close the tree: one root, of which everything else is a descendant.
DepthsAgree(u) ==
  LET n == Len(u.entries) IN
  /\ u.entries[1].at = 1 /\ u.entries[1].depth = 0
  /\ DeclOf(u, 1).width > 0          \* a compile_unit DIE has attributes
  /\ \A i \in 1..(n - 1) :
       /\ u.entries[i + 1].depth = u.entries[i].depth + Opens(u, i) - u.entries[i].marks
       /\ u.entries[i + 1].depth > 0
  /\ u.entries[n].depth + Opens(u, n) = u.entries[n].marks

WellFormed(u, addrSize) ==
  /\ u.entries # << >>
  /\ NumberedAbbrevs(u)
  /\ GoodHeader(u, addrSize)
  /\ BytesAgree(u)
  /\ DepthsAgree(u)

\* No two end-of-children marks are adjacent: no two subtrees end at one DIE.
NoAdjacentMarks(u) == \A i \in 1..Len(u.entries) : u.entries[i].marks <= 1

\* Entry i is the parent of entry j: the last entry before j one level up.
IsParent(u, i, j) ==
  /\ i < j
  /\ u.entries[i].depth + 1 = u.entries[j].depth
  /\ \A k \in (i + 1)..(j - 1) : u.entries[k].depth >= u.entries[j].depth
==============================================================================
