--------------------------- MODULE FileOwnerProofs ---------------------------
(***************************************************************************)
(* Proofs about FileOwner.tla: who owns a mapping, and which descriptors   *)
(* are open, whatever the objects, addresses, descriptors and files.       *)
(***************************************************************************)
EXTENDS FileOwner, TLAPS

USE FilesAssumption

------------------------------------------------------------------------------
(* The inductive invariant *)

\* While open holds a descriptor it is the only one more than those that failed.
FdInv ==
  IF pc \in {"fstat", "mmap", "close"}
  THEN fd \in Fds \ statFailed /\ openFds = statFailed \cup {fd}
  ELSE openFds = statFailed

\* Errors own nothing, nor does the temporary, but when the result is constructed
\* of it; nor what open is to return to before it does.
HoldInv ==
  /\ \A o \in Objects : objs[o].kind \in {"none", "error"} => objs[o].map = MapFailed
  /\ pc # "construct" => objs[Temp].map = MapFailed
  /\ pc \in {"open", "fstat", "mmap", "close", "return", "construct"} =>
       dst # Temp /\ objs[dst].map = MapFailed

\* What open has mapped and not handed out yet belongs to no object.
PendingInv ==
  pc \in {"close", "return"} /\ mapping # MapFailed =>
    /\ mapped[mapping] # Unmapped
    /\ \A o \in Objects : ~Owns(o, mapping)

IInv == TypeOK /\ SoleOwner /\ OwnedIsMapped /\ NothingLeaks /\ FdInv /\ HoldInv /\ PendingInv

------------------------------------------------------------------------------
(* Objects *)

\* The objects after a move: the map has gone from one to the other.
LEMMA MovedIs ==
  ASSUME objs \in [Objects -> [kind: Kinds, map: Addrs \cup {MapFailed}]],
         NEW to \in Objects, NEW from \in Objects, to # from, NEW kind \in Kinds
  PROVE  /\ Moved(to, from, kind) \in [Objects -> [kind: Kinds, map: Addrs \cup {MapFailed}]]
         /\ Moved(to, from, kind)[to] = Object(kind, objs[from].map)
         /\ Moved(to, from, kind)[from] = Object(objs[from].kind, MapFailed)
         /\ \A o \in Objects \ {to, from} : Moved(to, from, kind)[o] = objs[o]
BY DEF Moved, Object

\* The objects after one has been set.
LEMMA SetIs ==
  ASSUME objs \in [Objects -> [kind: Kinds, map: Addrs \cup {MapFailed}]],
         NEW o \in Objects, NEW kind \in Kinds
  PROVE  LET set == [objs EXCEPT ![o] = Object(kind, MapFailed)] IN
         /\ set \in [Objects -> [kind: Kinds, map: Addrs \cup {MapFailed}]]
         /\ set[o] = Object(kind, MapFailed)
         /\ \A p \in Objects \ {o} : set[p] = objs[p]
BY DEF Object

\* The mappings after an object that owns what is mapped has released its own.
LEMMA ReleasedIs ==
  ASSUME TypeOK, OwnedIsMapped, NEW o \in Objects
  PROVE  /\ Released(o) \in [Addrs -> Contents \cup {Unmapped}]
         /\ \A a \in Addrs : Released(o)[a] = IF Owns(o, a) THEN Unmapped ELSE mapped[a]
         /\ MunmapOK(o)
<1> USE DEF TypeOK, Owns
<1>1. CASE objs[o].map = MapFailed
  BY <1>1 DEF Released, MunmapOK
<1>2. CASE objs[o].map # MapFailed
  <2>1. objs[o].map \in Addrs /\ mapped[objs[o].map] # Unmapped
    BY <1>2 DEF OwnedIsMapped
  <2> QED BY <1>2, <2>1 DEF Released, MunmapOK
<1> QED BY <1>1, <1>2

------------------------------------------------------------------------------
(* The initial states *)

LEMMA InitIInv == Init => IInv
BY DEF Init, IInv, TypeOK, SoleOwner, OwnedIsMapped, NothingLeaks, FdInv, HoldInv, PendingInv,
   Owns, Dead, Object, Kinds

------------------------------------------------------------------------------
(* The steps of open *)

\* Returning an error changes the owner of nothing.
LEMMA FailIInv == ASSUME IInv, Fail, pc \in {"open", "fstat", "return"},
                         UNCHANGED <<mapped, locals>>,
                         openFds' = statFailed', statFailed' \subseteq Fds,
                         pc = "return" => mapping = MapFailed
                  PROVE  IInv'
<1> USE DEF IInv, TypeOK, locals
<1>1. dst \in Objects /\ objs[dst].map = MapFailed /\ dst # Temp
  BY DEF HoldInv
<1>2. /\ objs' \in [Objects -> [kind: Kinds, map: Addrs \cup {MapFailed}]]
      /\ objs'[dst] = Object("error", MapFailed)
      /\ \A p \in Objects \ {dst} : objs'[p] = objs[p]
  BY <1>1, SetIs, "error" \in Kinds DEF Fail, Error, Kinds
<1>3. \A o \in Objects : objs'[o].map = objs[o].map
  BY <1>1, <1>2 DEF Object
<1>4. TypeOK'
  BY <1>2 DEF Fail
<1>5. SoleOwner' /\ OwnedIsMapped'
  BY <1>3 DEF SoleOwner, OwnedIsMapped, Owns, Fail
<1>6. NothingLeaks'
  BY <1>3 DEF NothingLeaks, Owns, Fail
<1>7. FdInv' /\ PendingInv'
  BY DEF FdInv, PendingInv, Fail
<1>8. HoldInv'
  BY <1>1, <1>2, <1>3 DEF HoldInv, Fail, Object
<1> QED BY <1>4, <1>5, <1>6, <1>7, <1>8

LEMMA OpenIInv == ASSUME IInv, OpenStep PROVE IInv'
<1> USE DEF IInv
<1>1. CASE OpenFails
  BY <1>1, FailIInv DEF OpenFails, FdInv, TypeOK
<1>2. CASE OpenFile
  <2> USE <1>2 DEF OpenFile
  <2>1. TypeOK' BY DEF TypeOK
  <2>2. SoleOwner' /\ OwnedIsMapped' /\ NothingLeaks'
    BY DEF SoleOwner, OwnedIsMapped, NothingLeaks, Owns
  <2>3. FdInv' BY DEF FdInv
  <2>4. HoldInv' /\ PendingInv' BY DEF HoldInv, PendingInv
  <2> QED BY <2>1, <2>2, <2>3, <2>4
<1>3. CASE FstatFails
  BY <1>3, FailIInv DEF FstatFails, FdInv, TypeOK
<1>4. CASE Fstat
  BY <1>4 DEF Fstat, TypeOK, SoleOwner, OwnedIsMapped, NothingLeaks, FdInv, HoldInv, PendingInv,
     Owns, locals
<1>5. CASE Mmap
  <2> USE <1>5 DEF Mmap
  <2>1. CASE mapping' = MapFailed /\ UNCHANGED mapped
    BY <2>1 DEF TypeOK, SoleOwner, OwnedIsMapped, NothingLeaks, FdInv, HoldInv, PendingInv, Owns
  <2>2. ASSUME NEW a \in Addrs, NEW c \in Contents, mapped[a] = Unmapped, c.size > 0,
               mapping' = a, mapped' = [mapped EXCEPT ![a] = c]
        PROVE  IInv'
    <3>1. mapped \in [Addrs -> Contents \cup {Unmapped}] /\ c # Unmapped
      BY <2>2 DEF TypeOK, Unmapped
    <3>2. mapped'[a] = c /\ \A b \in Addrs \ {a} : mapped'[b] = mapped[b]
      BY <2>2, <3>1
    <3>3. \A o \in Objects : ~Owns(o, a)
      BY <2>2 DEF OwnedIsMapped
    <3>4. TypeOK'
      BY <2>2, <3>1 DEF TypeOK
    <3>5. SoleOwner' /\ OwnedIsMapped' /\ NothingLeaks'
      BY <2>2, <3>1, <3>2, <3>3 DEF SoleOwner, OwnedIsMapped, NothingLeaks, Owns
    <3>6. FdInv' /\ HoldInv'
      BY DEF FdInv, HoldInv
    <3>7. PendingInv'
      BY <2>2, <3>1, <3>2, <3>3 DEF PendingInv, Owns
    <3> QED BY <3>4, <3>5, <3>6, <3>7
  <2> QED BY <2>1, <2>2
<1>6. CASE Close
  <2> USE <1>6 DEF Close, locals
  <2>1. TypeOK' BY DEF TypeOK
  <2>2. SoleOwner' /\ OwnedIsMapped' /\ NothingLeaks'
    BY DEF SoleOwner, OwnedIsMapped, NothingLeaks, Owns
  <2>3. FdInv' BY DEF FdInv
  <2>4. HoldInv' /\ PendingInv' BY DEF HoldInv, PendingInv, Owns
  <2> QED BY <2>1, <2>2, <2>3, <2>4
<1>7. CASE MmapFailed
  BY <1>7, FailIInv DEF MmapFailed, FdInv, TypeOK
<1>8. CASE MakeTemporary
  <2> USE <1>8 DEF MakeTemporary, locals
  <2>1. objs \in [Objects -> [kind: Kinds, map: Addrs \cup {MapFailed}]] /\ mapping \in Addrs
    BY DEF TypeOK
  <2>2. objs'[Temp] = Object("reader", mapping) /\ \A o \in Objects \ {Temp} : objs'[o] = objs[o]
    BY <2>1
  <2>3. TypeOK' BY <2>1 DEF TypeOK, Object, Kinds
  <2>4. mapped[mapping] # Unmapped /\ \A o \in Objects : ~Owns(o, mapping)
    BY DEF PendingInv
  <2>5. objs[Temp].map = MapFailed /\ dst \in Objects \ {Temp}
    BY DEF HoldInv, TypeOK
  <2>6. SoleOwner' /\ OwnedIsMapped'
    BY <2>1, <2>2, <2>4 DEF SoleOwner, OwnedIsMapped, Owns, Object
  <2>7. NothingLeaks'
    BY <2>1, <2>2, <2>5 DEF NothingLeaks, Owns, Object
  <2>8. FdInv' /\ PendingInv' BY DEF FdInv, PendingInv
  <2>9. HoldInv' BY <2>2, <2>5 DEF HoldInv, Object
  <2> QED BY <2>3, <2>6, <2>7, <2>8, <2>9
<1>9. CASE ConstructResult
  <2> USE <1>9 DEF ConstructResult, locals
  <2>1. dst \in Objects /\ dst # Temp /\ objs[dst].map = MapFailed
    BY DEF HoldInv, TypeOK
  <2>2. /\ objs' \in [Objects -> [kind: Kinds, map: Addrs \cup {MapFailed}]]
        /\ objs'[dst] = Object("value", objs[Temp].map)
        /\ objs'[Temp] = Object(objs[Temp].kind, MapFailed)
        /\ \A o \in Objects \ {dst, Temp} : objs'[o] = objs[o]
    BY <2>1, MovedIs, "value" \in Kinds DEF TypeOK, Kinds
  <2>3. TypeOK' BY <2>2 DEF TypeOK
  <2>4. SoleOwner' /\ OwnedIsMapped' /\ NothingLeaks'
    BY <2>1, <2>2 DEF SoleOwner, OwnedIsMapped, NothingLeaks, Owns, Object
  <2>5. FdInv' /\ PendingInv' BY DEF FdInv, PendingInv
  <2>6. HoldInv' BY <2>1, <2>2 DEF HoldInv, Object
  <2> QED BY <2>3, <2>4, <2>5, <2>6
<1>10. CASE DestroyTemporary
  <2> USE <1>10 DEF DestroyTemporary, locals
  <2>1. objs[Temp].map = MapFailed BY DEF HoldInv
  <2>2. mapped' = mapped /\ pc' = "client"
    BY <2>1 DEF Released, AfterMunmap, MunmapOK
  <2>3. /\ objs' \in [Objects -> [kind: Kinds, map: Addrs \cup {MapFailed}]]
        /\ objs'[Temp] = Object("none", MapFailed)
        /\ \A p \in Objects \ {Temp} : objs'[p] = objs[p]
    BY SetIs, "none" \in Kinds DEF Dead, TypeOK, Kinds
  <2>4. TypeOK' BY <2>2, <2>3 DEF TypeOK
  <2>5. SoleOwner' /\ OwnedIsMapped' /\ NothingLeaks'
    BY <2>1, <2>2, <2>3 DEF SoleOwner, OwnedIsMapped, NothingLeaks, Owns, Object
  <2>6. FdInv' /\ PendingInv' /\ HoldInv'
    BY <2>1, <2>2, <2>3 DEF FdInv, PendingInv, HoldInv, Object
  <2> QED BY <2>4, <2>5, <2>6
<1> QED BY <1>1, <1>2, <1>3, <1>4, <1>5, <1>6, <1>7, <1>8, <1>9, <1>10 DEF OpenStep

------------------------------------------------------------------------------
(* The steps of the client *)

\* A move from one object to another that owned nothing, or has released it.
LEMMA MoveIInv ==
  ASSUME IInv, pc = "client", NEW to \in Objects \ {Temp}, NEW from \in Objects \ {Temp}, to # from,
         objs[from].kind = "value", NEW kind \in {"value", "reader"},
         objs' = Moved(to, from, kind),
         mapped' = Released(to), pc' = "client",
         UNCHANGED <<openFds, statFailed, locals>>
  PROVE  IInv'
<1> USE DEF IInv, locals
<1>1. /\ objs' \in [Objects -> [kind: Kinds, map: Addrs \cup {MapFailed}]]
      /\ objs'[to] = Object(kind, objs[from].map)
      /\ objs'[from] = Object(objs[from].kind, MapFailed)
      /\ \A o \in Objects \ {to, from} : objs'[o] = objs[o]
  BY MovedIs, {"value", "reader"} \subseteq Kinds DEF TypeOK, Kinds
<1>2. /\ mapped' \in [Addrs -> Contents \cup {Unmapped}]
      /\ \A a \in Addrs : mapped'[a] = IF Owns(to, a) THEN Unmapped ELSE mapped[a]
  BY ReleasedIs
<1>3. TypeOK'
  BY <1>1, <1>2 DEF TypeOK
<1>4. SoleOwner'
  BY <1>1 DEF SoleOwner, Owns, Object
<1>5. OwnedIsMapped'
  BY <1>1, <1>2 DEF SoleOwner, OwnedIsMapped, Owns, Object
<1>6. NothingLeaks'
  BY <1>1, <1>2 DEF NothingLeaks, Owns, Object
<1>7. FdInv' /\ PendingInv'
  BY DEF FdInv, PendingInv
<1>8. HoldInv'
  BY <1>1 DEF HoldInv, Object
<1> QED BY <1>3, <1>4, <1>5, <1>6, <1>7, <1>8

\* An object becomes one that owns nothing, and has released what it owned.
LEMMA ReleaseIInv ==
  ASSUME IInv, pc = "client", NEW o \in Objects \ {Temp}, NEW kind \in {"none", "error"},
         objs' = [objs EXCEPT ![o] = Object(kind, MapFailed)],
         mapped' = Released(o), pc' = "client",
         UNCHANGED <<openFds, statFailed, locals>>
  PROVE  IInv'
<1> USE DEF IInv, locals
<1>1. /\ objs' \in [Objects -> [kind: Kinds, map: Addrs \cup {MapFailed}]]
      /\ objs'[o] = Object(kind, MapFailed)
      /\ \A p \in Objects \ {o} : objs'[p] = objs[p]
  BY SetIs, {"none", "error"} \subseteq Kinds DEF TypeOK, Kinds
<1>2. /\ mapped' \in [Addrs -> Contents \cup {Unmapped}]
      /\ \A a \in Addrs : mapped'[a] = IF Owns(o, a) THEN Unmapped ELSE mapped[a]
  BY ReleasedIs
<1>3. TypeOK'
  BY <1>1, <1>2 DEF TypeOK
<1>4. SoleOwner' /\ OwnedIsMapped'
  BY <1>1, <1>2 DEF SoleOwner, OwnedIsMapped, Owns, Object
<1>5. NothingLeaks'
  BY <1>1, <1>2 DEF NothingLeaks, Owns, Object
<1>6. FdInv' /\ PendingInv' /\ HoldInv'
  BY <1>1 DEF FdInv, PendingInv, HoldInv, Object
<1> QED BY <1>3, <1>4, <1>5, <1>6

\* Nothing is released of an object that owns nothing.
LEMMA EmptyReleases ==
  ASSUME NEW o, objs[o].map = MapFailed
  PROVE  Released(o) = mapped
BY DEF Released

\* The assertion of the destructor holds, so that the client goes on.
LEMMA MunmapHolds ==
  ASSUME IInv, NEW o \in Objects
  PROVE  AfterMunmap(o, "client") = "client"
BY ReleasedIs DEF IInv, AfterMunmap

LEMMA ClientIInv == ASSUME IInv, ClientStep PROVE IInv'
<1>1. ASSUME NEW o \in Objects, CallOpen(o) PROVE IInv'
  <2> USE <1>1 DEF CallOpen, IInv
  <2>1. objs[o].map = MapFailed
    BY DEF HoldInv
  <2>2. TypeOK' /\ SoleOwner' /\ OwnedIsMapped' /\ NothingLeaks'
    BY DEF TypeOK, SoleOwner, OwnedIsMapped, NothingLeaks, Owns
  <2>3. FdInv' /\ HoldInv' /\ PendingInv'
    BY <2>1 DEF FdInv, HoldInv, PendingInv
  <2> QED BY <2>2, <2>3
<1>2. ASSUME NEW o \in Objects, Destroy(o) PROVE IInv'
  BY <1>2, ReleaseIInv, MunmapHolds DEF Destroy, Dead
<1>3. ASSUME NEW o \in Objects, NoReader(o) PROVE IInv'
  BY <1>3 DEF NoReader, vars, locals, IInv, TypeOK, SoleOwner, OwnedIsMapped, NothingLeaks, FdInv,
     HoldInv, PendingInv, Owns
<1>4. ASSUME NEW to \in Objects, NEW from \in Objects, MoveConstruct(to, from) PROVE IInv'
  <2>1. /\ to # Temp /\ from # Temp /\ to # from /\ objs[to].map = MapFailed
        /\ mapped' = Released(to) /\ pc = "client" /\ pc' = "client"
    BY <1>4, EmptyReleases DEF MoveConstruct, IsErrorOr, IInv, HoldInv
  <2>2. CASE objs[from].kind = "value"
    BY <1>4, <2>1, <2>2, MoveIInv DEF MoveConstruct, MoveConstructed
  <2>3. CASE objs[from].kind # "value"
    BY <1>4, <2>1, <2>3, ReleaseIInv DEF MoveConstruct, MoveConstructed, Error
  <2> QED BY <2>2, <2>3
<1>5. ASSUME NEW to \in Objects, NEW from \in Objects, MoveAssign(to, from) PROVE IInv'
  <2>1. to # Temp /\ from # Temp /\ to # from /\ pc = "client" /\ pc' = "client"
    BY <1>5, MunmapHolds DEF MoveAssign, IsErrorOr
  <2>2. CASE objs[from].kind = "value"
    BY <1>5, <2>1, <2>2, MoveIInv DEF MoveAssign, MoveConstructed
  <2>3. CASE objs[from].kind # "value"
    BY <1>5, <2>1, <2>3, ReleaseIInv DEF MoveAssign, MoveConstructed, Error
  <2> QED BY <2>2, <2>3
<1>6. ASSUME NEW to \in Objects, NEW from \in Objects, CreateReader(to, from) PROVE IInv'
  <2>1. /\ to # Temp /\ from # Temp /\ to # from /\ objs[to].map = MapFailed
        /\ mapped' = Released(to) /\ pc = "client" /\ pc' = "client" /\ objs[from].kind = "value"
    BY <1>6, EmptyReleases DEF CreateReader, Readable, IsErrorOr, IInv, HoldInv
  <2> QED BY <1>6, <2>1, MoveIInv DEF CreateReader
<1> QED BY <1>1, <1>2, <1>3, <1>4, <1>5, <1>6 DEF ClientStep

LEMMA NextIInv == IInv /\ [Next]_vars => IInv'
<1> SUFFICES ASSUME IInv, [Next]_vars PROVE IInv'
  OBVIOUS
<1>1. CASE UNCHANGED vars
  BY <1>1 DEF vars, locals, IInv, TypeOK, SoleOwner, OwnedIsMapped, NothingLeaks, FdInv, HoldInv,
     PendingInv, Owns
<1> QED BY <1>1, OpenIInv, ClientIInv DEF Next

------------------------------------------------------------------------------
(* The theorems *)

THEOREM Inductive == Spec => []IInv
BY InitIInv, NextIInv, PTL DEF Spec

\* Type correctness of FileReader, ErrorOr and the local variables of open.
THEOREM TypeCorrect == Spec => []TypeOK
<1>1. IInv => TypeOK
  BY DEF IInv
<1> QED BY <1>1, Inductive, PTL

\* No two objects ever unmap the same mapping, in whatever order files are opened,
\* moved, assigned and destroyed.
THEOREM OneOwner == Spec => []SoleOwner
<1>1. IInv => SoleOwner
  BY DEF IInv
<1> QED BY <1>1, Inductive, PTL

\* A file is not unmapped while an object owns it, and the assertion of the
\* destructor never fails.
THEOREM OwnedStaysMapped == Spec => []OwnedIsMapped
<1>1. IInv => OwnedIsMapped
  BY DEF IInv
<1> QED BY <1>1, Inductive, PTL

\* No mapping is ever lost.
THEOREM NoLeak == Spec => []NothingLeaks
<1>1. IInv => NothingLeaks
  BY DEF IInv
<1> QED BY <1>1, Inductive, PTL

\* The descriptors left open by open are exactly those of failed calls of fstat.
THEOREM DescriptorsAreClosed == Spec => []DescriptorsClosed
<1>1. IInv => DescriptorsClosed
  BY DEF IInv, FdInv, DescriptorsClosed
<1> QED BY <1>1, Inductive, PTL

------------------------------------------------------------------------------
(* The action property *)

LEMMA UnmapStep ==
  ASSUME IInv, [Next]_vars, NEW a \in Addrs, mapped[a] # mapped'[a]
  PROVE  \/ pc = "mmap" /\ mapped[a] = Unmapped
         \/ \E o \in Objects : Owns(o, a) /\ ~Owns(o, a)' /\ mapped'[a] = Unmapped
<1> USE DEF IInv
<1>1. CASE Mmap
  BY <1>1 DEF Mmap, TypeOK
<1>2. CASE DestroyTemporary
  BY <1>2 DEF DestroyTemporary, HoldInv, Released
<1>3. ASSUME NEW o \in Objects, Destroy(o)
      PROVE  \E p \in Objects : Owns(p, a) /\ ~Owns(p, a)' /\ mapped'[a] = Unmapped
  <2>1. Owns(o, a) /\ mapped'[a] = Unmapped
    BY <1>3, ReleasedIs DEF Destroy
  <2>2. objs'[o].map = MapFailed
    BY <1>3, SetIs, "none" \in Kinds DEF Destroy, Dead, TypeOK, Kinds, Object
  <2> QED BY <2>1, <2>2 DEF Owns
<1>4. ASSUME NEW to \in Objects, NEW from \in Objects, MoveAssign(to, from)
      PROVE  \E p \in Objects : Owns(p, a) /\ ~Owns(p, a)' /\ mapped'[a] = Unmapped
  <2>1. Owns(to, a) /\ mapped'[a] = Unmapped /\ to # from
    BY <1>4, ReleasedIs DEF MoveAssign
  <2>2. CASE objs[from].kind = "value"
    <3>1. objs'[to].map = objs[from].map
      <4>1. objs' = Moved(to, from, "value")
        BY <1>4, <2>2 DEF MoveAssign, MoveConstructed
      <4>2. Moved(to, from, "value")[to] = Object("value", objs[from].map)
        BY <2>1, MovedIs, "value" \in Kinds DEF TypeOK, Kinds
      <4> QED BY <4>1, <4>2 DEF Object
    <3>2. objs[from].map # a
      BY <2>1 DEF SoleOwner, Owns
    <3> QED BY <2>1, <3>1, <3>2 DEF Owns
  <2>3. CASE objs[from].kind # "value"
    <3>1. objs'[to].map = MapFailed
      BY <1>4, <2>3, SetIs, "error" \in Kinds
         DEF MoveAssign, MoveConstructed, Error, TypeOK, Kinds, Object
    <3> QED BY <2>1, <3>1 DEF Owns
  <2> QED BY <2>2, <2>3
<1> QED
  BY <1>1, <1>2, <1>3, <1>4
     DEF Next, OpenStep, ClientStep, OpenFails, OpenFile, FstatFails, Fstat, Close, MmapFailed,
         MakeTemporary, ConstructResult, CallOpen, NoReader, MoveConstruct, CreateReader, vars, locals

\* A file is only unmapped by the end of the object that owns it.
THEOREM UnmappedOnlyByOwner == Spec => UnmappedByOwner
<1>1. IInv /\ [Next]_vars =>
        [\A a \in Addrs : mapped[a] # mapped'[a] =>
           \/ pc = "mmap" /\ mapped[a] = Unmapped
           \/ \E o \in Objects : Owns(o, a) /\ ~Owns(o, a)' /\ mapped'[a] = Unmapped]_vars
  BY UnmapStep
<1> QED BY <1>1, Inductive, PTL DEF Spec, UnmappedByOwner
==============================================================================
