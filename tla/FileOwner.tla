------------------------------ MODULE FileOwner ------------------------------
(***************************************************************************)
(* FileReader of lib/Core and the ErrorOr<FileReader> it comes in, up to   *)
(* the ObjectFileReader it ends in (lib/Binfmt/Binfmt.cpp, ELF.cpp): the   *)
(* descriptor of FileReader::open, and who owns the mapping.               *)
(*                                                                         *)
(* Objects are created, moved, assigned and destroyed by a client that may *)
(* do so in any order the types allow; each has a destructor that unmaps.  *)
(* Addresses and descriptors are used again once they are free, so that a  *)
(* second munmap or a stale owner meets another file.                      *)
(***************************************************************************)
EXTENDS Integers, FiniteSets

CONSTANTS Objects,   \* storage for variables of type ErrorOr<FileReader> or ObjectFileReader
          Temp,      \* storage for the temporary FileReader of open
          Addrs,     \* where a file can be mapped
          MapFailed, \* MAP_FAILED
          Fds,       \* descriptors the process may have
          NoFd,
          Contents   \* beginnings of files

(* A file has                                                               *)
(*   size   its length                                                      *)
(*   magic  it begins with the magic of ELF                                 *)
(*   class, data  the bytes of e_ident that say address size and endianness *)
ASSUME FilesAssumption ==
  /\ Temp \in Objects /\ MapFailed \notin Addrs /\ NoFd \notin Fds
  /\ \A c \in Contents : c.size \in Nat /\ c.magic \in BOOLEAN /\ c.class \in Nat /\ c.data \in Nat

VARIABLES objs,       \* what each object is
          mapped,     \* the file mapped at an address
          openFds,    \* descriptors open
          statFailed, \* those whose fstat failed, a history variable
          pc,         \* "client", the step of FileReader::open, or the failed assertion
          dst,        \* where open returns to
          fd, mapping \* its local variables

vars == <<objs, mapped, openFds, statFailed, pc, dst, fd, mapping>>

locals == <<dst, fd, mapping>>

\* Nothing, an error, a FileReader in an ErrorOr, or a FileReader of its own.
Kinds == {"none", "error", "value", "reader"}

Object(kind, addr) == [kind |-> kind, map |-> addr]
Dead  == Object("none", MapFailed)
Error == Object("error", MapFailed)

\* No file at an address.
Unmapped == [size |-> 0, magic |-> FALSE, class |-> 0, data |-> 0]

Init ==
  /\ objs = [o \in Objects |-> Dead] /\ mapped = [a \in Addrs |-> Unmapped]
  /\ openFds = {} /\ statFailed = {}
  /\ pc = "client" /\ dst = Temp /\ fd = NoFd /\ mapping = MapFailed

------------------------------------------------------------------------------
(* FileReader's move constructor and destructor *)

\* Mutant of Moved: the source keeps its mapping.
MovedAndKept(to, from, kind) == [objs EXCEPT ![to] = Object(kind, objs[from].map)]

\* Mutant of Moved: the source is left with a null pointer, which is not MAP_FAILED.
MovedToNull(to, from, kind) ==
  [objs EXCEPT ![to] = Object(kind, objs[from].map), ![from] = Object(objs[from].kind, "nullptr")]

\* What is left behind still has to be destroyed, and must not unmap.
Moved(to, from, kind) ==
  [objs EXCEPT ![to] = Object(kind, objs[from].map), ![from] = Object(objs[from].kind, MapFailed)]

\* The mappings without the one of an object.
Released(o) == IF objs[o].map = MapFailed THEN mapped ELSE [mapped EXCEPT ![objs[o].map] = Unmapped]

\* The assertion "munmap failed".
MunmapOK(o) == objs[o].map = MapFailed \/ mapped[objs[o].map] # Unmapped

AfterMunmap(o, next) == IF MunmapOK(o) THEN next ELSE "abort"

------------------------------------------------------------------------------
(* FileReader::open *)

\* It returns an error.
Fail == objs' = [objs EXCEPT ![dst] = Error] /\ pc' = "client"

CallOpen(o) ==
  /\ pc = "client" /\ o # Temp /\ objs[o].kind = "none"
  /\ pc' = "open" /\ dst' = o
  /\ UNCHANGED <<objs, mapped, openFds, statFailed, fd, mapping>>

\* No such file, no access, or no descriptor left.
OpenFails ==
  /\ pc = "open"
  /\ Fail
  /\ UNCHANGED <<mapped, openFds, statFailed, locals>>

OpenFile ==
  /\ pc = "open"
  /\ \E f \in Fds \ openFds : fd' = f /\ openFds' = openFds \cup {f}
  /\ pc' = "fstat"
  /\ UNCHANGED <<objs, mapped, statFailed, dst, mapping>>

\* The descriptor stays open.
FstatFails ==
  /\ pc = "fstat"
  /\ Fail
  /\ statFailed' = statFailed \cup {fd}
  /\ UNCHANGED <<mapped, openFds, locals>>

Fstat ==
  /\ pc = "fstat"
  /\ pc' = "mmap"
  /\ UNCHANGED <<objs, mapped, openFds, statFailed, locals>>

\* Nothing can be mapped of an empty file or a directory, or without room for it.
Mmap ==
  /\ pc = "mmap"
  /\ \/ mapping' = MapFailed /\ UNCHANGED mapped
     \/ \E a \in Addrs, c \in Contents :
          /\ mapped[a] = Unmapped /\ c.size > 0
          /\ mapping' = a /\ mapped' = [mapped EXCEPT ![a] = c]
  /\ pc' = "close"
  /\ UNCHANGED <<objs, openFds, statFailed, dst, fd>>

\* Mutant of Close: only if there is a mapping.
CloseIfMapped ==
  /\ pc = "close"
  /\ openFds' = IF mapping = MapFailed THEN openFds ELSE openFds \ {fd}
  /\ pc' = "return"
  /\ UNCHANGED <<objs, mapped, statFailed, locals>>

Close ==
  /\ pc = "close"
  /\ openFds' = openFds \ {fd}
  /\ pc' = "return"
  /\ UNCHANGED <<objs, mapped, statFailed, locals>>

MmapFailed ==
  /\ pc = "return" /\ mapping = MapFailed
  /\ Fail
  /\ UNCHANGED <<mapped, openFds, statFailed, locals>>

\* FileReader{mapping, size}: a temporary,
MakeTemporary ==
  /\ pc = "return" /\ mapping # MapFailed
  /\ objs' = [objs EXCEPT ![Temp] = Object("reader", mapping)]
  /\ pc' = "construct"
  /\ UNCHANGED <<mapped, openFds, statFailed, locals>>

\* of which the ErrorOr returned is constructed,
ConstructResult ==
  /\ pc = "construct"
  /\ objs' = Moved(dst, Temp, "value")
  /\ pc' = "destroyTemporary"
  /\ UNCHANGED <<mapped, openFds, statFailed, locals>>

\* and which is destroyed at the end of the statement.
DestroyTemporary ==
  /\ pc = "destroyTemporary"
  /\ objs' = [objs EXCEPT ![Temp] = Dead] /\ mapped' = Released(Temp)
  /\ pc' = AfterMunmap(Temp, "client")
  /\ UNCHANGED <<openFds, statFailed, locals>>

------------------------------------------------------------------------------
(* ErrorOr<FileReader>, by a client that looks whether there is an error *)

IsErrorOr(o) == o # Temp /\ objs[o].kind \in {"error", "value"}

\* What moveConstruct makes of an ErrorOr: the value is moved, the error copied.
MoveConstructed(to, from) ==
  IF objs[from].kind = "value" THEN Moved(to, from, "value") ELSE [objs EXCEPT ![to] = Error]

MoveConstruct(to, from) ==
  /\ pc = "client" /\ to # Temp /\ objs[to].kind = "none" /\ IsErrorOr(from)
  /\ objs' = MoveConstructed(to, from)
  /\ UNCHANGED <<mapped, openFds, statFailed, pc, locals>>

\* Mutant of MoveAssign: an object may be assigned to itself.
MoveAssignToSelf(to, from) ==
  /\ pc = "client" /\ IsErrorOr(to) /\ IsErrorOr(from)
  /\ objs' = IF to = from THEN objs ELSE MoveConstructed(to, from)
  /\ mapped' = Released(to) /\ pc' = AfterMunmap(to, "client")
  /\ UNCHANGED <<openFds, statFailed, locals>>

\* The object assigned to is destroyed, and constructed again; not so one that
\* is assigned to itself.
MoveAssign(to, from) ==
  /\ pc = "client" /\ IsErrorOr(to) /\ IsErrorOr(from) /\ to # from
  /\ mapped' = Released(to) /\ pc' = AfterMunmap(to, "client")
  /\ objs' = MoveConstructed(to, from)
  /\ UNCHANGED <<openFds, statFailed, locals>>

\* The end of a scope, or of the unique_ptr an ObjectFileReader is in.
Destroy(o) ==
  /\ pc = "client" /\ o # Temp /\ objs[o].kind # "none"
  /\ objs' = [objs EXCEPT ![o] = Dead]
  /\ mapped' = Released(o) /\ pc' = AfterMunmap(o, "client")
  /\ UNCHANGED <<openFds, statFailed, locals>>

------------------------------------------------------------------------------
(* createObjectFileReader *)

\* forEachFmt finds the format by its magic, acceptor finds address size and
\* endianness; findFileTriple asks for no more.
Accepted(c) == c.magic /\ c.size > 6 /\ c.class \in {1, 2} /\ c.data \in {1, 2}

\* There is something to read: no error, and not moved from.
Readable(o) == IsErrorOr(o) /\ objs[o].kind = "value" /\ objs[o].map # MapFailed

\* Mutant of CreateReader: the file is moved before it is looked at, into a reader that is
\* released, not destroyed, when it turns out to be of another format.
CreateReaderTooSoon(o, from) ==
  /\ pc = "client" /\ o # Temp /\ objs[o].kind = "none" /\ Readable(from)
  /\ objs' = IF Accepted(mapped[objs[from].map]) THEN Moved(o, from, "reader")
             ELSE [objs EXCEPT ![from] = Object("value", MapFailed)]
  /\ UNCHANGED <<mapped, openFds, statFailed, pc, locals>>

\* The FileReader is moved from hand to hand as a reference, and at last into
\* the reader of its format.
CreateReader(o, from) ==
  /\ pc = "client" /\ o # Temp /\ objs[o].kind = "none" /\ Readable(from)
  /\ Accepted(mapped[objs[from].map])
  /\ objs' = Moved(o, from, "reader")
  /\ UNCHANGED <<mapped, openFds, statFailed, pc, locals>>

\* Of a file no format accepts nullptr is returned; std::move alone moves nothing.
NoReader(from) == pc = "client" /\ Readable(from) /\ ~Accepted(mapped[objs[from].map]) /\ UNCHANGED vars

------------------------------------------------------------------------------
OpenStep ==
  \/ OpenFails \/ OpenFile \/ FstatFails \/ Fstat \/ Mmap \/ Close \/ MmapFailed
  \/ MakeTemporary \/ ConstructResult \/ DestroyTemporary

ClientStep ==
  \/ \E o \in Objects : CallOpen(o) \/ Destroy(o) \/ NoReader(o)
  \/ \E to, from \in Objects : MoveConstruct(to, from) \/ MoveAssign(to, from) \/ CreateReader(to, from)

Next == OpenStep \/ ClientStep

Spec == Init /\ [][Next]_vars

------------------------------------------------------------------------------
(* Properties *)

\* The types of the objects, the local variables and the state of the kernel.
TypeOK ==
  /\ objs \in [Objects -> [kind: Kinds, map: Addrs \cup {MapFailed}]]
  /\ mapped \in [Addrs -> Contents \cup {Unmapped}]
  /\ openFds \subseteq Fds /\ statFailed \subseteq Fds
  /\ pc \in {"client", "open", "fstat", "mmap", "close", "return", "construct", "destroyTemporary", "abort"}
  /\ dst \in Objects /\ fd \in Fds \cup {NoFd} /\ mapping \in Addrs \cup {MapFailed}

Owns(o, a) == objs[o].map = a

\* No two objects would unmap one mapping: not the two sides of a move, nor the
\* temporary and the result of open.
SoleOwner == \A o, p \in Objects, a \in Addrs : Owns(o, a) /\ Owns(p, a) => o = p

\* What an object owns is mapped: nobody reads a file through an object after
\* another has unmapped it, and the assertion on munmap does not fail.
OwnedIsMapped ==
  /\ pc # "abort"
  /\ \A o \in Objects, a \in Addrs : Owns(o, a) => mapped[a] # Unmapped

\* No mapping is lost: one that open has not handed out yet, or that an object owns.
NothingLeaks ==
  \A a \in Addrs : mapped[a] # Unmapped =>
    \/ \E o \in Objects : Owns(o, a)
    \/ pc \in {"close", "return"} /\ mapping = a

\* Between calls of open no descriptor is open, but for those that could not be
\* stat'ed.
DescriptorsClosed ==
  /\ statFailed \subseteq openFds
  /\ pc = "client" => openFds = statFailed

\* A file is mapped by a call of open only, and unmapped only when the object
\* that owns it is destroyed or assigned to.
UnmappedByOwner ==
  [][\A a \in Addrs : mapped[a] # mapped'[a] =>
       \/ pc = "mmap" /\ mapped[a] = Unmapped
       \/ \E o \in Objects : Owns(o, a) /\ ~Owns(o, a)' /\ mapped'[a] = Unmapped]_vars
==============================================================================
