# A model of cedo

`cedo` loads a shared object into its own process, reads the object's debug info, calls its `main`,
and writes the objects named on the command line, as `main` left them, to an assembly file.
This directory holds TLA+ modules that model its parts, TLC configurations that check them on small
instances, and proofs, checked by TLAPS, of what matters most. Paths below are relative to the
repository.

## Inventory

| Part | Source | State | Operations | Hard about it | Correct if | Modules |
|---|---|---|---|---|---|---|
| DWARF reader, tree | `lib/Binfmt/DWARF.cpp`, `Binfmt/DWARF.h` | abbreviation table, cursor, stack of open DIEs, vector of DIEs | `readAbbrevTable`, `readDebugInfo`, `readOneDIE` | the tree is implicit in the order of bytes and null marks | the DIEs and their children are those the compiler wrote, or reading fails; it stays in the unit; it ends | `CompileUnit`, `DIETree`, `DWARFReader` |
| DWARF reader, bytes; form table | the same, `Binfmt/DWARFConstants.h` | two pointers, the table, the data of a DIE | `readAbbrevTable`, `readFromPointer`, `readULEB128`, `get_DW_FORM`, `getDTypeSize` | numbers of several bytes, forms not implemented, strings that are elsewhere | each value is the one written, the pointer is at the next one, a string is the field's own | `DWARFEncoding`, `DWARFForms` |
| ELF reader | `lib/Binfmt/ELF.cpp`, `ELF.h` | none | `getSection`, `attemptResolveLocalReloc` and below | bounds, missing sections, relocations of neighbours | the string of the field, or an error | `ELFReader` |
| Type reader | `lib/Binfmt/DWARFType.cpp` | none but the C++ stack | `getVariableType` and what it calls | references between DIEs, in cycles; null results deep in the recursion | the type is what C means by the DIEs; complete types are not refused | `DWARFType` |
| Types | `Binfmt/Type.h` | immutable trees | sizes, child iterators | | arrays and members are enumerated at their offsets | `DWARFType`, `EmitAsm` |
| Emitter | `lib/Backend/EmitAsm.cpp` | names by address, the C++ stack, the output | `emitAsm`, `emitOneSym`, `emitObject` and below | padding, unions, bit-fields, pointers to symbols emitted later | what is emitted is the object, byte for byte, pointers by name | `EmitAsm` |
| Streamer | `Backend/AsmStreamer.h` | a line | `operator<<`, `flush` | | lines in order | in `EmitAsm` (`Emit`) |
| Command line | `src/cedo.cpp` (`parseArgs`) | `Args`, the loop's pointer | one iteration per argument | operands that look like options, missing operands | the command line is understood as it is meant | `CedoArgs` |
| Driver | `src/cedo.cpp` (`main`, `runUserCodeAndGetSyms`) | resolved symbols, output file, exit code | load, read, resolve, run, emit | the user's code runs in the same process: it writes, exits, aborts, leaves threads; nobody looks at the output stream | the output is the state at the end of `main`; a failure leaves the old output, success a new one if it could be written; every symbol is accounted for | `Cedo` |
| Runtime | `lib/Runtime/Runtime.cpp` | the handle of `dlopen` | `loadUserCode`, `run`, `findSymbol` | which file a name means | it runs the program whose debug info is read | `Cedo` |
| File reader, `ErrorOr`, formats | `lib/Core/FileReader.cpp`, `Core/FileReader.h`, `Core/ErrorOr.h`, `lib/Binfmt/Binfmt.cpp` | objects that own a mapping; a descriptor | `open`, move, assign, destroy, `createObjectFileReader` | ownership across moves, in-place assignment, every way out of `open` | a mapping has one owner, which unmaps it once | `FileOwner` |
| Version bootstrap | `src/version/` | the build directory, the repository | configure, `ExportVersion`, build, clean, and commits and checkouts meanwhile | cedo makes the version of the next cedo; nobody looks at what fails | a build after a run of cedo without failures has the version of its source, and the version becomes right in the end | `VersionBootstrap` |
| `EndianByteReader`, generator of the constants, tests | | | | | | not modelled, see below |

The parts are called one after another in one thread: `main` → `parseArgs`, `Runtime::loadUserCode`,
`Runtime::run` → (`FileReader::open`, `createObjectFileReader`, `DWARF::readFromObject`,
`getVariableType` and `findSymbol` for each name) → the user's `main` → `AsmEmitter::emitAsm`.
What they share is the mapping of the object file (read until the user's `main` is called), the list
of resolved symbols, and the memory of the user's program, which the user's code and threads change.
The version bootstrap is outside of this: it is the build, which runs a cedo to make the next one.

Everything in this code that is hard to test is listed, at its line, under "hazards" in
`PROJECT.json`, with the properties that would catch it.

## Modules

- **CompileUnit** - the input of the DWARF reader: the bytes of a unit, and what the compiler meant by
  them (`entries`). `WellFormed` says that they agree. `NoAdjacentMarks` singles out the units in which
  no two children lists end at the same DIE; `WellFormed` and `NoAdjacentMarks` units are called plain.
  **UnitBytes** makes such units from shapes of DIEs, for the instances.
- **DIETree** - what the reader promises, without bytes, stack or cursor: DIEs delivered in document order,
  each below its parent.
- **DWARFReader** - `readAbbrevTable` (`ReadAbbrev`, `UnexpectedAbbrev`, `EndOfAbbrevs`), the header
  (`ReadHeader`), the loop and its final assertion (`EndOfInfo`), and `readOneDIE` (`UnknownAbbrev`,
  `ReadDIE`). `parentDIEs`, `abbrevTable` and `debugInfo` are the C++ members of these names, `cursor` the
  pointer passed by reference. The values of attributes are abstracted to the number of bytes they take.
- **DWARFEncoding** - the bytes that the DWARF standard gives to abbreviations and to values: what compilers
  write. Nothing in it comes from the reader, which is compared with it.
- **DWARFForms** - the bytes below `DWARFReader`: the loop of `readAbbrevTable` (`ReadTag`, `ReadAttribute`, ...) and
  `readFromPointer`, one action per kind of form, with `get_DW_FORM` and `DTypeSize` from the table of constants.
  `AsWritten` says what an object of a compiler or a linker is: its bytes are the encodings of `DWARFEncoding`, names
  of sections, offsets to relocate and places have one meaning at most, and its strings are at the places their
  fields refer to (`Places`), however many sections, relocations and symbols there are.
- **ELFReader** - `getSectionHeader`, `getSection`, and the relocation of a field, as operators on a file, which
  have no state; `DWARFForms` uses them for strings (`ReadRelocatedString`, `ReadLinkedString`).
- **DWARFType** - the functions of `DWARFType.cpp`. `calls` holds the functions that wait for the type of
  another DIE; `Enter...` calls, `Leave...` goes on after the return. The stack has room for `StackLimit` calls.
- **EmitAsm** - `calls` is the stack of `emitObject` and `emitTypeWithChildren`, `end` the position their
  `previousAddr + previousSize` has come to. The text is abstracted to cells, one per byte of the data section, that
  say which address of memory they stand for. A `.zero` with a negative count yields no cell.
  `NestingAssumption` says that types are finite trees, since each owns its components by a
  `unique_ptr` (`Binfmt/Type.h`).
- **CedoArgs** - the loop of `parseArgs`, its checks and the default of the output. Paths are sequences of
  names, dots and slashes, since the default depends on them.
- **FileOwner** - `FileReader::open` step by step (`OpenFile`, `Fstat`, `Mmap`, `Close`, and the construction of
  the result from a temporary), and a client that moves, assigns and destroys `ErrorOr<FileReader>` objects, or hands
  one to `createObjectFileReader`, in any order the types allow. Addresses and descriptors are used again once
  they are free, so that a second `munmap` would hit another file.
- **Cedo** - `main`, `runUserCodeAndGetSyms` and `Runtime`, with the user's program as a second process, from
  the constructors that `dlopen` runs (`ConstructorsReturn`) to the threads that `main` leaves behind.
  `world` holds what does not change while cedo runs: which files there are, what is in them, how the program's
  constructors and its `main` end, whether the output can be opened and finds room. The output is `"old"`, `"partial"`
  while the stream is open, `"complete"` or, once a write has failed, `"cut"`: `EmitSym` and `EndEmit` go on either way.
  The readers and the emitter are steps with the outcomes that their own modules have.
- **Pipeline** - cedo as a whole: `Cedo` with `DWARFReader`, `DWARFType` and `EmitAsm` instantiated on shared
  state and run step by step where the driver calls them. The DIEs one reads are what the next looks up
  (`Info`, which adds the attributes), the types that one returns are what the emitter walks (`Syms`), and the
  pointers come from the memory of the user's program (`Pointers`).
- **VersionBootstrap** - the makefiles, `version.s` and `bin/cedo` as state; configuring with or without a cedo,
  the two `git` processes `ExportVersion` asks, and the link over the weak definitions of `Version.cpp`. Other commits are
  checked out or made (`MoveHead`) and tagged (`Tag`) at any time, and any step of a run of cedo may fail (`Fault`): the
  compiler, `popen`, `git`, the write of `version.s`. What such a run, or one of a cedo that does not work, leaves is one of
  `Leftovers`. `changed` and `failed` are history variables: they record what the properties speak of.

The proofs about a module `M` are in `MProofs`, those about `Pipeline` and `VersionBootstrap` in `CedoProofs`, whose theorems
about `Cedo` cite none of `Pipeline`'s assumptions. **Induction** has what they need of induction and of functions
defined by recursion, stated with sets and functions: there is no infinite descent, a set has a least and a
greatest element, what holds at first and is handed on holds up to the end, and a function that gives each value
from the one before exists and has its type.

The MC modules hold the instances. A definition whose comment begins with "Mutant of" is a plausible bug in
the code that the property named in `PROJECT.json` must notice; no specification uses it.

Two refinements connect the modules: `DWARFReader` implements `DIETree` (`TreeDelivered`), and `Pipeline`
implements `Cedo` (`DriverImplemented`). For the second, `world` must describe the unit (`Describes`): what `Cedo`
chooses to find in the file has to be what the bytes of the unit come to. The refinement then says that
the components bring that about, in silence about none of their failures: a unit that is not plain
never gets as far as an output, and a type is refused, or ends the process, exactly when its meaning says so.

## Runs

Runs that pass:

| Run | What it shows | Bounds, and why they are enough |
|---|---|---|
| `dwarf_reader` | On every unit reading ends, with a forest; a well-formed unit is read right or refused, and the cursor stays inside; a plain one is accepted, and reading it implements `DIETree`, liveness included | up to 5 DIEs, 3 marks after one: three nesting levels, siblings before and after a closed list, and lists that end together; attribute bytes that look like marks or codes; ten malformed units, one per check of the reader |
| `forms` | The table of abbreviations, the pointer and the values are those written, strings included; the process only aborts for what is known not to be implemented | all pairs of values of every form, with the edges of one byte of LEB128, triples of some with strings; nine ways for strings to be found or not to be (relocated through a section symbol or symbols of their own, linked, and what can be missing); relocations in reverse order |
| `types` | A type is right unless it is one of the gaps below. The walk ends the process only if there is a DIE it cannot go on from, or a recursion, below the variable's type (`Doomed`), and otherwise gives no type only for want of a meaning | three types that refer to each other in all ways: typedefs of typedefs, members in and out of order or at one offset, arrays of arrays, structs of structs, cycles through pointers; `StackLimit` is 9, the DIEs of the largest unit, which is what `RoomForAll` asks for: no walk without a cycle makes more calls |
| `emit_asm` | The image is the object: in place, of the right size, no value lost, pointers by name, names defined | lists of up to 2 symbols out of 4 places, two of which have one address; 15 types up to three levels deep, with padding in the middle and at the end, unions, shared offsets, empty types; pointers null, to each place, to nothing |
| `args` | Command lines are understood as they are meant, refused ones lack something | all sequences of up to 5 of 7 arguments: enough for an option as the operand of another, repeated options, a missing operand |
| `cedo` | The output is the state at the end of `main`; failures keep the old output, success means a new one; the mapping's scope; every symbol accounted for; cedo gets to `main`, and ends after it | up to 2 symbols of 2 names, 2 writes of 2 values; all combinations of outcomes of the files, of the symbols, of the constructors and of the end of the run, with and without room for the output |
| `files` | However files are opened, moved, assigned, handed on and destroyed, a mapping has one owner, is unmapped once, and none is lost; descriptors are closed | three objects and the temporary of `open` (a move needs two, a third may be left with a stale address), two addresses and two descriptors (one to be used again), a file for each thing `acceptor` looks at |
| `pipeline` | From the bytes of a unit to those of the output: what is emitted are the variables the unit describes. `Pipeline` implements `Cedo` with its fairness | units with two variables and all kinds of types (base, pointers to a base type, to `void`, to a structure declared only, to `const`; arrays, structures with members out of order, typedefs, a structure that refers to itself), a local variable with the name of a global one, adjacent marks, no debug info, a version not supported; 1 write; all orders of the symbols; symbols not found; all units are `Foreseen`, so that `StackLimit` is 16, the DIEs of the largest |
| `bootstrap` | A build after a run of cedo in which nothing failed has the version of its source, as long as the repository has not changed since; configuring fails only if a cedo does not work or what it needs fails; a cedo that is configured and built again and again comes to know its version | 2 commits with two changes from one to the other (there and back again), each with no description, one that fits or one that does not, and with a cedo that works or does not; one failure, at each step; one `make clean` |

Runs that show where the code and what the repository says of it differ:

| Run | Violated | What happens |
|---|---|---|
| `dwarf_nested` | `AllMarksFound` | `readOneDIE` takes one end-of-children mark; where two lists end together the assertion at `lib/Binfmt/DWARF.cpp:257` fails. That it fails for every such unit is `AcceptedTreeRight`: without it the DIEs that follow would hang below the wrong parent |
| `types_recursive` | `NoOverflow` | `struct node { struct node *next; }` recurses for ever |
| `cedo_example` | `ExampleWorks` | `dlopen` does not look for a name without a slash in the working directory, `open` does: the invocation of the README fails |

The passing runs state their properties with the cases taken out in which the code is known to do otherwise; each
is a named condition:

- `Plain` of `DWARFReader` (`PlainUnitsAccepted`): no two children lists end together, see `dwarf_nested`. Like every `WellFormed`
  unit, a plain one has fewer than 128 abbreviations (`NumberedAbbrevs`): the reader takes one byte for a code.
- `PlainTable`, `Delimited` (`DWARFForms`): fewer than 128 abbreviations and no tag of a vendor, no number or length of
  more than seven bits, and no block with a length of fixed size: codes and tags are read as one byte each
  (`lib/Binfmt/DWARF.cpp:191`), `readULEB128` takes one byte (line 85), and of `block1`, `2` and `4` only the length is read.
- `Findable` (`ValuesRight`): a string that is not relocated in `.rela.debug_info` and has the offset 0 is read as
  empty (`lib/Binfmt/DWARF.cpp:140`). That it is never read as another string is part of the property.
- `MembersKnown` (`KnownTypeRight`): `getTypeFromArrayDie` reads one subrange, so `int a[2][3]` becomes an array of 2
  (`lib/Binfmt/DWARFType.cpp:56`); a member whose type cannot be made, such as a flexible array, is stored as a null
  type (line 97).
- `Doomed` (`ResolvedUnlessDoomed`): a type that refers to a tag not among the cases of `getTypeFromTypeDie`, such as `const`, fails an
  assertion (`Fatal`); for `void *` a null pointer is dereferenced (line 111); a recursion ends the stack, see `types_recursive`. That
  these end the process is no part of the property, which says that nothing else does.
- `Orderly` (`ResolvedUnlessDoomed`): what a type refers to without its reader asking for it, such as the type of an index or of
  the members after one that is none, would do no harm, and an array has its sizes first.
- `Meaning` itself knows the attributes the reader knows: an array means something with `DW_AT_count`
  (`lib/Binfmt/DWARFType.cpp:65`), as clang writes it, a member with `DW_AT_data_member_location` (line 89). Arrays by
  `DW_AT_upper_bound`, and members of unions without a location, as gcc writes them, are types in C that the reader refuses
  without any property calling it wrong.
- `LayoutOK` (the types of `emit_asm`; `SizeRight`, `InPlace`): no bit-field whose storage covers another member, which would
  be emitted twice.
- `UnionsCovered` (`NothingLost`): of two union members of one size the first is emitted, whose padding replaces
  what another has there (`lib/Backend/EmitAsm.cpp:109`).
- `InputsRight` (`OutputRight`): the unit is `WellFormed`, and each type asked for is one `KnownTypeRight` is about whose
  meaning is among `ObjectTypes`; and `UnionsCovered`, as above.
- `FirstOfItsName` (`OutputRight`): of a name that an earlier function has as a static local variable the local one's type
  is taken (`lib/Binfmt/DWARFType.cpp:141`).
- An input without a dot in its directory (`NamedAfterPlainInput`): the default output of `./p` is `.s`
  (`src/cedo.cpp:80`).
- Constructors and a `main` that return, an output that can be opened, and room for all of it (`SuccessWritesOutput`): `exit(0)`
  in the program ends cedo with success and without output, and nobody asks the stream whether it is open or has
  written what it was given (`src/cedo.cpp:164`): the output is then cut, and cedo exits with 0. Room is also the
  condition under which `FailureKeepsOutput` excludes a part of a file; its other conjuncts have none.
- No threads left behind (`Serialized`): they go on writing while the objects are emitted.
- A descriptor whose `fstat` fails stays open (`DescriptorsClosed`; `lib/Core/FileReader.cpp:31`).
- `changed`, `failed` (`IdentFresh`; `FailsOnlyIfBroken` has `failed`): a commit checked out after configuring is built with the
  version of the one before; after a failure `version.s` is that of any earlier time, or empty, or missing.
- `Stuck` (`IdentCatchesUp`): a cedo that does not work may leave a `version.s` that no longer assembles, which only
  `make clean` and configuring without a cedo get rid of.
- A description of up to 19 characters (`IdentFresh`, `IdentCatchesUp`): `%20s` into `version[20]` leaves no room for the null, and only the
  20 characters are serialized (`src/version/ExportVersion.c:22`).

Names of the bounds: `MaxEntries`, `MaxMarks` (units), `StackLimit` (calls of the type reader), `MaxSyms`
(symbols requested), `MaxArgs` (arguments), `MaxWrites` (writes of the user's program), `LastCommit` (commits), `MaxMoves`
(times another one is checked out), `MaxFaults` (failures), `MaxCleans` (times the build directory is cleaned).

**Fairness.** The DWARF reader is one sequential computation in one thread, so weak
fairness of its next-state relation is what the scheduler gives it. In `Cedo` and `Pipeline` fairness is of cedo's own steps
only: the user's program may compute for ever, and `Progress` promises nothing while it does. That neither the
type reader nor the emitter keeps cedo waiting for ever is part of `DriverImplemented`, since `Cedo` is fair to the
steps they are. In `VersionBootstrap` cmake comes to its end (weak fairness of its steps); that a user configures and builds
again and again, each whenever it can be done often enough, is a condition of `IdentCatchesUp` rather than a
property of the code (strong fairness of `Configure` and `Build`, since commands exclude each other). Changes of
the commit, tags and failures are not fair, and come to an end by `MaxMoves`, by there being no commit left without a
description, and by `MaxFaults`.

## Proofs

For every value of the constants, from the assumptions of the modules (types of the inputs, nothing else
unless said):

- **DWARFReaderProofs.** `TypeCorrect`. `StackIsAlwaysPath` and `AlwaysForest`, for every sequence of bytes, from the
  invariant `TreeInv`: the DIEs are in the order of their offsets and behind the cursor (so that an offset has one
  DIE), children come later than parents, and the stack is a path. For plain units `PlainInv` says how far the DIEs
  read correspond to the entries written: the cursor is at the next entry, the stack holds the ancestors of that
  entry, and childhood is parenthood of entries. It gives `PlainAlwaysAccepted`, `TreeAlwaysRight`, and
  `ReaderDeliversTree`: a step of `ReadDIE` is `Deliver`, any other a stutter, which is the safety part of the
  refinement of `DIETree`. `AcceptedAlwaysRight` and `AlwaysStaysInUnit` are about all well-formed units, plain or
  not. Once a mark has been missed the reader's place in the tree is wrong; the invariant `WrittenInv` says that the
  stack is then deeper than it should be for good, since what marks are left cannot close all that is open, so that
  the final assertion fails; and that the cursor is at an entry, among the marks after one, or at the end.
- **DWARFFormsProofs.** `TableAlwaysRight`, `PointerAlwaysRight`, `ValuesAlwaysRight` and `OnlyKnownFailures`, for objects
  with any number of abbreviations, attributes, sections, relocations and symbols, and addresses of 4 or 8 bytes.
  What is written is a concatenation of concatenations of encodings. That each of them is where the lengths of those
  before it add up to, and holds its own bytes there, is the first half of the module (`FlattenAt`, by induction over
  the number of parts). The invariant `TableInv` then says that the reader is at the code of the next abbreviation, or at
  attribute `k` of the one it reads, and that the rows before are those written; `DIEInv` that after `n` data the pointer
  is at `EndOf(object, n)` and each of them is the one meant (`Right`). The forms fall into the classes of `FormClasses`
  (one action of the reader each), which is where the table of types and sizes is compared with the standard. For
  `strp` the section, the relocation and the symbol that `ELFReader` chooses have to be those `StringsAgree` speaks
  of: there is one at most in an ordinary file (`Resolved`, `RelocResolved`). `OnlyKnownFailures` needs both invariants: a
  code without an abbreviation, or a row out of order, would mean that the reader is not where it should be.
- **DWARFTypeProofs.** `KnownTypesAlwaysRight` and `CompleteTypesAlwaysResolved`, for all units, those that refer to
  themselves included. `Meaning`, what C means by each DIE, is a recursive function on a graph that may have cycles.
  That there is one which gives every DIE what its own tag makes of what its parts mean is the first half of the
  module: the DIEs whose meaning their parts determine get that, those that a cycle leaves undetermined get none. The
  invariant `CallsInv` then says of the stack that the DIE of each call means what its caller waits for, up from the
  variable's type, and of the members read so far that each has the type its DIE means. If there is no cycle, each call
  is also further from the variable's type than its caller (`DepthsOK`): they are different DIEs, so that there are no
  more calls than DIEs, and for complete types nothing fails. `AlwaysResolvedUnlessDoomed` is about all types, complete or
  not, of which the complete ones (`CompleteTypesAlwaysResolved`) are a case. `FateOK` says that the fate of the variable's type is that of the calls on the stack, since none that has
  returned was for a doomed type (`Spares`): the walk fails only below a doomed type. That it always fails there
  (`EndIsRight`) is a lemma, which the refinement of the driver needs. Assumed are `NullIsNoType` (a null pointer is none of the types there are) and, for both
  of these, `RoomForAll` (no unit has more than `StackLimit` DIEs: without it a long chain of typedefs would overflow
  any stack).
- **EmitAsmProofs.** `TypeCorrect`. `AlwaysInPlace` and `AlwaysSizeRight` assume `Laid`: 8-byte addresses and members
  emitted that do not overlap (`LayoutOK`). The invariant relates the length of the image to the whole stack of calls:
  each call is inside the object of the one below it, at the position that one has noted as the end of this child.
  `PointersAlwaysRight` and `LinksAlwaysResolve` assume nothing: a name is emitted only if it was registered for the
  pointer's address, and all names registered are emitted in the end. `NothingEverLost` follows from `Laid` and the
  invariant `KeepInv`: of each call on the stack the children no longer to do are in the image, or are what the call
  above is writing, or are covered by a member of a union that is. That `UnionsCovered` and `Live` are what their
  equations say, for types of any depth, is shown by induction over the nesting of types (`NestingAssumption`).
- **CedoProofs.** `TypeCorrect`, `MappingAlwaysScoped`, `FailureAlwaysKeepsOutput`, `SuccessAlwaysWrites`, for all
  worlds. The invariant `OutputInv` adds to `FailureKeepsOutput` that the output is the old one and the exit code 0
  until the end is reached, what is known about the program's end at each step after it, and that a file is cut only
  where there is no room; `WrittenInv` adds to `SuccessWritesOutput` that a file which is not being written while symbols
  are emitted could not be opened or found no room.
  `EverySymbolIsAccounted` and `AlwaysSerialized` hold for lists of symbols of any length.
- **FileOwnerProofs.** `TypeCorrect`, `OneOwner`, `OwnedStaysMapped`, `NoLeak`, `DescriptorsAreClosed`, and the action
  property `UnmappedOnlyByOwner`, for any number of objects, addresses and descriptors. No one of them is inductive: a
  mapping has one owner only if what `open` is about to hand out has none (`PendingInv`), the temporary and the place
  of the result own nothing meanwhile (`HoldInv`), and the descriptor `open` works on is the only one open that has
  not failed (`FdInv`).
- **CedoArgsProofs.** `TypeCorrect`, `AlwaysUnderstood` and `AlwaysNamedAfterPlainInput`, for command lines of any
  length. The invariant says of the arguments read so far what the property says of the whole line, and that the next
  one is not the operand of the last.
- **CedoProofs**, about `VersionBootstrap`: the action properties `BuildAlwaysFresh` and `ConfigureFailsOnlyIfBroken`, for any
  number of commits, checkouts and failures, from an invariant that follows hash and description from `git` through the
  arrays to `version.s` (`PassedOn`) and says that a run of cedo without failures leaves a file (`CedoStays`).
- **CedoProofs**, about `Pipeline`: `OutputAlwaysRight`, for all units, lists of symbols and programs without threads.
  It assumes `Laid` and `NullIsNoType`, as the parts do. The invariant `PipeInv` puts the invariants of the parts together,
  which are shown to hold of any state its caller starts it in: `ReadInv` of the DWARF reader, `AnswerInv` of the type
  reader, `EmitInv` of the emitter. `Phases` says where in cedo's run each of them is called and what it has left;
  `TypesInv` that each symbol resolved has a type of its variable, since the DIEs read are those written (`InfoWritten`);
  `EmissionInv` that the emitter starts on the symbols resolved and the memory there is when `main` has returned, and
  that neither changes while it runs.
- **CedoProofs**, about `Pipeline` and `Cedo`: `PartsImplementDriver`, the safety part of `DriverImplemented`: each step of
  the pipeline is one that `Cedo` takes in its world, or a stutter. It is about the units that are `Foreseen`: those refused
  at once (no debug information, or a header that is not accepted) and those that are `WellFormed`, with no more DIEs than the
  stack has room for, whose types the reader gets right or cannot go on from (`MembersKnown`, `Orderly`). In others, such as
  those with bytes no compiler writes, what the reader makes of a unit is not what `Describes` says. For these it needs
  both directions of what is proved of the parts: a unit is read exactly if it is plain (`EndsKnown`, from `PlainInv`,
  `WrittenInv` and `HeaderInv`, which says that a unit being read has a header that was accepted), and the type
  reader ends as the type's meaning says (`AnswerEnds`, from `FateOK`).

In `DWARFType` the alternatives of `Meaning` are told apart by `IF`, not by `CASE`: the prover takes two `CASE` expressions
to be equal when their first and last arms are.

Only model-checked:

- all liveness (`Progress`, that reading ends, `IdentCatchesUp`, the fair parts of the refinements
  `TreeDelivered` and `DriverImplemented`): fairness and `ENABLED` are beyond the prover.

## Not modelled, and why

- `EndianByteReader`: included by the DWARF reader, used by its unit test only.
- Objects of another word size or byte order than the host's: accepted by the reader, but they cannot be loaded into cedo's
  process, so that no run of cedo reaches them. `AddrSize` is a parameter of the modules; the instances have 8.
- `utils/DWARFConstants`: the generator of `DWARFConstants.h`. Of the header, tags and attribute names are numbers that nothing
  depends on.
- Copies of `ErrorOr`, and `ErrorOr` of references: a `FileReader` cannot be copied, and no other `ErrorOr` in cedo owns
  anything.
- `AsmStreamer`'s line buffering: layout only. That the rest of the buffer is lost in a crash is in `Cedo`.
- A write of the output that succeeds after one that failed, as when room comes back before the stream is destroyed: the
  output counts as cut from the first failure on.
- What constructors of the program do but end the process: what they write is in the memory there is at first.
- `version.s` cut in the middle of an array: `Leftovers` has a file without assembly for all of them.
- Builds with `NDEBUG`: assertions are modelled as failing, as in the default build.
- The attributes of a whole unit, byte by byte: `DWARFForms` has one DIE with all its bytes, `DWARFReader` all DIEs with the
  width of their bytes. `Pipeline` uses the second.
- Tests: read as the statement of what the code is for; they have no behaviour of their own.

## Plan

1. Done: the modules, runs and proofs above.
2. `Pipeline` with threads left behind by the program, which needs a memory read cell by cell; a unit in
   `DWARFForms` with more than one DIE, so that it can take the place of the widths in `Pipeline`.
