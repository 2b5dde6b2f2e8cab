--------------------------- MODULE VersionBootstrap ---------------------------
(***************************************************************************)
(* src/version: how cedo gives itself its version.  When cmake configures  *)
(* and finds a cedo built before, it runs it on ExportVersion.c, which     *)
(* asks git for the commit and its description, and adds the version.s     *)
(* that comes out to the sources; the next build links it in place of the  *)
(* weak, empty definitions of Version.cpp.  Meanwhile other commits may be *)
(* made or checked out, and tagged; and any of the steps may fail, which   *)
(* nobody looks at.  Init, Next and Spec begin with VB, so that this       *)
(* module can be extended beside that of cedo itself.                      *)
(***************************************************************************)
EXTENDS Integers

CONSTANTS LastCommit,  \* the commits are 1..LastCommit, in no order
          MaxMoves,    \* how often another commit is checked out or made
          MaxFaults,   \* how often something fails that cedo needs
          MaxCleans    \* how often the build directory is cleaned

ASSUME BootstrapAssumption ==
  LastCommit \in Nat \ {0} /\ MaxMoves \in Nat /\ MaxFaults \in Nat /\ MaxCleans \in Nat

Commits == 1..LastCommit

\* What git describe prints at a commit: nothing if no tag is reachable, or a
\* description that fits in 19 characters, or a longer one.
Descriptions == {"none", "fits", "long"}

\* Contents of githash and version.  A description that is cut at 20 characters
\* has no null: what is after the array is read as a part of it.
Nothing == 0
Version(commit, description) == [commit |-> commit, description |-> description]
NoVersion == Version(Nothing, "none")
Empty     == [githash |-> Nothing, version |-> NoVersion]

VARIABLES repo,         \* each commit's description, and whether the cedo of it can read ExportVersion.o
          head,         \* the commit checked out
          moves,
          cmake,        \* "idle", or how far cmake has come
          exporter,     \* the arrays of ExportVersion while it runs
          versionFile,  \* version.s: absent, or the arrays in it, or no assembly at all
          buildSystem,  \* what the makefiles build: nothing, cedo, or cedo with version.s
          binary,       \* bin/cedo: absent, or the commit it was built of and its arrays
          cleans,
          changed,      \* history: the repository has changed since cmake last found a cedo
          failed,       \* history: the run of that cedo, or what it needed, has failed
          faults

VBVars == <<repo, head, moves, cmake, exporter, versionFile, buildSystem, binary, cleans, changed, failed, faults>>

NoFile       == [exists |-> FALSE, assembles |-> FALSE, arrays |-> Empty]
File(arrays) == [exists |-> TRUE, assembles |-> TRUE, arrays |-> arrays]
Garbled      == [exists |-> TRUE, assembles |-> FALSE, arrays |-> Empty]

NoBinary               == [exists |-> FALSE, commit |-> Nothing, arrays |-> Empty]
Binary(commit, arrays) == [exists |-> TRUE, commit |-> commit, arrays |-> arrays]

VBInit ==
  /\ repo \in [Commits -> [description: Descriptions, works: BOOLEAN]]
  /\ head \in Commits /\ moves = 0 /\ cmake = "idle" /\ exporter = Empty
  /\ versionFile = NoFile /\ buildSystem = "none" /\ binary = NoBinary /\ cleans = 0
  /\ changed = TRUE /\ failed = FALSE /\ faults = 0

------------------------------------------------------------------------------
(* The repository *)

\* Another commit is checked out, an older one or one just made.
MoveHead ==
  /\ moves < MaxMoves /\ moves' = moves + 1
  /\ head' \in Commits \ {head} /\ changed' = TRUE
  /\ UNCHANGED <<repo, cmake, exporter, versionFile, buildSystem, binary, cleans, failed, faults>>

\* A first tag is reachable from the commit checked out, and perhaps from others.
Tag ==
  /\ repo[head].description = "none" /\ changed' = TRUE
  /\ \E after \in [Commits -> Descriptions] :
       /\ after[head] # "none"
       /\ \A c \in Commits : repo[c].description \in {"none", after[c]}
       /\ repo' = [c \in Commits |-> [repo[c] EXCEPT !.description = after[c]]]
  /\ UNCHANGED <<head, moves, cmake, exporter, versionFile, buildSystem, binary, cleans, failed, faults>>

------------------------------------------------------------------------------
(* cmake *)

\* Something fails that a run of cedo needs: the compiler, a process, git, the disk.
Fault == faults < MaxFaults /\ faults' = faults + 1 /\ failed' = TRUE

NoFault == UNCHANGED <<failed, faults>>

\* Mutant of Found: cedo is taken to be there.
FoundAlways == TRUE

\* test -f cedo.
Found == binary.exists

\* Without a cedo the sources are those of the first build.
ConfigurePlain ==
  /\ cmake = "idle" /\ ~Found
  /\ buildSystem' = "plain"
  /\ UNCHANGED <<repo, head, moves, cmake, exporter, versionFile, binary, cleans, changed, failed, faults>>

\* Mutant of ConfigureWithCedo: cedo is only run if there is no version.s yet.
RunOnce ==
  /\ cmake = "idle" /\ Found
  /\ cmake' = (IF versionFile.exists THEN "generate" ELSE "git log") /\ exporter' = Empty
  /\ changed' = FALSE /\ failed' = FALSE
  /\ UNCHANGED <<repo, head, moves, versionFile, buildSystem, binary, cleans, faults>>

\* ExportVersion.o is compiled and loaded.  If it cannot be compiled there may be
\* one of an earlier time; if there is none, cedo cannot load it.
ConfigureWithCedo ==
  /\ cmake = "idle" /\ Found
  /\ exporter' = Empty /\ changed' = FALSE
  /\ \/ cmake' = "git log" /\ failed' = FALSE /\ UNCHANGED faults
     \/ cmake' \in {"git log", "generate"} /\ Fault
  /\ UNCHANGED <<repo, head, moves, versionFile, buildSystem, binary, cleans>>

\* popen gives no stream: main returns 1, and so does cedo before it opens version.s.
PopenFails ==
  /\ cmake = "git log" /\ cmake' = "generate" /\ Fault
  /\ UNCHANGED <<repo, head, moves, exporter, versionFile, buildSystem, binary, cleans, changed>>

\* The two processes that main asks, the second only if the first succeeds.
GitLog ==
  /\ cmake = "git log"
  /\ \/ cmake' = "git describe" /\ exporter' = [exporter EXCEPT !.githash = head] /\ NoFault
     \/ cmake' = "serialize" /\ UNCHANGED exporter /\ Fault
  /\ UNCHANGED <<repo, head, moves, versionFile, buildSystem, binary, cleans, changed>>

Described == IF repo[head].description = "none" THEN NoVersion ELSE Version(head, repo[head].description)

GitDescribe ==
  /\ cmake = "git describe" /\ cmake' = "serialize"
  /\ \/ exporter' = [exporter EXCEPT !.version = Described] /\ NoFault
     \/ UNCHANGED exporter /\ Fault
  /\ UNCHANGED <<repo, head, moves, versionFile, buildSystem, binary, cleans, changed>>

\* The cedo found may be unable to; nobody asks for its exit code.
Works == binary.exists /\ repo[binary.commit].works

\* What a run that goes wrong leaves: the file as it was, an empty one, one without
\* the second symbol, or one that ends within an array.
Leftovers == {versionFile, File(Empty), File([exporter EXCEPT !.version = NoVersion]), Garbled}

Serialize ==
  /\ cmake = "serialize" /\ cmake' = "generate"
  /\ \/ Works /\ versionFile' = File(exporter) /\ NoFault
     \/ Works /\ versionFile' \in Leftovers /\ Fault
     \/ ~Works /\ versionFile' \in Leftovers /\ failed' = TRUE /\ UNCHANGED faults
  /\ UNCHANGED <<repo, head, moves, exporter, buildSystem, binary, cleans, changed>>

\* A source that does not exist is an error, and the makefiles stay as they were.
GenerateFails ==
  /\ cmake = "generate" /\ ~versionFile.exists
  /\ cmake' = "idle"
  /\ UNCHANGED <<repo, head, moves, exporter, versionFile, buildSystem, binary, cleans, changed, failed, faults>>

Generate ==
  /\ cmake = "generate" /\ versionFile.exists
  /\ buildSystem' = "withVersion" /\ cmake' = "idle"
  /\ UNCHANGED <<repo, head, moves, exporter, versionFile, binary, cleans, changed, failed, faults>>

Configure == ConfigurePlain \/ ConfigureWithCedo

ConfigureStep == PopenFails \/ GitLog \/ GitDescribe \/ Serialize \/ GenerateFails \/ Generate

------------------------------------------------------------------------------
(* make *)

\* The definitions of version.s override the weak ones.
Linked == IF buildSystem = "withVersion" THEN versionFile.arrays ELSE Empty

Build ==
  /\ cmake = "idle" /\ buildSystem # "none"
  /\ buildSystem = "withVersion" => versionFile.assembles
  /\ binary' = Binary(head, Linked)
  /\ UNCHANGED <<repo, head, moves, cmake, exporter, versionFile, buildSystem, cleans, changed, failed, faults>>

\* make clean; version.s is not one of its products.
Clean ==
  /\ cmake = "idle" /\ binary.exists /\ cleans < MaxCleans
  /\ binary' = NoBinary /\ cleans' = cleans + 1
  /\ UNCHANGED <<repo, head, moves, cmake, exporter, versionFile, buildSystem, changed, failed, faults>>

VBNext == MoveHead \/ Tag \/ Configure \/ ConfigureStep \/ Build \/ Clean

VBSpec == VBInit /\ [][VBNext]_VBVars

\* cmake comes to its end, and the user goes on configuring and building.
VBFairSpec == VBSpec /\ WF_VBVars(ConfigureStep) /\ SF_VBVars(Configure) /\ SF_VBVars(Build)

------------------------------------------------------------------------------
(* Properties *)

\* createVersionString: nothing without a version, whatever the hash.
createVersionString(arrays) == IF arrays.version.description = "none" THEN Empty ELSE arrays

\* The cedo there prints the version of the commit checked out.
IdentRight ==
  /\ binary.exists
  /\ createVersionString(binary.arrays) =
       IF repo[head].description = "none" THEN Empty ELSE [githash |-> head, version |-> Described]

\* A build after cmake has run a cedo that works, with nothing that failed, makes a
\* cedo with the version of its source, unless the repository has changed since or the
\* description is too long: the version comes through two processes, a run of another
\* cedo and a file, any of which may be of an earlier time.
IdentFresh ==
  [][Build /\ buildSystem = "withVersion" /\ ~changed /\ ~failed /\ repo[head].description # "long"
     => IdentRight']_VBVars

\* Configuring fails only if the cedo that is there does not work or something that
\* it needs has failed: the first build, and every one after, can be configured.
FailsOnlyIfBroken == [][GenerateFails => binary.exists /\ failed]_VBVars

\* A cedo that does not work has left a version.s that no later build can assemble,
\* itself being what writes it: only make clean gets out of this.
Stuck ==
  /\ binary.exists /\ ~repo[binary.commit].works
  /\ buildSystem = "withVersion" /\ ~versionFile.assembles

\* A commit whose cedo works ends up in the version of the cedo built of it, as long
\* as the description fits and no cedo before it is stuck: failed runs, and what they
\* leave in version.s, are made good by the next ones.
IdentCatchesUp ==
  <>[](repo[head].works /\ repo[head].description # "long" /\ ~Stuck => IdentRight)
==============================================================================
