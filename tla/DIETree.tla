------------------------------- MODULE DIETree -------------------------------
(***************************************************************************)
(* What the DWARF reader promises, without bytes, stack or cursor: the     *)
(* DIEs of a plain unit are delivered one by one in document order, each   *)
(* hanging below its true parent from the moment it is delivered, until    *)
(* all of them are there.  Of other units it promises nothing.             *)
(***************************************************************************)
EXTENDS CompileUnit

VARIABLES unit,      \* the unit being read; never changes
          plain,     \* whether the promise is about it
          delivered, \* number of DIEs delivered
          edges      \* pairs <<parent, child>> of entry numbers

treeVars == <<unit, plain, delivered, edges>>

Init == delivered = 0 /\ edges = {}

Deliver ==
  /\ plain /\ delivered < Len(unit.entries)
  /\ delivered' = delivered + 1
  /\ edges' = edges \cup {<<i, delivered + 1>> : i \in {k \in 1..delivered : IsParent(unit, k, delivered + 1)}}
  /\ UNCHANGED <<unit, plain>>

NoPromise == ~plain /\ UNCHANGED <<unit, plain>>

SafeSpec == Init /\ [][Deliver \/ NoPromise]_treeVars

Spec == SafeSpec /\ WF_treeVars(Deliver)
==============================================================================
