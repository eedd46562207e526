------------------------------- MODULE MCDisks -------------------------------
(***************************************************************************)
(* Disks for TLC.  Jobs of one kind are interchangeable, and nothing is    *)
(* explored past a lost update of the XML or a call that failed without    *)
(* being noticed: no property speaks of what follows them.                 *)
(***************************************************************************)
EXTENDS Disks, TLC

Symmetry == Permutations(Creates) \union Permutations(Deletes)

Known == Never({"lost", "silent"})
=============================================================================
