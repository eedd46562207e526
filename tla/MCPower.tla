------------------------------- MODULE MCPower -------------------------------
(* Power for TLC: machines are interchangeable, and so are jobs. *)
EXTENDS Power, TLC

Symmetry == Permutations(Machines) \union Permutations(Jobs)
=============================================================================
