----------------------------- MODULE MCMachines -----------------------------
(* Machines for TLC: the forms all ask for the same hostname.              *)
EXTENDS Machines

MCHostOf == [r \in Requests |-> CHOOSE h \in Hosts : TRUE]
=============================================================================
