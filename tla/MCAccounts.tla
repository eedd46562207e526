----------------------------- MODULE MCAccounts -----------------------------
(* Accounts for TLC: the forms all ask for the same hostname.              *)
EXTENDS Accounts

MCHostOf == [r \in Requests |-> CHOOSE h \in Hosts : TRUE]
=============================================================================
