------------------------------- MODULE MCJobs -------------------------------
(* Program for TLC: one tracked job that retries (DiskCreateJob with fewer *)
(* attempts) and one untracked job that runs once (MachineCreateJob); a    *)
(* task of two commands beside another, then a last one; two images, one   *)
(* of them fetched at a time.                                              *)
EXTENDS Program, TLC

CONSTANTS retried, once, install, backendInstall, migrate

MCAttempts == [j \in Jobs |-> IF j = retried THEN 2 ELSE 1]

MCStages == <<{install, backendInstall}, {migrate}>>

MCCommands == (install :> 1) @@ (backendInstall :> 2) @@ (migrate :> 1)
=============================================================================
