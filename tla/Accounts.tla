------------------------------ MODULE Accounts ------------------------------
(***************************************************************************)
(* A guest among the users of Machines: signed out after 30 minutes, and   *)
(* destroyed after 45 by the task alpha:cleanup, together with the rows of *)
(* his machines (User has_many ..., dependent: :destroy).                  *)
(*                                                                         *)
(* The task destroys a row as MachineDeleteJob does, by the hook of        *)
(* MetaMachine, but all rows in one transaction: whoever else writes to    *)
(* SQLite meanwhile, a row or a job of the queue, waits, and is refused    *)
(* after five seconds.  An exception brings the rows back, though not the  *)
(* domains.  It is a deletion of Machines with steps of its own in place   *)
(* of the job's first and last ones.                                       *)
(***************************************************************************)
EXTENDS Machines

CONSTANTS Guest,      \* the forms of the guest
          cleanup     \* the task

ASSUME AccountsAssumption == Guest \subseteq Requests /\ cleanup \in Deletions

VARIABLES account,    \* the guest: "in", "out" or "gone"
          todo,       \* the rows the transaction has yet to destroy
          cleared,    \* the rows it has destroyed
          destroyed   \* history: the rows that went with the guest

cleanVars == <<todo, cleared>>
accountVars == <<account, cleanVars, destroyed>>

AccountsInit ==
    /\ Init
    /\ account = "in"
    /\ todo = {}
    /\ cleared = {}
    /\ destroyed = {}

Rows == {id \in meta : id[1] \in Guest}

InTransaction == dpc[cleanup] # "none"

(***************************************************************************)
(* The users of Machines.                                                  *)
(***************************************************************************)
\* A step of anyone else; those that write wait for the transaction.
Others == UNCHANGED accountVars

Reads == Others

Writes == ~InTransaction /\ Others

\* authenticate_user!
SignedIn(r) == r \in Guest => account = "in"

\* A request that is refused is answered by an error; there may be another.
FormRefused(r) ==
    /\ newm[r] = "valid" /\ InTransaction
    /\ newm' = [newm EXCEPT ![r] = "none"]
    /\ UNCHANGED <<meta, domainVars, diskVars, createVars, deleteVars, historyVars, budget>>

Forms ==
    \E r \in Requests :
        \/ Validate(r) /\ SignedIn(r) /\ Reads
        \/ (Save(r) \/ Enqueue(r)) /\ Writes
        \/ (FormRefused(r) \/ WebDies(r)) /\ Others

AsksToDelete ==
    \E d \in Deletions \ {cleanup} :
        RequestDelete(d) /\ SignedIn(target'[d][1]) /\ Writes

\* The job of a start may have waited since its user was signed in.
Uses == \E h \in Hosts : Use(h) /\ Reads

\* Between its backend calls a job writes: to the queue, to its form, a row.
AtBackend == {"define", "find", "volume", "assign"}

Creates(r) == CreateJob(r) /\ IF cpc[r] \in AtBackend THEN Reads ELSE Writes

AtHook == {"stop", "find", "lookup", "kill", "undefine"}

Deletes(d) == DeleteJob(d) /\ IF dpc[d] \in AtHook THEN Reads ELSE Writes

\* A write that is refused raises an exception, one in the rescue as well.  (In
\* a delete job this is the DeleteFault of its last step.)
CreateRefused(r) ==
    /\ InTransaction
    /\ Spend("fault")
    /\ \/ \E p \in {"list", "row", "given"} : Create(r, p, "rescue")
       \/ Create(r, "rescue", "raised")
    /\ UNCHANGED <<rowVars, domainVars, diskVars, tries, found, deleteVars, historyVars>>

GoesWrong ==
    /\ \/ \E r \in Requests : \/ CreateFault(r) \/ CreateSilent(r) \/ CreateCrash(r)
                              \/ CreateRefused(r)
       \/ \E d \in Deletions : DeleteFault(d) \/ DeleteSilent(d) \/ DeleteCrash(d)
    /\ Others

(***************************************************************************)
(* The guest.                                                              *)
(***************************************************************************)
SignOut ==
    /\ account = "in"
    /\ account' = "out"
    /\ UNCHANGED <<vars, cleanVars, destroyed>>

Proceed(p, q) ==
    /\ Delete(cleanup, p, q)
    /\ UNCHANGED <<newm, domainVars, diskVars, createVars, handle, retries, rivals, spared,
                   budget>>

\* user.destroy loads the rows it is about to destroy.
Begins ==
    /\ account = "out"
    /\ Proceed("none", "next")
    /\ todo' = Rows
    /\ cleared' = {}
    /\ UNCHANGED <<meta, target, asked, account, destroyed>>

NextRow ==
    \E id \in todo :
        /\ Proceed("next", "stop")
        /\ target' = [target EXCEPT ![cleanup] = id]
        /\ asked' = asked \union {id[1]}
        /\ UNCHANGED <<meta, accountVars>>

\* MetaMachine's before_destroy.
Hook ==
    /\ \/ ForceStop(cleanup) \/ FindMachine(cleanup) \/ Lookup(cleanup)
       \/ Kill(cleanup) \/ Undefine(cleanup)
    /\ UNCHANGED accountVars

RowDone ==
    /\ Proceed("row", "next")
    /\ todo' = todo \ {target[cleanup]}
    /\ cleared' = cleared \union {target[cleanup]}
    /\ UNCHANGED <<meta, target, asked, account, destroyed>>

\* A form or a job of the guest is under way, or a domain that he has no row of
\* outlives him: his hostname is free to ask for, but it is not free.
UnderWay(r) ==
    \/ newm[r] = "valid"
    \/ cpc[r] \notin NoJob
    \/ \E d \in Deletions \ {cleanup} :
         /\ dpc[d] \in AtHook
         /\ target[d][1] = r

TooEarly ==
    \E r \in Guest :
        \/ UnderWay(r)
        \/ /\ Exists(HostOf[r])
           /\ domain[HostOf[r]][1] = r

\* The transaction ends well when the rows are done, ...
Commit ==
    /\ todo = {}
    /\ Delete(cleanup, "next", "none")
    /\ account' = "gone"
    /\ meta' = meta \ cleared
    /\ newm' = [r \in Requests |-> IF r \in Guest /\ Saved(r) THEN "destroyed" ELSE newm[r]]
    /\ IF TooEarly THEN Spend("early") ELSE UNCHANGED budget
    /\ destroyed' = cleared
    /\ handle' = [handle EXCEPT ![cleanup] = None]
    /\ todo' = {} /\ cleared' = {}
    /\ UNCHANGED <<domainVars, diskVars, createVars, target, retries, historyVars>>

\* ... and is rolled back after an exception; the task is run again.
RollBack ==
    /\ dpc[cleanup] \in {"queued", "failed"}
    /\ dpc' = [dpc EXCEPT ![cleanup] = "none"]
    /\ retries' = [retries EXCEPT ![cleanup] = 0]
    /\ handle' = [handle EXCEPT ![cleanup] = None]
    /\ todo' = {} /\ cleared' = {}
    /\ UNCHANGED <<rowVars, domainVars, diskVars, createVars, target, historyVars, budget,
                   account, destroyed>>

CleanUp == Begins \/ NextRow \/ Hook \/ RowDone \/ Commit \/ RollBack

-----------------------------------------------------------------------------
AccountsNext ==
    \/ Forms \/ AsksToDelete \/ Uses
    \/ \E r \in Requests : Creates(r)
    \/ \E d \in Deletions \ {cleanup} : Deletes(d)
    \/ GoesWrong
    \/ SignOut \/ CleanUp

allVars == <<vars, accountVars>>

AccountsSpec == AccountsInit /\ [][AccountsNext]_allVars

\* A destroyed guest leaves no machine: none that is listed, unless a job of
\* his was about to create it (its row then belongs to nobody, and is never
\* cleaned up); and none of those that were listed goes on to exist, running or
\* not, however often the task was rolled back or died over them, unless it was
\* started or suspended between the task's stopping and undefining it.
GuestLeavesNothing ==
    /\ account = "gone" /\ Never({"early"}) => Rows = {}
    /\ Never({"silent"}) =>
          \A id \in destroyed : domain[Host(id)] # id \/ id \in spared

=============================================================================
