------------------------------ MODULE Machines ------------------------------
(***************************************************************************)
(* The life of a virtual machine across three stores: the web              *)
(* application's NewMachine and MetaMachine rows, libvirt's domains, and   *)
(* the volumes of its storage pools.                                       *)
(*                                                                         *)
(* A form makes a NewMachine row; MachineCreateJob asks the backend to     *)
(* define the domain, adds its disk and saves the MetaMachine row.         *)
(* MachineDeleteJob destroys the row, whose before_destroy hook stops and  *)
(* deletes the domain.  Every backend call is a step of its own, as other  *)
(* jobs and requests run in between.  A backend call fails loudly          *)
(* (libvirtError, an entry in `errors', an exception in the job) or        *)
(* silently: Django answers 500 without `errors', which Wvm::Base.call     *)
(* takes for success.                                                      *)
(*                                                                         *)
(* How workers pick jobs up is in Jobs; here a job that died or is retried *)
(* is "queued" again.  One disk per machine; more of them are in Disks.    *)
(***************************************************************************)
EXTENDS Naturals, FiniteSets

CONSTANTS Requests,     \* machine creation forms
          Hosts,        \* hostnames, which also name the domains
          HostOf,       \* the hostname each form asks for
          Deletions,    \* MachineDeleteJobs
          MaxAttempts,  \* set_max_attempts of MachineDeleteJob
          MaxCrashes,   \* bound: web processes and workers that die over a form
          MaxDeleteCrashes, \* bound: workers that die in a delete job
          MaxFaults,    \* bound: loud failures of backend calls
          MaxSilent,    \* bound: silent failures of backend calls
          MaxStarts,    \* bound: machines started or suspended by a user
          MaxEarly,     \* bound: users destroyed before their machines are settled
          MaxTogether,  \* bound: how many of these in one behaviour
          None

ASSUME MachinesAssumption ==
    /\ HostOf \in [Requests -> Hosts]
    /\ MaxAttempts \in Nat \ {0}
    /\ {MaxCrashes, MaxDeleteCrashes, MaxFaults, MaxSilent, MaxStarts, MaxEarly,
      MaxTogether} \subseteq Nat
    /\ None \notin Requests \X Nat

\* A run of a create job; it is the domain's uuid (a fresh one per run) and the
\* id of the MetaMachine row.  A volume is named after a uuid and a device.
Ids == Requests \X (1 .. MaxCrashes + 1)

Host(id) == HostOf[id[1]]

VARIABLES newm,     \* NewMachine: "none", "valid" (not yet saved), "pending",
                    \*   "finished", "error", or "destroyed" with its user
          meta,     \* MetaMachine rows
          domain,   \* the domain of each name
          running,  \* the names of the domains that are active
          paused,   \* those of them that are suspended
          transient,\* those of them that are active but no longer defined
          volumes,  \* the volumes in the pool
          disks,    \* <<uuid, volume>>: the domain's XML names the volume
          tries,    \* how often a create job was started
          cpc,      \* where a create job is
          found,    \* the volume it names after the machine it found
          dpc,      \* where a delete job is
          target,   \* the row it is to destroy
          handle,   \* the domain the backend's request holds
          retries,  \* its attempts
          asked,    \* history: the forms whose machines somebody asked to delete
          rivals,   \* history: the forms validated at one time for one hostname
          spared,   \* history: the domains that were active, by a start or a
                    \*   suspension, when a deletion was about to undefine them
          budget    \* how often each of the bounded things may still happen

Bounds == [crash |-> MaxCrashes, deleteCrash |-> MaxDeleteCrashes,
           fault |-> MaxFaults, silent |-> MaxSilent, start |-> MaxStarts,
           early |-> MaxEarly, any |-> MaxTogether]

rowVars == <<newm, meta>>
domainVars == <<domain, running, paused, transient>>
diskVars == <<volumes, disks>>
createVars == <<tries, cpc, found>>
deleteVars == <<dpc, target, handle, retries>>
historyVars == <<asked, rivals, spared>>
vars == <<rowVars, domainVars, diskVars, createVars, deleteVars, historyVars, budget>>

Init ==
    /\ newm = [r \in Requests |-> "none"]
    /\ meta = {}
    /\ domain = [h \in Hosts |-> None]
    /\ running = {}
    /\ paused = {}
    /\ transient = {}
    /\ volumes = {}
    /\ disks = {}
    /\ tries = [r \in Requests |-> 0]
    /\ cpc = [r \in Requests |-> "none"]
    /\ found = [r \in Requests |-> None]
    /\ dpc = [d \in Deletions |-> "none"]
    /\ target = [d \in Deletions |-> None]
    /\ handle = [d \in Deletions |-> None]
    /\ retries = [d \in Deletions |-> 0]
    /\ asked = {}
    /\ rivals = {}
    /\ spared = {}
    /\ budget = Bounds

Spend(kind) ==
    /\ budget[kind] > 0 /\ budget["any"] > 0
    /\ budget' = [budget EXCEPT ![kind] = @ - 1, !["any"] = @ - 1]

Exists(h) == domain[h] # None

HasRow(h) == \E id \in meta : Host(id) = h

(***************************************************************************)
(* The form: Rails first validates, then inserts.                          *)
(***************************************************************************)
Saved(r) == newm[r] \in {"pending", "finished", "error"}

\* The uniqueness validator, which every later update of a row runs again.
OnlyOne(r) == \A s \in Requests \ {r} : Saved(s) => HostOf[s] # HostOf[r]

HostnameUnique_AgainstMachines(r) == ~HasRow(HostOf[r])

HostnameUnique(r) == ~HasRow(HostOf[r]) /\ OnlyOne(r)

Validate(r) ==
    /\ newm[r] = "none"
    /\ HostnameUnique(r)
    /\ newm' = [newm EXCEPT ![r] = "valid"]
    /\ UNCHANGED <<meta, domainVars, diskVars, createVars, deleteVars, historyVars, budget>>

\* r's create job, or the request it comes from, is at p and goes on at q.
Create(r, p, q) == cpc[r] = p /\ cpc' = [cpc EXCEPT ![r] = q]

\* No index backs the validation: whoever has been validated, too, can be saved
\* as well.
Save(r) ==
    /\ newm[r] = "valid"
    /\ newm' = [newm EXCEPT ![r] = "pending"]
    /\ Create(r, "none", "saved")
    /\ rivals' = rivals \union
         UNION {{r, s} : s \in {s \in Requests \ {r} : newm[s] = "valid" /\ HostOf[s] = HostOf[r]}}
    /\ UNCHANGED <<meta, domainVars, diskVars, tries, found, deleteVars, asked, spared, budget>>

\* Its job is a row of the queue, saved by itself...
Enqueue(r) ==
    /\ Create(r, "saved", "queued")
    /\ UNCHANGED <<rowVars, domainVars, diskVars, tries, found, deleteVars, historyVars, budget>>

\* ...unless the web process dies before, or cannot save it: the form stays
\* pending, and nobody will work on it.
WebDies(r) ==
    /\ Spend("crash")
    /\ Create(r, "saved", "lost")
    /\ UNCHANGED <<rowVars, domainVars, diskVars, tries, found, deleteVars, historyVars>>

\* No create job is queued or under way.
NoJob == {"none", "lost", "done"}

(***************************************************************************)
(* MachineCreateJob.                                                       *)
(***************************************************************************)
Id(r) == <<r, tries[r]>>

SetFailed_NotFinished(r) == UNCHANGED newm

\* The row becomes s: an update of a row that is gone changes none, and is none
\* the worse.
Update(r, s) == newm' = [newm EXCEPT ![r] = IF @ = "destroyed" THEN @ ELSE s]

\* The error goes to the row.  An update that finds it invalid is not saved.
SetFailed(r) == IF OnlyOne(r) THEN Update(r, "error") ELSE UNCHANGED newm

Begin(r) ==
    /\ Create(r, "queued", IF newm[r] = "destroyed" THEN "raised" ELSE "list")
    /\ tries' = [tries EXCEPT ![r] = @ + 1]
    /\ found' = [found EXCEPT ![r] = None]
    /\ UNCHANGED <<rowVars, domainVars, diskVars, deleteVars, historyVars, budget>>

\* The view reads the names first and looks for this one later.
List(r) ==
    /\ IF Exists(HostOf[r])
         THEN Create(r, "list", "rescue")
         ELSE Create(r, "list", "define")
    /\ UNCHANGED <<rowVars, domainVars, diskVars, tries, found, deleteVars, historyVars, budget>>

\* libvirt redefines a domain only under its own uuid.
Define(r) ==
    LET h == HostOf[r] IN
    /\ IF Exists(h)
         THEN Create(r, "define", "rescue") /\ UNCHANGED domain
         ELSE /\ Create(r, "define", "find")
              /\ domain' = [domain EXCEPT ![h] = Id(r)]
    /\ UNCHANGED <<rowVars, running, paused, transient, diskVars, tries, found, deleteVars,
                   historyVars, budget>>

Devices(id) == {disk \in disks : disk[1] = id}

\* A domain that is not there is found as a machine without a uuid, which
\* the name of the volume cannot be made of.
Find(r) ==
    LET h == HostOf[r] IN
    /\ IF Exists(h)
         THEN /\ Create(r, "find", "volume")
              /\ found' = [found EXCEPT ![r] = <<domain[h], Cardinality(Devices(domain[h])) + 1>>]
         ELSE Create(r, "find", "rescue") /\ UNCHANGED found
    /\ UNCHANGED <<rowVars, domainVars, diskVars, tries, deleteVars, historyVars, budget>>

AddVolume(r) ==
    /\ IF found[r] \in volumes
         THEN Create(r, "volume", "rescue") /\ UNCHANGED volumes
         ELSE /\ Create(r, "volume", "assign")
              /\ volumes' = volumes \union {found[r]}
    /\ UNCHANGED <<rowVars, domainVars, disks, tries, found, deleteVars, historyVars, budget>>

AssignVolume_Skipped(r) ==
    /\ Create(r, "assign", "row")
    /\ UNCHANGED <<rowVars, domainVars, diskVars, tries, found, deleteVars, historyVars, budget>>

\* Without the domain the view dies of an unbound variable: a silent failure.
AssignVolume(r) ==
    /\ Create(r, "assign", "row")
    /\ disks' = IF Exists(HostOf[r])
                  THEN disks \union {<<domain[HostOf[r]], found[r]>>}
                  ELSE disks
    /\ UNCHANGED <<rowVars, domainVars, volumes, tries, found, deleteVars, historyVars, budget>>

\* The hostname of a MetaMachine has a unique index.
SaveRow(r) ==
    /\ IF HasRow(HostOf[r])
         THEN Create(r, "row", "rescue") /\ UNCHANGED meta
         ELSE /\ Create(r, "row", "given")
              /\ meta' = meta \union {Id(r)}
    /\ UNCHANGED <<newm, domainVars, diskVars, tries, found, deleteVars, historyVars, budget>>

\* error_message is not cleared: an error of an earlier run stays.
SetFinished(r) ==
    /\ IF OnlyOne(r)
         THEN /\ Create(r, "given", "performed")
              /\ Update(r, IF newm[r] = "error" THEN "error" ELSE "finished")
         ELSE Create(r, "given", "rescue") /\ UNCHANGED newm
    /\ UNCHANGED <<meta, domainVars, diskVars, tries, found, deleteVars, historyVars, budget>>

\* The rescue of step: the error is raised again.
Rescue(r) ==
    /\ Create(r, "rescue", "raised")
    /\ SetFailed(r)
    /\ UNCHANGED <<meta, domainVars, diskVars, tries, found, deleteVars, historyVars, budget>>

\* delayed_job removes the job, or gives it up after its only attempt.
JobEnds(r) ==
    /\ Create(r, "performed", "done") \/ Create(r, "raised", "done")
    /\ UNCHANGED <<rowVars, domainVars, diskVars, tries, found, deleteVars, historyVars, budget>>

\* What a silent failure of the call at p leads to: a 500 of the create call is
\* found out when the machine is looked for; one of the machine or of the pool
\* leaves no uuid or no path to go on with.
Silently(p) ==
    CASE p \in {"list", "define"} -> {"find"}
      [] p = "find"   -> {"rescue"}
      [] p = "volume" -> {"assign", "rescue"}
      [] p = "assign" -> {"row"}

CreateFault_Swallowed(r) ==
    /\ cpc[r] \in {"list", "define", "find", "volume", "assign"}
    /\ Spend("fault")
    /\ Create(r, cpc[r], "row")
    /\ SetFailed(r)
    /\ UNCHANGED <<meta, domainVars, diskVars, tries, found, deleteVars, historyVars>>

\* At "row" it is the page the last call was redirected to that fails.
CreateFault(r) ==
    /\ cpc[r] \in {"list", "define", "find", "volume", "assign", "row"}
    /\ Spend("fault")
    /\ Create(r, cpc[r], "rescue")
    /\ UNCHANGED <<rowVars, domainVars, diskVars, tries, found, deleteVars, historyVars>>

CreateSilent(r) ==
    /\ cpc[r] \in {"list", "define", "find", "volume", "assign"}
    /\ Spend("silent")
    /\ \E q \in Silently(cpc[r]) : Create(r, cpc[r], q)
    /\ UNCHANGED <<rowVars, domainVars, diskVars, tries, found, deleteVars, historyVars>>

CreateCrash(r) ==
    /\ cpc[r] \notin NoJob \union {"saved", "queued"}
    /\ Spend("crash")
    /\ Create(r, cpc[r], "queued")
    /\ UNCHANGED <<rowVars, domainVars, diskVars, tries, found, deleteVars, historyVars>>

(***************************************************************************)
(* MachineDeleteJob.                                                       *)
(***************************************************************************)
Delete(d, p, q) == dpc[d] = p /\ dpc' = [dpc EXCEPT ![d] = q]

TargetHost(d) == Host(target[d])

\* The request's domain object is still good.
Valid(d) == domain[TargetHost(d)] = handle[d]

Remove(h) ==
    /\ domain' = [domain EXCEPT ![h] = None]
    /\ running' = running \ {h}
    /\ paused' = paused \ {h}
    /\ transient' = transient \ {h}

\* A transient domain is gone once it is no longer active.
StopDomain(h) ==
    IF h \in transient THEN Remove(h)
    ELSE /\ running' = running \ {h}
         /\ paused' = paused \ {h}
         /\ UNCHANGED <<domain, transient>>

\* Anything raised in the job reschedules it, or ends it after its last attempt.
Retry(d, p) ==
    /\ Delete(d, p, IF retries[d] + 1 < MaxAttempts THEN "queued" ELSE "failed")
    /\ retries' = [retries EXCEPT ![d] = @ + 1]

RequestDelete(d) ==
    \E id \in meta :
        /\ Delete(d, "none", "queued")
        /\ target' = [target EXCEPT ![d] = id]
        /\ asked' = asked \union {id[1]}
        /\ UNCHANGED <<rowVars, domainVars, diskVars, createVars, handle, retries,
                       rivals, spared, budget>>

FindRow(d) ==
    /\ IF target[d] \in meta
         THEN Delete(d, "queued", "stop") /\ UNCHANGED retries
         ELSE Retry(d, "queued")
    /\ UNCHANGED <<rowVars, domainVars, diskVars, createVars, target, handle, historyVars, budget>>

\* machine.force_stop rescue nil
ForceStop(d) ==
    /\ Delete(d, "stop", "find")
    /\ StopDomain(TargetHost(d))
    /\ UNCHANGED <<rowVars, diskVars, createVars, target, handle, retries, historyVars, budget>>

\* A machine that is not found has no hostname: the delete call goes to a URL
\* that does not exist, and its 404 counts as success.
FindMachine(d) ==
    /\ Delete(d, "find", IF Exists(TargetHost(d)) THEN "lookup" ELSE "row")
    /\ UNCHANGED <<rowVars, domainVars, diskVars, createVars, target, handle, retries, historyVars, budget>>

\* The view looks the domain up by its name; without it the view dies.
Lookup(d) ==
    /\ Delete(d, "lookup", IF Exists(TargetHost(d)) THEN "kill" ELSE "row")
    /\ handle' = [handle EXCEPT ![d] = domain[TargetHost(d)]]
    /\ UNCHANGED <<rowVars, domainVars, diskVars, createVars, target, retries, historyVars, budget>>

Kill_Nothing(d) ==
    /\ dpc[d] = "kill"
    /\ IF Valid(d) THEN Delete(d, "kill", "undefine") /\ UNCHANGED retries ELSE Retry(d, "kill")
    /\ UNCHANGED <<rowVars, domainVars, diskVars, createVars, target, handle, historyVars, budget>>

\* What is active is stopped unless it is suspended.  The job asks for the disks
\* to be deleted with an empty value, which the view takes for a no: the volumes
\* stay.
Kill(d) ==
    /\ dpc[d] = "kill"
    /\ IF Valid(d)
         THEN /\ Delete(d, "kill", "undefine")
              /\ IF TargetHost(d) \in paused
                   THEN spared' = spared \union {handle[d]} /\ UNCHANGED domainVars
                   ELSE StopDomain(TargetHost(d)) /\ UNCHANGED spared
              /\ UNCHANGED retries
         ELSE Retry(d, "kill") /\ UNCHANGED <<domainVars, spared>>
    /\ UNCHANGED <<rowVars, diskVars, createVars, target, handle, asked, rivals, budget>>

\* An active domain is not stopped by it.
UndefineDomain(h) ==
    IF h \in running
      THEN transient' = transient \union {h} /\ UNCHANGED <<domain, running, paused>>
      ELSE Remove(h)

Undefine_Unreached(d) ==
    /\ Delete(d, "undefine", "row")
    /\ UNCHANGED <<rowVars, domainVars, diskVars, createVars, target, handle, retries, historyVars, budget>>

\* It is reached even if the backend has no row of its own for the machine.
Undefine(d) ==
    /\ dpc[d] = "undefine"
    /\ IF Valid(d) /\ TargetHost(d) \notin transient
         THEN /\ Delete(d, "undefine", "row")
              /\ UndefineDomain(TargetHost(d))
              /\ UNCHANGED retries
         ELSE Retry(d, "undefine") /\ UNCHANGED domainVars
    /\ UNCHANGED <<rowVars, diskVars, createVars, target, handle, historyVars, budget>>

DestroyRow(d) ==
    /\ Delete(d, "row", "performed")
    /\ meta' = meta \ {target[d]}
    /\ UNCHANGED <<newm, domainVars, diskVars, createVars, target, handle, retries, historyVars, budget>>

\* delayed_job removes the job.
DeleteEnds(d) ==
    /\ Delete(d, "performed", "done")
    /\ UNCHANGED <<rowVars, domainVars, diskVars, createVars, target, handle, retries, historyVars, budget>>

DeleteFault_Swallowed(d) ==
    /\ Spend("fault")
    /\ \E p \in {"find", "lookup", "kill", "undefine"} : Delete(d, p, "row")
    /\ UNCHANGED <<rowVars, domainVars, diskVars, createVars, target, handle, retries, historyVars>>

DeleteFault(d) ==
    /\ Spend("fault")
    /\ \/ Delete(d, "stop", "find") /\ UNCHANGED retries
       \/ \E p \in {"find", "lookup", "kill", "undefine", "row"} : Retry(d, p)
    /\ UNCHANGED <<rowVars, domainVars, diskVars, createVars, target, handle, historyVars>>

DeleteSilent(d) ==
    /\ Spend("silent")
    /\ \/ Delete(d, "stop", "find")
       \/ \E p \in {"find", "lookup", "kill", "undefine"} : Delete(d, p, "row")
    /\ UNCHANGED <<rowVars, domainVars, diskVars, createVars, target, handle, retries, historyVars>>

DeleteCrash(d) ==
    /\ dpc[d] \notin {"none", "queued", "done", "failed"}
    /\ Spend("deleteCrash")
    /\ Delete(d, dpc[d], "queued")
    /\ UNCHANGED <<rowVars, domainVars, diskVars, createVars, target, handle, retries, historyVars>>

(***************************************************************************)
(* What a user makes of a machine that is listed.                          *)
(***************************************************************************)
\* A deletion may have stopped it, and not yet have undefined it.
Start(h) ==
    /\ HasRow(h) /\ Exists(h) /\ h \notin running
    /\ Spend("start")
    /\ running' = running \union {h}
    /\ spared' = spared \union {id \in {domain[h]} :
                               \E d \in Deletions : dpc[d] = "undefine" /\ handle[d] = id}
    /\ UNCHANGED <<rowVars, domain, paused, transient, diskVars, createVars, deleteVars,
                   asked, rivals>>

Pause(h) ==
    /\ HasRow(h) /\ h \in running \ paused
    /\ Spend("start")
    /\ paused' = paused \union {h}
    /\ UNCHANGED <<rowVars, domain, running, transient, diskVars, createVars, deleteVars,
                   historyVars>>

Resume(h) ==
    /\ HasRow(h) /\ h \in paused
    /\ paused' = paused \ {h}
    /\ UNCHANGED <<rowVars, domain, running, transient, diskVars, createVars, deleteVars,
                   historyVars, budget>>

Use(h) == Start(h) \/ Pause(h) \/ Resume(h)

-----------------------------------------------------------------------------
CreateJob(r) ==
    \/ Begin(r) \/ List(r) \/ Define(r) \/ Find(r) \/ AddVolume(r)
    \/ AssignVolume(r) \/ SaveRow(r) \/ SetFinished(r) \/ Rescue(r) \/ JobEnds(r)

DeleteJob(d) ==
    \/ FindRow(d) \/ ForceStop(d) \/ FindMachine(d) \/ Lookup(d) \/ Kill(d)
    \/ Undefine(d) \/ DestroyRow(d) \/ DeleteEnds(d)

Next ==
    \/ \E r \in Requests : \/ Validate(r) \/ Save(r) \/ Enqueue(r) \/ WebDies(r)
                           \/ CreateJob(r)
                           \/ CreateFault(r) \/ CreateSilent(r) \/ CreateCrash(r)
    \/ \E d \in Deletions : \/ RequestDelete(d) \/ DeleteJob(d)
                            \/ DeleteFault(d) \/ DeleteSilent(d) \/ DeleteCrash(d)
    \/ \E h \in Hosts : Use(h)

Spec == Init /\ [][Next]_vars

\* A request goes on; jobs that are queued are run, and one that runs goes on
\* (see Jobs).
FairSpec ==
    /\ Spec
    /\ \A r \in Requests : WF_vars(Enqueue(r)) /\ WF_vars(CreateJob(r))
    /\ \A d \in Deletions : WF_vars(DeleteJob(d))

-----------------------------------------------------------------------------
\* None of these has happened yet.
Never(kinds) == \A k \in kinds : budget[k] = Bounds[k]

\* A machine that is listed, and that its owner has not asked to delete, has
\* the domain its form made, whatever failed, loudly or silently, or crashed;
\* unless its form and another of its hostname were validated at one time.
\* (The row of a form keeps its hostname from the later ones: a user who is
\* destroyed while one of his jobs runs, or after a failed one that left a
\* domain behind, frees it too early.)
RowHasDomain ==
    Never({"early"}) =>
    \A id \in meta : \/ id[1] \in asked \union rivals
                     \/ Exists(Host(id)) /\ domain[Host(id)][1] = id[1]

\* ...and a disk with a volume behind it, as long as no call fails silently.
RowHasDisk ==
    Never({"silent", "early"}) =>
        \A id \in meta : \/ id[1] \in asked \union rivals
                         \/ \E disk \in Devices(id) : disk[2] \in volumes

\* So it is a whole machine that is listed: the domain of its form, and a disk.
RowIsWhole == RowHasDomain /\ RowHasDisk

\* A domain disappears only through a delete job for a machine of the same
\* form: nobody's machine is deleted for somebody else's, unless two forms of one
\* hostname were validated at one time.
DeletesOwnMachine ==
    [][\A h \in Hosts : /\ Exists(h) /\ domain'[h] = None
                        /\ Never({"early"}) /\ domain[h][1] \notin rivals
         => \E d \in Deletions : /\ dpc[d] \in {"stop", "kill", "undefine"}
                                 /\ target[d][1] = domain[h][1]]_vars

\* The row outlives the domain: a machine that is no longer listed, running or
\* not when it was deleted, does not go on to exist, however often the delete
\* jobs fail loudly or die.  The exception is one that was active when it was
\* undefined: started after the job had stopped it, or suspended, which the
\* second of its two stops leaves alone.
DeletedIsGone ==
    Never({"silent"}) =>
        \A d \in Deletions : dpc[d] = "done" =>
            domain[TargetHost(d)] # target[d] \/ target[d] \in spared

\* Unless a worker dies, a form that is reported as failed has not made a
\* machine that is listed as well; also when two have one hostname.
FailedHasNoMachine ==
    Never({"crash"}) =>
        \A r \in Requests : newm[r] = "error" => \A id \in meta : id[1] # r

\* When nothing fails or dies and all jobs are through, every domain, of a
\* machine that ran or not, belongs to a machine that is listed; a volume may
\* belong to one that was deleted.  Excepted are again the domains that were
\* active when they were undefined, and forms of one hostname validated at one
\* time.
NoOrphan ==
    /\ Never({"crash", "deleteCrash", "fault", "silent", "early"})
    /\ \A r \in Requests : cpc[r] \in NoJob
    /\ \A d \in Deletions : dpc[d] \in {"none", "done", "failed"}
    =>  /\ \A h \in Hosts : Exists(h) =>
              domain[h] \in meta \union spared \/ domain[h][1] \in rivals
        /\ \A v \in volumes : \/ v[1] \in meta
                               \/ newm[v[1][1]] = "destroyed" \/ v[1][1] \in rivals
                               \/ \E d \in Deletions : dpc[d] = "done" /\ target[d] = v[1]

\* Every form is reported as finished or failed in the end, although workers
\* die and calls fail: the browser does not wait for ever.  It does for two
\* rows that got the same hostname, which are invalid and take no update, and
\* for one whose job was never queued.
EventuallyReported ==
    \A r \in Requests :
        newm[r] = "pending" ~> \/ newm[r] \in {"finished", "error", "destroyed"}
                               \/ ~OnlyOne(r) \/ cpc[r] = "lost"

=============================================================================
