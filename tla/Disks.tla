-------------------------------- MODULE Disks --------------------------------
(***************************************************************************)
(* The disks and the ISO image of one virtual machine: DiskCreateJob,      *)
(* DiskDeleteJob and MachineMountIsoJob (webapp/app/jobs), the backend's   *)
(* assign_volume, unassign_volume and mount_iso, which read the domain's   *)
(* XML, edit it and define it again (backend/vrtManager/instance.py), and  *)
(* the volumes of the pool.                                                *)
(*                                                                         *)
(* A volume is named after its machine and the device it was made for, so  *)
(* that a device stands for the name of its volume as well; devices are    *)
(* numbered 1, 2, ... for vda, vdb, ...  Failures are those of Machines:   *)
(* loud, silent, and the death of a worker.  The live and the persistent   *)
(* XML of an active domain are taken to name the same disks.               *)
(***************************************************************************)
EXTENDS Naturals, FiniteSets, FiniteSetsExt

CONSTANTS Creates, Deletes, Mounts,     \* the three kinds of jobs
          Workers,      \* how many delayed_job workers there are
          MaxAttempts,  \* set_max_attempts
          MaxDevices,   \* bound: the device names there are
          MaxMishaps,   \* bound: failed calls, dead workers, power changes
          Root,         \* what made the disk the machine came with
          None

ASSUME DisksAssumption ==
    /\ Workers \in Nat \ {0}
    /\ MaxAttempts \in Nat \ {0}
    /\ MaxDevices \in Nat \ {0}
    /\ MaxMishaps \in Nat
    /\ Creates \intersect Deletes = {}
    /\ Creates \intersect Mounts = {}
    /\ Deletes \intersect Mounts = {}
    /\ None \notin Creates \union {Root} \union Nat

Jobs == Creates \union Deletes \union Mounts

Devices == 1 .. MaxDevices

VARIABLES disks,    \* the devices in the domain's XML
          iso,      \* the image in its cdrom, by the job that put it there
          volume,   \* the volume of each name, by the job that made it
          power,    \* "off", "on" or "paused"
          pc,       \* where a job is
          dev,      \* the device it works on
          xml,      \* the XML its backend request has read
          retries,  \* its attempts
          meant,    \* history: the disk the user saw when deleting a device
          wrong,    \* history: the delete jobs that deleted another one
          past,     \* history: the kinds of mishaps there were
          mishaps   \* how many

domainVars == <<disks, iso>>
jobVars == <<pc, dev, xml, retries>>
historyVars == <<meant, wrong>>
vars == <<domainVars, volume, power, jobVars, historyVars, past, mishaps>>

Init ==
    /\ disks = {1}
    /\ iso = None
    /\ volume = [d \in Devices |-> IF d = 1 THEN Root ELSE None]
    /\ power \in {"off", "on", "paused"}
    /\ pc = [j \in Jobs |-> IF j \in Deletes THEN "none" ELSE "queued"]
    /\ dev = [j \in Jobs |-> None]
    /\ xml = [j \in Jobs |-> None]
    /\ retries = [j \in Jobs |-> 0]
    /\ meant = [j \in Deletes |-> None]
    /\ wrong = {}
    /\ past = {}
    /\ mishaps = 0

Goto(j, p, q) == pc[j] = p /\ pc' = [pc EXCEPT ![j] = q]

\* Anything raised in a job reschedules it, or ends it after its last attempt.
Retry(j, p) ==
    /\ Goto(j, p, IF retries[j] + 1 < MaxAttempts THEN "queued" ELSE "failed")
    /\ retries' = [retries EXCEPT ![j] = @ + 1]

Running(j) == pc[j] \notin {"none", "queued", "done", "failed"}

TakeJob(j) ==
    /\ pc[j] = "queued"
    /\ Cardinality({k \in Jobs : Running(k)}) < Workers
    /\ UNCHANGED past

(***************************************************************************)
(* The user asks for a disk of the machine's page to be deleted.  (The     *)
(* other jobs are enqueued from the start: it is alike for them to wait    *)
(* for their user and for a worker.)                                       *)
(***************************************************************************)
Request(d) ==
    /\ d \in Deletes
    /\ Goto(d, "none", "queued")
    /\ \E e \in disks : /\ dev' = [dev EXCEPT ![d] = e]
                       /\ meant' = [meant EXCEPT ![d] = volume[e]]
    /\ UNCHANGED <<domainVars, volume, power, xml, retries, wrong, past, mishaps>>

(***************************************************************************)
(* DiskCreateJob: a name, a volume, and the device in the XML.             *)
(***************************************************************************)
Candidates(current) == {d + 1 : d \in current} \ current

NextDeviceName(current) == IF current = {} THEN 1 ELSE Min(Candidates(current))

FindMachine(c) ==
    /\ c \in Creates
    /\ Goto(c, "queued", "volume")
    /\ NextDeviceName(disks) \in Devices
    /\ dev' = [dev EXCEPT ![c] = NextDeviceName(disks)]
    /\ TakeJob(c)
    /\ UNCHANGED <<domainVars, volume, power, xml, retries, historyVars, mishaps>>

AddVolume(c) ==
    /\ pc[c] = "volume"
    /\ IF volume[dev[c]] = None
         THEN /\ Goto(c, "volume", "status")
              /\ volume' = [volume EXCEPT ![dev[c]] = c]
              /\ UNCHANGED retries
         ELSE Retry(c, "volume") /\ UNCHANGED volume
    /\ UNCHANGED <<domainVars, power, dev, xml, historyVars, past, mishaps>>

\* A running domain is told of the device, any other is defined anew.
Status(j) ==
    /\ Goto(j, "status", IF power = "on" THEN "attach" ELSE "read")
    /\ UNCHANGED <<domainVars, volume, power, dev, xml, retries, historyVars, past, mishaps>>

\* The machine went off after the job found it running: noted.
NoteOff == past' = IF power = "off" THEN past \union {"power"} ELSE past

Attach(c) ==
    /\ c \in Creates
    /\ pc[c] = "attach"
    /\ IF power # "off" /\ dev[c] \notin disks
         THEN /\ Goto(c, "attach", "reply")
              /\ disks' = disks \union {dev[c]}
              /\ UNCHANGED retries
         ELSE Retry(c, "attach") /\ UNCHANGED disks
    /\ NoteOff
    /\ UNCHANGED <<iso, volume, power, dev, xml, historyVars, mishaps>>

(***************************************************************************)
(* DiskDeleteJob: the device out of the XML, then the volume.              *)
(***************************************************************************)
\* `detect' finds nothing: delete_disk raises on nil.
FindDisk_First(d) ==
    /\ d \in Deletes
    /\ disks # {}
    /\ Goto(d, "queued", "status")
    /\ dev' = [dev EXCEPT ![d] = Min(disks)]
    /\ TakeJob(d)
    /\ UNCHANGED <<domainVars, volume, power, xml, retries, historyVars, mishaps>>

FindDisk_VolumeFirst(d) ==
    /\ d \in Deletes
    /\ Goto(d, "queued", "delete")
    /\ TakeJob(d)
    /\ UNCHANGED <<domainVars, volume, power, dev, xml, retries, historyVars, mishaps>>

FindDisk(d) ==
    /\ d \in Deletes
    /\ IF dev[d] \in disks
         THEN Goto(d, "queued", "status") /\ UNCHANGED retries
         ELSE Retry(d, "queued")
    /\ TakeJob(d)
    /\ UNCHANGED <<domainVars, volume, power, dev, xml, historyVars, mishaps>>

\* Without the device there is no file to name, the view dies (500), and the
\* job goes on to the volume.
Detach(d) ==
    /\ d \in Deletes
    /\ pc[d] = "attach"
    /\ IF power = "off"
         THEN Retry(d, "attach") /\ NoteOff /\ UNCHANGED disks
         ELSE /\ Goto(d, "attach", "delete")
              /\ disks' = disks \ {dev[d]}
              /\ past' = past \union (IF dev[d] \in disks THEN {} ELSE {"silent"})
              /\ UNCHANGED retries
    /\ UNCHANGED <<iso, volume, power, dev, xml, historyVars, mishaps>>

DeleteVolume_Kept(d) ==
    /\ Goto(d, "delete", "reply")
    /\ UNCHANGED <<domainVars, volume, power, dev, xml, retries, historyVars, past, mishaps>>

DeleteVolume(d) ==
    /\ pc[d] = "delete"
    /\ IF volume[dev[d]] # None
         THEN /\ Goto(d, "delete", "reply")
              /\ volume' = [volume EXCEPT ![dev[d]] = None]
              /\ wrong' = IF volume[dev[d]] = meant[d] THEN wrong ELSE wrong \union {d}
              /\ UNCHANGED retries
         ELSE Retry(d, "delete") /\ UNCHANGED <<volume, wrong>>
    /\ UNCHANGED <<domainVars, power, dev, xml, meant, past, mishaps>>

(***************************************************************************)
(* MachineMountIsoJob.  For a paused domain mount_iso has no XML to define *)
(* at its end: it dies, which the job does not notice.                     *)
(***************************************************************************)
FindIso(m) ==
    /\ m \in Mounts
    /\ Goto(m, "queued", "read")
    /\ TakeJob(m)
    /\ UNCHANGED <<domainVars, volume, power, dev, xml, retries, historyVars, mishaps>>

\* The domain that runs gets the image at once, and its XML is read again.
\* (That it could go off before its status is asked for once more, and be
\* given the XML read at first, is left out.)
MountLive(m) ==
    /\ Goto(m, "mount", IF power = "on" THEN "define" ELSE "check")
    /\ IF power = "on"
         THEN /\ iso' = m
              /\ xml' = [xml EXCEPT ![m] = [disks |-> disks, iso |-> m]]
         ELSE UNCHANGED <<iso, xml>>
    /\ UNCHANGED <<disks, volume, power, dev, retries, historyVars, past, mishaps>>

\* The domain that is off is given the XML read at first; one that is in neither
\* state leaves the request without an XML to define.
MountOff(m) ==
    /\ Goto(m, "check", IF power = "off" THEN "define" ELSE "reply")
    /\ past' = past \union (IF power = "off" THEN {} ELSE {"silent"})
    /\ UNCHANGED <<domainVars, volume, power, dev, xml, retries, historyVars, mishaps>>

(***************************************************************************)
(* Reading and defining the XML are two calls of libvirt.                  *)
(***************************************************************************)
ReadXML(j) ==
    /\ Goto(j, "read", IF j \in Mounts THEN "mount" ELSE "define")
    /\ xml' = [xml EXCEPT ![j] = [disks |-> disks, iso |-> iso]]
    /\ UNCHANGED <<domainVars, volume, power, dev, retries, historyVars, past, mishaps>>

\* The XML a job makes of the one it has read.
Edited(j) ==
    CASE j \in Creates -> [xml[j] EXCEPT !.disks = @ \union {dev[j]}]
      [] j \in Deletes -> [xml[j] EXCEPT !.disks = @ \ {dev[j]}]
      [] j \in Mounts  -> [xml[j] EXCEPT !.iso = j]

\* The domain has changed since the XML was read: the change is lost.
Stale(j) == xml[j] # [disks |-> disks, iso |-> iso]

DefineXML(j) ==
    /\ pc[j] = "define"
    /\ IF j \in Creates /\ dev[j] \in xml[j].disks
         THEN Retry(j, "define") /\ UNCHANGED <<domainVars, past>>
         ELSE /\ Goto(j, "define", IF j \in Deletes THEN "delete" ELSE "reply")
              /\ disks' = Edited(j).disks
              /\ iso' = Edited(j).iso
              /\ past' = past \union (IF Stale(j) THEN {"lost"} ELSE {})
              /\ UNCHANGED retries
    /\ xml' = [xml EXCEPT ![j] = None]
    /\ UNCHANGED <<volume, power, dev, historyVars, mishaps>>

\* The page the last call was redirected to has arrived: the job is done.
Reply(j) ==
    /\ Goto(j, "reply", "done")
    /\ UNCHANGED <<domainVars, volume, power, dev, xml, retries, historyVars, past, mishaps>>

(***************************************************************************)
(* Mishaps.                                                                *)
(***************************************************************************)
Mishap(kind) ==
    /\ mishaps < MaxMishaps
    /\ mishaps' = mishaps + 1
    /\ past' = past \union {kind}

\* Also at "reply": the call was carried out, but its job does not know.
Fault(j) ==
    /\ Running(j)
    /\ Mishap("fault")
    /\ Retry(j, pc[j])
    /\ xml' = [xml EXCEPT ![j] = None]
    /\ UNCHANGED <<domainVars, volume, power, dev, historyVars>>

\* Where a job goes on when its call was answered without being carried out.
AfterCall(j) ==
    CASE pc[j] = "volume" -> "status"
      [] pc[j] \in {"status", "attach", "read", "mount", "check", "define"} ->
            IF j \in Deletes THEN "delete" ELSE "reply"
      [] pc[j] \in {"delete", "reply"} -> "reply"

Silent(j) ==
    /\ Running(j)
    /\ Mishap("silent")
    /\ Goto(j, pc[j], AfterCall(j))
    /\ xml' = [xml EXCEPT ![j] = None]
    /\ UNCHANGED <<domainVars, volume, power, dev, retries, historyVars>>

Crash(j) ==
    /\ Running(j)
    /\ Mishap("crash")
    /\ Goto(j, pc[j], "queued")
    /\ xml' = [xml EXCEPT ![j] = None]
    /\ UNCHANGED <<domainVars, volume, power, dev, retries, historyVars>>

\* The user starts, stops, pauses and resumes the machine.
Switch ==
    /\ mishaps < MaxMishaps
    /\ mishaps' = mishaps + 1
    /\ \/ power = "off" /\ power' = "on"
       \/ power = "on" /\ power' \in {"off", "paused"}
       \/ power = "paused" /\ power' \in {"off", "on"}
    /\ UNCHANGED <<domainVars, volume, jobVars, historyVars, past>>

-----------------------------------------------------------------------------
Step(j) ==
    \/ FindMachine(j) \/ AddVolume(j) \/ Attach(j)
    \/ FindDisk(j) \/ Detach(j) \/ DeleteVolume(j)
    \/ FindIso(j) \/ MountLive(j) \/ MountOff(j)
    \/ Status(j) \/ ReadXML(j) \/ DefineXML(j) \/ Reply(j)

Next ==
    \/ \E j \in Jobs : \/ Request(j) \/ Step(j)
                       \/ Fault(j) \/ Silent(j) \/ Crash(j)
    \/ Switch

Spec == Init /\ [][Next]_vars

-----------------------------------------------------------------------------
Never(kinds) == past \intersect kinds = {}

\* No two delete jobs are for the same device.
Distinct == \A j, k \in Deletes : j # k /\ dev[j] # None => dev[j] # dev[k]

\* The machine's XML names no volume that does not exist (the machine could not
\* start), although jobs overlap, calls fail loudly, workers die, attempts are
\* repeated and the power changes, as long as no update of the XML is lost and
\* no device is deleted by two jobs.
DiskHasVolume ==
    Never({"lost", "silent"}) /\ Distinct => \A d \in disks : volume[d] # None

\* When nothing fails, nothing is lost and the power is left alone, no volume is
\* left over once the jobs are through (it would take the name of the next disk,
\* see AddVolume): each is a disk of the machine.
Quiet == Never({"lost", "fault", "silent", "crash"})

NoLeftover ==
    /\ Quiet /\ Never({"power"}) /\ Distinct
    /\ \A j \in Jobs : ~Running(j)
    => \A d \in Devices : volume[d] # None => d \in disks

\* No two delete jobs were requested for the same disk.
AllOnce == \A j, k \in Deletes : j # k /\ meant[j] # None => meant[j] # meant[k]

\* A delete job deletes the disk the user saw, and not one that has taken over
\* its device name, when its attempts are not repeated after a failure and no
\* disk is requested to be deleted twice.  (disk_delete_job.rb warns that it may
\* possibly delete a wrong disk: after a repeated attempt or request it does.)
RightDisk == Quiet /\ AllOnce => wrong = {}

=============================================================================
