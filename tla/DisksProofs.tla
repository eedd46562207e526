----------------------------- MODULE DisksProofs -----------------------------
(***************************************************************************)
(* Proofs about the disks of a machine, for any number of jobs, workers,   *)
(* attempts, device names and mishaps: its disks have volumes, none is     *)
(* left over, and the right one is deleted.  All of it rests on one fact,  *)
(* Core: as long as no update of the XML is lost and no two delete jobs in *)
(* hand are for one device (Apart), a device in anybody's hands is nobody  *)
(* else's.                                                                 *)
(***************************************************************************)
EXTENDS Disks, TLAPS

CreatePlaces == {"queued", "volume", "status", "attach", "read", "define",
                 "reply", "done", "failed"}
DeletePlaces == {"none", "queued", "status", "attach", "read", "define",
                 "delete", "reply", "done", "failed"}
MountPlaces == {"queued", "read", "mount", "check", "define", "reply", "done",
                "failed"}

XML == [disks : SUBSET Devices, iso : Mounts \union {None}]

\* Where a job is between making or finding its volume and updating the XML.
Between == {"status", "attach", "read", "define"}

\* Where a delete job has not done its work.
Before == Between \union {"queued", "delete"}

JobTypes ==
    /\ DOMAIN pc = Jobs
    /\ \A c \in Creates : pc[c] \in CreatePlaces
    /\ \A d \in Deletes : pc[d] \in DeletePlaces
    /\ \A m \in Mounts : pc[m] \in MountPlaces

DevTypes ==
    /\ DOMAIN dev = Jobs
    /\ \A c \in Creates :
          pc[c] \in Between \union {"volume"} => dev[c] \in Devices
    /\ \A d \in Deletes :
          IF pc[d] = "none" THEN dev[d] = None ELSE dev[d] \in Devices

XMLTypes ==
    /\ DOMAIN xml = Jobs
    /\ \A j \in Jobs : pc[j] \in {"mount", "check", "define"} => xml[j] \in XML

MeantTypes ==
    /\ DOMAIN meant = Deletes
    /\ \A d \in Deletes : pc[d] = "none" => meant[d] = None

DomainTypes ==
    /\ disks \subseteq Devices
    /\ iso \in Mounts \union {None}
    /\ volume \in [Devices -> Creates \union {Root, None}]

\* The types, and which variables are of use in which places.
Types == JobTypes /\ DevTypes /\ XMLTypes /\ MeantTypes /\ DomainTypes

\* Create job c is adding device v; delete job d has taken v out of the XML.
Holds(c, v) == pc[c] \in Between /\ dev[c] = v
Frees(d, v) == pc[d] = "delete" /\ dev[d] = v

\* The device of a delete job in hand is no other delete job's.
Apart == \A j, k \in Deletes :
            j # k /\ pc[j] \in Before /\ pc[k] \in Before => dev[j] # dev[k]

(***************************************************************************)
(* The heart of it.                                                        *)
(***************************************************************************)
DisksWhole == \A v \in disks : volume[v] # None

\* A device that is being added has a volume, is not in the XML yet and is
\* nobody else's.
Held == \A c \in Creates : pc[c] \in Between =>
            /\ volume[dev[c]] # None
            /\ dev[c] \notin disks
            /\ \A k \in Creates \ {c} : ~Holds(k, dev[c])
            /\ \A d \in Deletes : ~Frees(d, dev[c])

\* Nor is it in the XML that was read: DefineXML does not raise.
HeldXML == \A c \in Creates : pc[c] = "define" => dev[c] \notin xml[c].disks

\* A device that is being deleted is in the XML until it is taken out, and has
\* its volume until that goes.
Found == \A d \in Deletes :
            /\ pc[d] \in Between => dev[d] \in disks
            /\ pc[d] = "delete" => dev[d] \notin disks /\ volume[dev[d]] # None

Core == DisksWhole /\ Held /\ HeldXML /\ Found

\* What is going to be deleted is what the user saw.
Right == \A d \in Deletes : pc[d] \in Before =>
            /\ meant[d] # None
            /\ volume[dev[d]] = meant[d]
            /\ pc[d] # "delete" => dev[d] \in disks

RightOnly == wrong = {}

\* Every volume is a disk, about to become one, or about to go.
Used == \A v \in Devices : volume[v] # None =>
            \/ v \in disks
            \/ \E c \in Creates : Holds(c, v)
            \/ \E d \in Deletes : Frees(d, v)

(***************************************************************************)
(* Each part under the premises of the property it is for.                 *)
(***************************************************************************)
CoreInv == Never({"lost", "silent"}) /\ Distinct => Core
RightInv == Quiet /\ AllOnce => Core /\ Right /\ RightOnly
UsedInv == Quiet /\ Never({"power"}) /\ Distinct => Used
Inv == Types /\ CoreInv /\ RightInv /\ UsedInv

-----------------------------------------------------------------------------
\* Which jobs get to which places.
LEMMA Kinds ==
    ASSUME Types
    PROVE  \A j \in Jobs :
             /\ j \in Creates => j \notin Deletes /\ j \notin Mounts
             /\ j \in Deletes => j \notin Mounts
             /\ pc[j] = "volume" => j \in Creates
             /\ pc[j] = "delete" => j \in Deletes
             /\ pc[j] = "none" => j \in Deletes
             /\ pc[j] \in {"status", "attach"} => j \in Creates \union Deletes
             /\ pc[j] \in {"mount", "check"} => j \in Mounts
             /\ pc[j] \in CreatePlaces \union DeletePlaces \union MountPlaces
BY DisksAssumption DEF Types, JobTypes, CreatePlaces, DeletePlaces, MountPlaces,
   Jobs

\* Every step is one of a job, or the user's switch.
LEMMA Steps ==
    ASSUME [Next]_vars
    PROVE  \/ Switch \/ UNCHANGED vars
           \/ \E j \in Jobs :
                \/ Request(j) \/ FindMachine(j) \/ AddVolume(j) \/ Attach(j)
                \/ FindDisk(j) \/ Detach(j) \/ DeleteVolume(j) \/ FindIso(j)
                \/ MountLive(j) \/ MountOff(j) \/ Status(j) \/ ReadXML(j)
                \/ DefineXML(j) \/ Reply(j) \/ Fault(j) \/ Silent(j)
                \/ Crash(j)
BY DEF Next, Step

-----------------------------------------------------------------------------
\* The types hold, whatever happens.
LEMMA TypesInit == Init => Types
BY DisksAssumption DEF Init, Types, JobTypes, DevTypes, XMLTypes, MeantTypes,
   DomainTypes, CreatePlaces, DeletePlaces, MountPlaces, Between, Devices, Jobs

\* Each action leaves its job in a place of its kind, with what it needs there.
LEMMA TypesStep == Types /\ [Next]_vars => Types'
<1> SUFFICES ASSUME Types, [Next]_vars PROVE Types'
  OBVIOUS
<1>1. ASSUME NEW j \in Jobs, Request(j) PROVE Types'
  <2>1. JobTypes'
    BY <1>1, DisksAssumption, Kinds DEF Request, Goto, domainVars, Types,
       JobTypes, CreatePlaces, DeletePlaces, MountPlaces, Jobs
  <2>2. DevTypes'
    BY <1>1, DisksAssumption, Kinds DEF Request, Goto, domainVars, Types,
       JobTypes, DevTypes, DomainTypes, CreatePlaces, DeletePlaces,
       MountPlaces, Between, Jobs
  <2>3. XMLTypes'
    BY <1>1, DisksAssumption, Kinds DEF Request, Goto, domainVars, Types,
       JobTypes, XMLTypes, DomainTypes, XML, CreatePlaces, DeletePlaces,
       MountPlaces, Jobs
  <2>4. MeantTypes'
    BY <1>1, DisksAssumption, Kinds DEF Request, Goto, domainVars, Types,
       JobTypes, MeantTypes, CreatePlaces, DeletePlaces, MountPlaces, Jobs
  <2>5. DomainTypes'
    BY <1>1, DisksAssumption, Kinds DEF Request, Goto, domainVars, Types,
       JobTypes, DevTypes, XMLTypes, DomainTypes, XML, Between, Jobs
  <2> QED BY <2>1, <2>2, <2>3, <2>4, <2>5 DEF Types

<1>2. ASSUME NEW j \in Jobs, FindMachine(j) PROVE Types'
  <2>1. JobTypes'
    BY <1>2, DisksAssumption, Kinds DEF FindMachine, Goto, TakeJob, Running,
       domainVars, historyVars, Types, JobTypes, CreatePlaces, DeletePlaces,
       MountPlaces, Jobs
  <2>2. DevTypes'
    BY <1>2, DisksAssumption, Kinds DEF FindMachine, Goto, TakeJob, Running,
       domainVars, historyVars, Types, JobTypes, DevTypes, DomainTypes,
       CreatePlaces, DeletePlaces, MountPlaces, Between, Jobs
  <2>3. XMLTypes'
    BY <1>2, DisksAssumption, Kinds DEF FindMachine, Goto, TakeJob, Running,
       domainVars, historyVars, Types, JobTypes, XMLTypes, DomainTypes, XML,
       CreatePlaces, DeletePlaces, MountPlaces, Jobs
  <2>4. MeantTypes'
    BY <1>2, DisksAssumption, Kinds DEF FindMachine, Goto, TakeJob, Running,
       domainVars, historyVars, Types, JobTypes, MeantTypes, CreatePlaces,
       DeletePlaces, MountPlaces, Jobs
  <2>5. DomainTypes'
    BY <1>2, DisksAssumption, Kinds DEF FindMachine, Goto, TakeJob, Running,
       domainVars, historyVars, Types, JobTypes, DevTypes, XMLTypes,
       DomainTypes, XML, Between, Jobs
  <2> QED BY <2>1, <2>2, <2>3, <2>4, <2>5 DEF Types

<1>3. ASSUME NEW j \in Jobs, AddVolume(j) PROVE Types'
  <2>1. JobTypes'
    BY <1>3, DisksAssumption, Kinds DEF AddVolume, Goto, Retry, domainVars,
       historyVars, Types, JobTypes, CreatePlaces, DeletePlaces, MountPlaces,
       Jobs
  <2>2. DevTypes'
    BY <1>3, DisksAssumption, Kinds DEF AddVolume, Goto, Retry, domainVars,
       historyVars, Types, JobTypes, DevTypes, DomainTypes, CreatePlaces,
       DeletePlaces, MountPlaces, Between, Jobs
  <2>3. XMLTypes'
    BY <1>3, DisksAssumption, Kinds DEF AddVolume, Goto, Retry, domainVars,
       historyVars, Types, JobTypes, XMLTypes, DomainTypes, XML, CreatePlaces,
       DeletePlaces, MountPlaces, Jobs
  <2>4. MeantTypes'
    BY <1>3, DisksAssumption, Kinds DEF AddVolume, Goto, Retry, domainVars,
       historyVars, Types, JobTypes, MeantTypes, CreatePlaces, DeletePlaces,
       MountPlaces, Jobs
  <2>5. DomainTypes'
    BY <1>3, DisksAssumption, Kinds DEF AddVolume, Goto, Retry, domainVars,
       historyVars, Types, JobTypes, DevTypes, XMLTypes, DomainTypes, XML,
       Between, Jobs
  <2> QED BY <2>1, <2>2, <2>3, <2>4, <2>5 DEF Types

<1>4. ASSUME NEW j \in Jobs, Attach(j) PROVE Types'
  <2>1. JobTypes'
    BY <1>4, DisksAssumption, Kinds DEF Attach, Goto, Retry, NoteOff,
       historyVars, Types, JobTypes, CreatePlaces, DeletePlaces, MountPlaces,
       Jobs
  <2>2. DevTypes'
    BY <1>4, DisksAssumption, Kinds DEF Attach, Goto, Retry, NoteOff,
       historyVars, Types, JobTypes, DevTypes, DomainTypes, CreatePlaces,
       DeletePlaces, MountPlaces, Between, Jobs
  <2>3. XMLTypes'
    BY <1>4, DisksAssumption, Kinds DEF Attach, Goto, Retry, NoteOff,
       historyVars, Types, JobTypes, XMLTypes, DomainTypes, XML, CreatePlaces,
       DeletePlaces, MountPlaces, Jobs
  <2>4. MeantTypes'
    BY <1>4, DisksAssumption, Kinds DEF Attach, Goto, Retry, NoteOff,
       historyVars, Types, JobTypes, MeantTypes, CreatePlaces, DeletePlaces,
       MountPlaces, Jobs
  <2>5. DomainTypes'
    BY <1>4, DisksAssumption, Kinds DEF Attach, Goto, Retry, NoteOff,
       historyVars, Types, JobTypes, DevTypes, XMLTypes, DomainTypes, XML,
       Between, Jobs
  <2> QED BY <2>1, <2>2, <2>3, <2>4, <2>5 DEF Types

<1>5. ASSUME NEW j \in Jobs, FindDisk(j) PROVE Types'
  <2>1. JobTypes'
    BY <1>5, DisksAssumption, Kinds DEF FindDisk, Goto, Retry, TakeJob,
       Running, domainVars, historyVars, Types, JobTypes, CreatePlaces,
       DeletePlaces, MountPlaces, Jobs
  <2>2. DevTypes'
    BY <1>5, DisksAssumption, Kinds DEF FindDisk, Goto, Retry, TakeJob,
       Running, domainVars, historyVars, Types, JobTypes, DevTypes,
       DomainTypes, CreatePlaces, DeletePlaces, MountPlaces, Between, Jobs
  <2>3. XMLTypes'
    BY <1>5, DisksAssumption, Kinds DEF FindDisk, Goto, Retry, TakeJob,
       Running, domainVars, historyVars, Types, JobTypes, XMLTypes,
       DomainTypes, XML, CreatePlaces, DeletePlaces, MountPlaces, Jobs
  <2>4. MeantTypes'
    BY <1>5, DisksAssumption, Kinds DEF FindDisk, Goto, Retry, TakeJob,
       Running, domainVars, historyVars, Types, JobTypes, MeantTypes,
       CreatePlaces, DeletePlaces, MountPlaces, Jobs
  <2>5. DomainTypes'
    BY <1>5, DisksAssumption, Kinds DEF FindDisk, Goto, Retry, TakeJob,
       Running, domainVars, historyVars, Types, JobTypes, DevTypes, XMLTypes,
       DomainTypes, XML, Between, Jobs
  <2> QED BY <2>1, <2>2, <2>3, <2>4, <2>5 DEF Types

<1>6. ASSUME NEW j \in Jobs, Detach(j) PROVE Types'
  <2>1. JobTypes'
    BY <1>6, DisksAssumption, Kinds DEF Detach, Retry, Goto, NoteOff,
       historyVars, Types, JobTypes, CreatePlaces, DeletePlaces, MountPlaces,
       Jobs
  <2>2. DevTypes'
    BY <1>6, DisksAssumption, Kinds DEF Detach, Retry, Goto, NoteOff,
       historyVars, Types, JobTypes, DevTypes, DomainTypes, CreatePlaces,
       DeletePlaces, MountPlaces, Between, Jobs
  <2>3. XMLTypes'
    BY <1>6, DisksAssumption, Kinds DEF Detach, Retry, Goto, NoteOff,
       historyVars, Types, JobTypes, XMLTypes, DomainTypes, XML, CreatePlaces,
       DeletePlaces, MountPlaces, Jobs
  <2>4. MeantTypes'
    BY <1>6, DisksAssumption, Kinds DEF Detach, Retry, Goto, NoteOff,
       historyVars, Types, JobTypes, MeantTypes, CreatePlaces, DeletePlaces,
       MountPlaces, Jobs
  <2>5. DomainTypes'
    BY <1>6, DisksAssumption, Kinds DEF Detach, Retry, Goto, NoteOff,
       historyVars, Types, JobTypes, DevTypes, XMLTypes, DomainTypes, XML,
       Between, Jobs
  <2> QED BY <2>1, <2>2, <2>3, <2>4, <2>5 DEF Types

<1>7. ASSUME NEW j \in Jobs, DeleteVolume(j) PROVE Types'
  <2>1. JobTypes'
    BY <1>7, DisksAssumption, Kinds DEF DeleteVolume, Goto, Retry, domainVars,
       Types, JobTypes, CreatePlaces, DeletePlaces, MountPlaces, Jobs
  <2>2. DevTypes'
    BY <1>7, DisksAssumption, Kinds DEF DeleteVolume, Goto, Retry, domainVars,
       Types, JobTypes, DevTypes, DomainTypes, CreatePlaces, DeletePlaces,
       MountPlaces, Between, Jobs
  <2>3. XMLTypes'
    BY <1>7, DisksAssumption, Kinds DEF DeleteVolume, Goto, Retry, domainVars,
       Types, JobTypes, XMLTypes, DomainTypes, XML, CreatePlaces,
       DeletePlaces, MountPlaces, Jobs
  <2>4. MeantTypes'
    BY <1>7, DisksAssumption, Kinds DEF DeleteVolume, Goto, Retry, domainVars,
       Types, JobTypes, MeantTypes, CreatePlaces, DeletePlaces, MountPlaces,
       Jobs
  <2>5. DomainTypes'
    BY <1>7, DisksAssumption, Kinds DEF DeleteVolume, Goto, Retry, domainVars,
       Types, JobTypes, DevTypes, XMLTypes, DomainTypes, XML, Between, Jobs
  <2> QED BY <2>1, <2>2, <2>3, <2>4, <2>5 DEF Types

<1>8. ASSUME NEW j \in Jobs, FindIso(j) PROVE Types'
  <2>1. JobTypes'
    BY <1>8, DisksAssumption, Kinds DEF FindIso, Goto, TakeJob, Running,
       domainVars, historyVars, Types, JobTypes, CreatePlaces, DeletePlaces,
       MountPlaces, Jobs
  <2>2. DevTypes'
    BY <1>8, DisksAssumption, Kinds DEF FindIso, Goto, TakeJob, Running,
       domainVars, historyVars, Types, JobTypes, DevTypes, DomainTypes,
       CreatePlaces, DeletePlaces, MountPlaces, Between, Jobs
  <2>3. XMLTypes'
    BY <1>8, DisksAssumption, Kinds DEF FindIso, Goto, TakeJob, Running,
       domainVars, historyVars, Types, JobTypes, XMLTypes, DomainTypes, XML,
       CreatePlaces, DeletePlaces, MountPlaces, Jobs
  <2>4. MeantTypes'
    BY <1>8, DisksAssumption, Kinds DEF FindIso, Goto, TakeJob, Running,
       domainVars, historyVars, Types, JobTypes, MeantTypes, CreatePlaces,
       DeletePlaces, MountPlaces, Jobs
  <2>5. DomainTypes'
    BY <1>8, DisksAssumption, Kinds DEF FindIso, Goto, TakeJob, Running,
       domainVars, historyVars, Types, JobTypes, DevTypes, XMLTypes,
       DomainTypes, XML, Between, Jobs
  <2> QED BY <2>1, <2>2, <2>3, <2>4, <2>5 DEF Types

<1>9. ASSUME NEW j \in Jobs, MountLive(j) PROVE Types'
  <2>1. JobTypes'
    BY <1>9, DisksAssumption, Kinds DEF MountLive, Goto, historyVars, Types,
       JobTypes, CreatePlaces, DeletePlaces, MountPlaces, Jobs
  <2>2. DevTypes'
    BY <1>9, DisksAssumption, Kinds DEF MountLive, Goto, historyVars, Types,
       JobTypes, DevTypes, DomainTypes, CreatePlaces, DeletePlaces,
       MountPlaces, Between, Jobs
  <2>3. XMLTypes'
    BY <1>9, DisksAssumption, Kinds DEF MountLive, Goto, historyVars, Types,
       JobTypes, XMLTypes, DomainTypes, XML, CreatePlaces, DeletePlaces,
       MountPlaces, Jobs
  <2>4. MeantTypes'
    BY <1>9, DisksAssumption, Kinds DEF MountLive, Goto, historyVars, Types,
       JobTypes, MeantTypes, CreatePlaces, DeletePlaces, MountPlaces, Jobs
  <2>5. DomainTypes'
    BY <1>9, DisksAssumption, Kinds DEF MountLive, Goto, historyVars, Types,
       JobTypes, DevTypes, XMLTypes, DomainTypes, XML, Between, Jobs
  <2> QED BY <2>1, <2>2, <2>3, <2>4, <2>5 DEF Types

<1>10. ASSUME NEW j \in Jobs, MountOff(j) PROVE Types'
  <2>1. JobTypes'
    BY <1>10, DisksAssumption, Kinds DEF MountOff, Goto, domainVars,
       historyVars, Types, JobTypes, CreatePlaces, DeletePlaces, MountPlaces,
       Jobs
  <2>2. DevTypes'
    BY <1>10, DisksAssumption, Kinds DEF MountOff, Goto, domainVars,
       historyVars, Types, JobTypes, DevTypes, DomainTypes, CreatePlaces,
       DeletePlaces, MountPlaces, Between, Jobs
  <2>3. XMLTypes'
    BY <1>10, DisksAssumption, Kinds DEF MountOff, Goto, domainVars,
       historyVars, Types, JobTypes, XMLTypes, DomainTypes, XML, CreatePlaces,
       DeletePlaces, MountPlaces, Jobs
  <2>4. MeantTypes'
    BY <1>10, DisksAssumption, Kinds DEF MountOff, Goto, domainVars,
       historyVars, Types, JobTypes, MeantTypes, CreatePlaces, DeletePlaces,
       MountPlaces, Jobs
  <2>5. DomainTypes'
    BY <1>10, DisksAssumption, Kinds DEF MountOff, Goto, domainVars,
       historyVars, Types, JobTypes, DevTypes, XMLTypes, DomainTypes, XML,
       Between, Jobs
  <2> QED BY <2>1, <2>2, <2>3, <2>4, <2>5 DEF Types

<1>11. ASSUME NEW j \in Jobs, Status(j) PROVE Types'
  <2>1. JobTypes'
    BY <1>11, DisksAssumption, Kinds DEF Status, Goto, domainVars,
       historyVars, Types, JobTypes, CreatePlaces, DeletePlaces, MountPlaces,
       Jobs
  <2>2. DevTypes'
    BY <1>11, DisksAssumption, Kinds DEF Status, Goto, domainVars,
       historyVars, Types, JobTypes, DevTypes, DomainTypes, CreatePlaces,
       DeletePlaces, MountPlaces, Between, Jobs
  <2>3. XMLTypes'
    BY <1>11, DisksAssumption, Kinds DEF Status, Goto, domainVars,
       historyVars, Types, JobTypes, XMLTypes, DomainTypes, XML, CreatePlaces,
       DeletePlaces, MountPlaces, Jobs
  <2>4. MeantTypes'
    BY <1>11, DisksAssumption, Kinds DEF Status, Goto, domainVars,
       historyVars, Types, JobTypes, MeantTypes, CreatePlaces, DeletePlaces,
       MountPlaces, Jobs
  <2>5. DomainTypes'
    BY <1>11, DisksAssumption, Kinds DEF Status, Goto, domainVars,
       historyVars, Types, JobTypes, DevTypes, XMLTypes, DomainTypes, XML,
       Between, Jobs
  <2> QED BY <2>1, <2>2, <2>3, <2>4, <2>5 DEF Types

<1>12. ASSUME NEW j \in Jobs, ReadXML(j) PROVE Types'
  <2>1. JobTypes'
    BY <1>12, DisksAssumption, Kinds DEF ReadXML, Goto, domainVars,
       historyVars, Types, JobTypes, CreatePlaces, DeletePlaces, MountPlaces,
       Jobs
  <2>2. DevTypes'
    BY <1>12, DisksAssumption, Kinds DEF ReadXML, Goto, domainVars,
       historyVars, Types, JobTypes, DevTypes, DomainTypes, CreatePlaces,
       DeletePlaces, MountPlaces, Between, Jobs
  <2>3. XMLTypes'
    BY <1>12, DisksAssumption, Kinds DEF ReadXML, Goto, domainVars,
       historyVars, Types, JobTypes, XMLTypes, DomainTypes, XML, CreatePlaces,
       DeletePlaces, MountPlaces, Jobs
  <2>4. MeantTypes'
    BY <1>12, DisksAssumption, Kinds DEF ReadXML, Goto, domainVars,
       historyVars, Types, JobTypes, MeantTypes, CreatePlaces, DeletePlaces,
       MountPlaces, Jobs
  <2>5. DomainTypes'
    BY <1>12, DisksAssumption, Kinds DEF ReadXML, Goto, domainVars,
       historyVars, Types, JobTypes, DevTypes, XMLTypes, DomainTypes, XML,
       Between, Jobs
  <2> QED BY <2>1, <2>2, <2>3, <2>4, <2>5 DEF Types

<1>13. ASSUME NEW j \in Jobs, DefineXML(j) PROVE Types'
  <2>1. JobTypes'
    BY <1>13, DisksAssumption, Kinds DEF DefineXML, Retry, Goto, domainVars,
       Edited, historyVars, Stale, Types, JobTypes, CreatePlaces,
       DeletePlaces, MountPlaces, Jobs
  <2>2. DevTypes'
    BY <1>13, DisksAssumption, Kinds DEF DefineXML, Retry, Goto, domainVars,
       Edited, historyVars, Stale, Types, JobTypes, DevTypes, DomainTypes,
       CreatePlaces, DeletePlaces, MountPlaces, Between, Jobs
  <2>3. XMLTypes'
    BY <1>13, DisksAssumption, Kinds DEF DefineXML, Retry, Goto, domainVars,
       Edited, historyVars, Stale, Types, JobTypes, XMLTypes, DomainTypes,
       XML, CreatePlaces, DeletePlaces, MountPlaces, Jobs
  <2>4. MeantTypes'
    BY <1>13, DisksAssumption, Kinds DEF DefineXML, Retry, Goto, domainVars,
       Edited, historyVars, Stale, Types, JobTypes, MeantTypes, CreatePlaces,
       DeletePlaces, MountPlaces, Jobs
  <2>5. DomainTypes'
    BY <1>13, DisksAssumption, Kinds DEF DefineXML, Retry, Goto, domainVars,
       Edited, historyVars, Stale, Types, JobTypes, DevTypes, XMLTypes,
       DomainTypes, XML, Between, Jobs
  <2> QED BY <2>1, <2>2, <2>3, <2>4, <2>5 DEF Types

<1>14. ASSUME NEW j \in Jobs, Reply(j) PROVE Types'
  <2>1. JobTypes'
    BY <1>14, DisksAssumption, Kinds DEF Reply, Goto, domainVars, historyVars,
       Types, JobTypes, CreatePlaces, DeletePlaces, MountPlaces, Jobs
  <2>2. DevTypes'
    BY <1>14, DisksAssumption, Kinds DEF Reply, Goto, domainVars, historyVars,
       Types, JobTypes, DevTypes, DomainTypes, CreatePlaces, DeletePlaces,
       MountPlaces, Between, Jobs
  <2>3. XMLTypes'
    BY <1>14, DisksAssumption, Kinds DEF Reply, Goto, domainVars, historyVars,
       Types, JobTypes, XMLTypes, DomainTypes, XML, CreatePlaces,
       DeletePlaces, MountPlaces, Jobs
  <2>4. MeantTypes'
    BY <1>14, DisksAssumption, Kinds DEF Reply, Goto, domainVars, historyVars,
       Types, JobTypes, MeantTypes, CreatePlaces, DeletePlaces, MountPlaces,
       Jobs
  <2>5. DomainTypes'
    BY <1>14, DisksAssumption, Kinds DEF Reply, Goto, domainVars, historyVars,
       Types, JobTypes, DevTypes, XMLTypes, DomainTypes, XML, Between, Jobs
  <2> QED BY <2>1, <2>2, <2>3, <2>4, <2>5 DEF Types

<1>15. ASSUME NEW j \in Jobs, Fault(j) PROVE Types'
  <2>1. JobTypes'
    BY <1>15, DisksAssumption, Kinds DEF Fault, Running, Mishap, Retry, Goto,
       domainVars, historyVars, Types, JobTypes, CreatePlaces, DeletePlaces,
       MountPlaces, Jobs
  <2>2. DevTypes'
    BY <1>15, DisksAssumption, Kinds DEF Fault, Running, Mishap, Retry, Goto,
       domainVars, historyVars, Types, JobTypes, DevTypes, DomainTypes,
       CreatePlaces, DeletePlaces, MountPlaces, Between, Jobs
  <2>3. XMLTypes'
    BY <1>15, DisksAssumption, Kinds DEF Fault, Running, Mishap, Retry, Goto,
       domainVars, historyVars, Types, JobTypes, XMLTypes, DomainTypes, XML,
       CreatePlaces, DeletePlaces, MountPlaces, Jobs
  <2>4. MeantTypes'
    BY <1>15, DisksAssumption, Kinds DEF Fault, Running, Mishap, Retry, Goto,
       domainVars, historyVars, Types, JobTypes, MeantTypes, CreatePlaces,
       DeletePlaces, MountPlaces, Jobs
  <2>5. DomainTypes'
    BY <1>15, DisksAssumption, Kinds DEF Fault, Running, Mishap, Retry, Goto,
       domainVars, historyVars, Types, JobTypes, DevTypes, XMLTypes,
       DomainTypes, XML, Between, Jobs
  <2> QED BY <2>1, <2>2, <2>3, <2>4, <2>5 DEF Types

<1>16. ASSUME NEW j \in Jobs, Silent(j) PROVE Types'
  <2>1. JobTypes'
    BY <1>16, DisksAssumption, Kinds DEF Silent, Running, Mishap, Goto,
       AfterCall, domainVars, historyVars, Types, JobTypes, CreatePlaces,
       DeletePlaces, MountPlaces, Jobs
  <2>2. DevTypes'
    BY <1>16, DisksAssumption, Kinds DEF Silent, Running, Mishap, Goto,
       AfterCall, domainVars, historyVars, Types, JobTypes, DevTypes,
       DomainTypes, CreatePlaces, DeletePlaces, MountPlaces, Between, Jobs
  <2>3. XMLTypes'
    BY <1>16, DisksAssumption, Kinds DEF Silent, Running, Mishap, Goto,
       AfterCall, domainVars, historyVars, Types, JobTypes, XMLTypes,
       DomainTypes, XML, CreatePlaces, DeletePlaces, MountPlaces, Jobs
  <2>4. MeantTypes'
    BY <1>16, DisksAssumption, Kinds DEF Silent, Running, Mishap, Goto,
       AfterCall, domainVars, historyVars, Types, JobTypes, MeantTypes,
       CreatePlaces, DeletePlaces, MountPlaces, Jobs
  <2>5. DomainTypes'
    BY <1>16, DisksAssumption, Kinds DEF Silent, Running, Mishap, Goto,
       AfterCall, domainVars, historyVars, Types, JobTypes, DevTypes,
       XMLTypes, DomainTypes, XML, Between, Jobs
  <2> QED BY <2>1, <2>2, <2>3, <2>4, <2>5 DEF Types

<1>17. ASSUME NEW j \in Jobs, Crash(j) PROVE Types'
  <2>1. JobTypes'
    BY <1>17, DisksAssumption, Kinds DEF Crash, Running, Mishap, Goto,
       domainVars, historyVars, Types, JobTypes, CreatePlaces, DeletePlaces,
       MountPlaces, Jobs
  <2>2. DevTypes'
    BY <1>17, DisksAssumption, Kinds DEF Crash, Running, Mishap, Goto,
       domainVars, historyVars, Types, JobTypes, DevTypes, DomainTypes,
       CreatePlaces, DeletePlaces, MountPlaces, Between, Jobs
  <2>3. XMLTypes'
    BY <1>17, DisksAssumption, Kinds DEF Crash, Running, Mishap, Goto,
       domainVars, historyVars, Types, JobTypes, XMLTypes, DomainTypes, XML,
       CreatePlaces, DeletePlaces, MountPlaces, Jobs
  <2>4. MeantTypes'
    BY <1>17, DisksAssumption, Kinds DEF Crash, Running, Mishap, Goto,
       domainVars, historyVars, Types, JobTypes, MeantTypes, CreatePlaces,
       DeletePlaces, MountPlaces, Jobs
  <2>5. DomainTypes'
    BY <1>17, DisksAssumption, Kinds DEF Crash, Running, Mishap, Goto,
       domainVars, historyVars, Types, JobTypes, DevTypes, XMLTypes,
       DomainTypes, XML, Between, Jobs
  <2> QED BY <2>1, <2>2, <2>3, <2>4, <2>5 DEF Types

<1>18. CASE Switch
  BY <1>18, DisksAssumption, Kinds DEF Switch, vars, domainVars, jobVars,
     historyVars, Between, CreatePlaces, DeletePlaces, DevTypes, DomainTypes,
     JobTypes, MeantTypes, MountPlaces, Types, XML, XMLTypes
<1>19. CASE UNCHANGED vars
  BY <1>19, DisksAssumption, Kinds DEF vars, domainVars, jobVars, historyVars,
     Between, CreatePlaces, DeletePlaces, DevTypes, DomainTypes, JobTypes,
     MeantTypes, MountPlaces, Types, XML, XMLTypes
<1> QED
  BY <1>1, <1>2, <1>3, <1>4, <1>5, <1>6, <1>7, <1>8, <1>9, <1>10, <1>11,
     <1>12, <1>13, <1>14, <1>15, <1>16, <1>17, <1>18, <1>19, Steps

-----------------------------------------------------------------------------
\* A volume is made only under a name no device in use has (AddVolume), a device
\* is taken out only by the one delete job that is for it.
LEMMA CoreStep ==
    ASSUME Types, Core, Apart, [Next]_vars, Never({"lost", "silent"})'
    PROVE  Core'

<1>1. ASSUME NEW j \in Jobs, Request(j) PROVE Core'
  <2>1. DisksWhole'
    BY <1>1, DisksAssumption, Kinds DEF Request, Goto, domainVars, Types,
       JobTypes, DevTypes, CreatePlaces, DeletePlaces, MountPlaces, Between,
       Core, DisksWhole, Held, Found, Holds, Frees, Apart, Before, Never,
       DomainTypes, Jobs
  <2>2. Held'
    BY <1>1, DisksAssumption, Kinds DEF Request, Goto, domainVars, Types,
       JobTypes, DevTypes, CreatePlaces, DeletePlaces, MountPlaces, Between,
       Core, DisksWhole, Held, Found, Holds, Frees, Apart, Before, Never,
       DomainTypes, Jobs
  <2>3. HeldXML'
    BY <1>1, DisksAssumption, Kinds DEF Request, Goto, domainVars, Types,
       JobTypes, DevTypes, CreatePlaces, DeletePlaces, MountPlaces, Between,
       Core, DisksWhole, Held, Found, Holds, Frees, Apart, Before, Never,
       HeldXML, XMLTypes, Jobs
  <2>4. Found'
    BY <1>1, DisksAssumption, Kinds DEF Request, Goto, domainVars, Types,
       JobTypes, DevTypes, CreatePlaces, DeletePlaces, MountPlaces, Between,
       Core, DisksWhole, Held, Found, Holds, Frees, Apart, Before, Never,
       DomainTypes, Jobs
  <2> QED BY <2>1, <2>2, <2>3, <2>4 DEF Core

<1>2. ASSUME NEW j \in Jobs, FindMachine(j) PROVE Core'
  <2>1. DisksWhole'
    BY <1>2, DisksAssumption, Kinds DEF FindMachine, Goto, TakeJob, Running,
       domainVars, historyVars, Types, JobTypes, DevTypes, CreatePlaces,
       DeletePlaces, MountPlaces, Between, Core, DisksWhole, Held, Found,
       Holds, Frees, Apart, Before, Never, DomainTypes, Jobs
  <2>2. Held'
    BY <1>2, DisksAssumption, Kinds DEF FindMachine, Goto, TakeJob, Running,
       domainVars, historyVars, Types, JobTypes, DevTypes, CreatePlaces,
       DeletePlaces, MountPlaces, Between, Core, DisksWhole, Held, Found,
       Holds, Frees, Apart, Before, Never, DomainTypes, Jobs
  <2>3. HeldXML'
    BY <1>2, DisksAssumption, Kinds DEF FindMachine, Goto, TakeJob, Running,
       domainVars, historyVars, Types, JobTypes, DevTypes, CreatePlaces,
       DeletePlaces, MountPlaces, Between, Core, DisksWhole, Held, Found,
       Holds, Frees, Apart, Before, Never, HeldXML, XMLTypes, Jobs
  <2>4. Found'
    BY <1>2, DisksAssumption, Kinds DEF FindMachine, Goto, TakeJob, Running,
       domainVars, historyVars, Types, JobTypes, DevTypes, CreatePlaces,
       DeletePlaces, MountPlaces, Between, Core, DisksWhole, Held, Found,
       Holds, Frees, Apart, Before, Never, DomainTypes, Jobs
  <2> QED BY <2>1, <2>2, <2>3, <2>4 DEF Core

<1>3. ASSUME NEW j \in Jobs, AddVolume(j) PROVE Core'
  <2>1. DisksWhole'
    BY <1>3, DisksAssumption, Kinds DEF AddVolume, Goto, Retry, domainVars,
       historyVars, Types, JobTypes, DevTypes, CreatePlaces, DeletePlaces,
       MountPlaces, Between, Core, DisksWhole, Held, Found, Holds, Frees,
       Apart, Before, Never, DomainTypes, Jobs
  <2>2. Held'
    BY <1>3, DisksAssumption, Kinds DEF AddVolume, Goto, Retry, domainVars,
       historyVars, Types, JobTypes, DevTypes, CreatePlaces, DeletePlaces,
       MountPlaces, Between, Core, DisksWhole, Held, Found, Holds, Frees,
       Apart, Before, Never, DomainTypes, Jobs
  <2>3. HeldXML'
    BY <1>3, DisksAssumption, Kinds DEF AddVolume, Goto, Retry, domainVars,
       historyVars, Types, JobTypes, DevTypes, CreatePlaces, DeletePlaces,
       MountPlaces, Between, Core, DisksWhole, Held, Found, Holds, Frees,
       Apart, Before, Never, HeldXML, XMLTypes, Jobs
  <2>4. Found'
    BY <1>3, DisksAssumption, Kinds DEF AddVolume, Goto, Retry, domainVars,
       historyVars, Types, JobTypes, DevTypes, CreatePlaces, DeletePlaces,
       MountPlaces, Between, Core, DisksWhole, Held, Found, Holds, Frees,
       Apart, Before, Never, DomainTypes, Jobs
  <2> QED BY <2>1, <2>2, <2>3, <2>4 DEF Core

<1>4. ASSUME NEW j \in Jobs, Attach(j) PROVE Core'
  <2>1. DisksWhole'
    BY <1>4, DisksAssumption, Kinds DEF Attach, Goto, Retry, NoteOff,
       historyVars, Types, JobTypes, DevTypes, CreatePlaces, DeletePlaces,
       MountPlaces, Between, Core, DisksWhole, Held, Found, Holds, Frees,
       Apart, Before, Never, DomainTypes, Jobs
  <2>2. Held'
    BY <1>4, DisksAssumption, Kinds DEF Attach, Goto, Retry, NoteOff,
       historyVars, Types, JobTypes, DevTypes, CreatePlaces, DeletePlaces,
       MountPlaces, Between, Core, DisksWhole, Held, Found, Holds, Frees,
       Apart, Before, Never, DomainTypes, Jobs
  <2>3. HeldXML'
    BY <1>4, DisksAssumption, Kinds DEF Attach, Goto, Retry, NoteOff,
       historyVars, Types, JobTypes, DevTypes, CreatePlaces, DeletePlaces,
       MountPlaces, Between, Core, DisksWhole, Held, Found, Holds, Frees,
       Apart, Before, Never, HeldXML, XMLTypes, Jobs
  <2>4. Found'
    BY <1>4, DisksAssumption, Kinds DEF Attach, Goto, Retry, NoteOff,
       historyVars, Types, JobTypes, DevTypes, CreatePlaces, DeletePlaces,
       MountPlaces, Between, Core, DisksWhole, Held, Found, Holds, Frees,
       Apart, Before, Never, DomainTypes, Jobs
  <2> QED BY <2>1, <2>2, <2>3, <2>4 DEF Core

<1>5. ASSUME NEW j \in Jobs, FindDisk(j) PROVE Core'
  <2>1. DisksWhole'
    BY <1>5, DisksAssumption, Kinds DEF FindDisk, Goto, Retry, TakeJob,
       Running, domainVars, historyVars, Types, JobTypes, DevTypes,
       CreatePlaces, DeletePlaces, MountPlaces, Between, Core, DisksWhole,
       Held, Found, Holds, Frees, Apart, Before, Never, DomainTypes, Jobs
  <2>2. Held'
    BY <1>5, DisksAssumption, Kinds DEF FindDisk, Goto, Retry, TakeJob,
       Running, domainVars, historyVars, Types, JobTypes, DevTypes,
       CreatePlaces, DeletePlaces, MountPlaces, Between, Core, DisksWhole,
       Held, Found, Holds, Frees, Apart, Before, Never, DomainTypes, Jobs
  <2>3. HeldXML'
    BY <1>5, DisksAssumption, Kinds DEF FindDisk, Goto, Retry, TakeJob,
       Running, domainVars, historyVars, Types, JobTypes, DevTypes,
       CreatePlaces, DeletePlaces, MountPlaces, Between, Core, DisksWhole,
       Held, Found, Holds, Frees, Apart, Before, Never, HeldXML, XMLTypes,
       Jobs
  <2>4. Found'
    BY <1>5, DisksAssumption, Kinds DEF FindDisk, Goto, Retry, TakeJob,
       Running, domainVars, historyVars, Types, JobTypes, DevTypes,
       CreatePlaces, DeletePlaces, MountPlaces, Between, Core, DisksWhole,
       Held, Found, Holds, Frees, Apart, Before, Never, DomainTypes, Jobs
  <2> QED BY <2>1, <2>2, <2>3, <2>4 DEF Core

<1>6. ASSUME NEW j \in Jobs, Detach(j) PROVE Core'
  <2>1. DisksWhole'
    BY <1>6, DisksAssumption, Kinds DEF Detach, Retry, Goto, NoteOff,
       historyVars, Types, JobTypes, DevTypes, CreatePlaces, DeletePlaces,
       MountPlaces, Between, Core, DisksWhole, Held, Found, Holds, Frees,
       Apart, Before, Never, DomainTypes, Jobs
  <2>2. Held'
    BY <1>6, DisksAssumption, Kinds DEF Detach, Retry, Goto, NoteOff,
       historyVars, Types, JobTypes, DevTypes, CreatePlaces, DeletePlaces,
       MountPlaces, Between, Core, DisksWhole, Held, Found, Holds, Frees,
       Apart, Before, Never, DomainTypes, Jobs
  <2>3. HeldXML'
    BY <1>6, DisksAssumption, Kinds DEF Detach, Retry, Goto, NoteOff,
       historyVars, Types, JobTypes, DevTypes, CreatePlaces, DeletePlaces,
       MountPlaces, Between, Core, DisksWhole, Held, Found, Holds, Frees,
       Apart, Before, Never, HeldXML, XMLTypes, Jobs
  <2>4. Found'
    BY <1>6, DisksAssumption, Kinds DEF Detach, Retry, Goto, NoteOff,
       historyVars, Types, JobTypes, DevTypes, CreatePlaces, DeletePlaces,
       MountPlaces, Between, Core, DisksWhole, Held, Found, Holds, Frees,
       Apart, Before, Never, DomainTypes, Jobs
  <2> QED BY <2>1, <2>2, <2>3, <2>4 DEF Core

<1>7. ASSUME NEW j \in Jobs, DeleteVolume(j) PROVE Core'
  <2>1. DisksWhole'
    BY <1>7, DisksAssumption, Kinds DEF DeleteVolume, Goto, Retry, domainVars,
       Types, JobTypes, DevTypes, CreatePlaces, DeletePlaces, MountPlaces,
       Between, Core, DisksWhole, Held, Found, Holds, Frees, Apart, Before,
       Never, DomainTypes, Jobs
  <2>2. Held'
    BY <1>7, DisksAssumption, Kinds DEF DeleteVolume, Goto, Retry, domainVars,
       Types, JobTypes, DevTypes, CreatePlaces, DeletePlaces, MountPlaces,
       Between, Core, DisksWhole, Held, Found, Holds, Frees, Apart, Before,
       Never, DomainTypes, Jobs
  <2>3. HeldXML'
    BY <1>7, DisksAssumption, Kinds DEF DeleteVolume, Goto, Retry, domainVars,
       Types, JobTypes, DevTypes, CreatePlaces, DeletePlaces, MountPlaces,
       Between, Core, DisksWhole, Held, Found, Holds, Frees, Apart, Before,
       Never, HeldXML, XMLTypes, Jobs
  <2>4. Found'
    BY <1>7, DisksAssumption, Kinds DEF DeleteVolume, Goto, Retry, domainVars,
       Types, JobTypes, DevTypes, CreatePlaces, DeletePlaces, MountPlaces,
       Between, Core, DisksWhole, Held, Found, Holds, Frees, Apart, Before,
       Never, DomainTypes, Jobs
  <2> QED BY <2>1, <2>2, <2>3, <2>4 DEF Core

<1>8. ASSUME NEW j \in Jobs, FindIso(j) PROVE Core'
  <2>1. DisksWhole'
    BY <1>8, DisksAssumption, Kinds DEF FindIso, Goto, TakeJob, Running,
       domainVars, historyVars, Types, JobTypes, DevTypes, CreatePlaces,
       DeletePlaces, MountPlaces, Between, Core, DisksWhole, Held, Found,
       Holds, Frees, Apart, Before, Never, DomainTypes, Jobs
  <2>2. Held'
    BY <1>8, DisksAssumption, Kinds DEF FindIso, Goto, TakeJob, Running,
       domainVars, historyVars, Types, JobTypes, DevTypes, CreatePlaces,
       DeletePlaces, MountPlaces, Between, Core, DisksWhole, Held, Found,
       Holds, Frees, Apart, Before, Never, DomainTypes, Jobs
  <2>3. HeldXML'
    BY <1>8, DisksAssumption, Kinds DEF FindIso, Goto, TakeJob, Running,
       domainVars, historyVars, Types, JobTypes, DevTypes, CreatePlaces,
       DeletePlaces, MountPlaces, Between, Core, DisksWhole, Held, Found,
       Holds, Frees, Apart, Before, Never, HeldXML, XMLTypes, Jobs
  <2>4. Found'
    BY <1>8, DisksAssumption, Kinds DEF FindIso, Goto, TakeJob, Running,
       domainVars, historyVars, Types, JobTypes, DevTypes, CreatePlaces,
       DeletePlaces, MountPlaces, Between, Core, DisksWhole, Held, Found,
       Holds, Frees, Apart, Before, Never, DomainTypes, Jobs
  <2> QED BY <2>1, <2>2, <2>3, <2>4 DEF Core

<1>9. ASSUME NEW j \in Jobs, MountLive(j) PROVE Core'
  <2>1. DisksWhole'
    BY <1>9, DisksAssumption, Kinds DEF MountLive, Goto, historyVars, Types,
       JobTypes, DevTypes, CreatePlaces, DeletePlaces, MountPlaces, Between,
       Core, DisksWhole, Held, Found, Holds, Frees, Apart, Before, Never,
       DomainTypes, Jobs
  <2>2. Held'
    BY <1>9, DisksAssumption, Kinds DEF MountLive, Goto, historyVars, Types,
       JobTypes, DevTypes, CreatePlaces, DeletePlaces, MountPlaces, Between,
       Core, DisksWhole, Held, Found, Holds, Frees, Apart, Before, Never,
       DomainTypes, Jobs
  <2>3. HeldXML'
    BY <1>9, DisksAssumption, Kinds DEF MountLive, Goto, historyVars, Types,
       JobTypes, DevTypes, CreatePlaces, DeletePlaces, MountPlaces, Between,
       Core, DisksWhole, Held, Found, Holds, Frees, Apart, Before, Never,
       HeldXML, XMLTypes, Jobs
  <2>4. Found'
    BY <1>9, DisksAssumption, Kinds DEF MountLive, Goto, historyVars, Types,
       JobTypes, DevTypes, CreatePlaces, DeletePlaces, MountPlaces, Between,
       Core, DisksWhole, Held, Found, Holds, Frees, Apart, Before, Never,
       DomainTypes, Jobs
  <2> QED BY <2>1, <2>2, <2>3, <2>4 DEF Core

<1>10. ASSUME NEW j \in Jobs, MountOff(j) PROVE Core'
  <2>1. DisksWhole'
    BY <1>10, DisksAssumption, Kinds DEF MountOff, Goto, domainVars,
       historyVars, Types, JobTypes, DevTypes, CreatePlaces, DeletePlaces,
       MountPlaces, Between, Core, DisksWhole, Held, Found, Holds, Frees,
       Apart, Before, Never, DomainTypes, Jobs
  <2>2. Held'
    BY <1>10, DisksAssumption, Kinds DEF MountOff, Goto, domainVars,
       historyVars, Types, JobTypes, DevTypes, CreatePlaces, DeletePlaces,
       MountPlaces, Between, Core, DisksWhole, Held, Found, Holds, Frees,
       Apart, Before, Never, DomainTypes, Jobs
  <2>3. HeldXML'
    BY <1>10, DisksAssumption, Kinds DEF MountOff, Goto, domainVars,
       historyVars, Types, JobTypes, DevTypes, CreatePlaces, DeletePlaces,
       MountPlaces, Between, Core, DisksWhole, Held, Found, Holds, Frees,
       Apart, Before, Never, HeldXML, XMLTypes, Jobs
  <2>4. Found'
    BY <1>10, DisksAssumption, Kinds DEF MountOff, Goto, domainVars,
       historyVars, Types, JobTypes, DevTypes, CreatePlaces, DeletePlaces,
       MountPlaces, Between, Core, DisksWhole, Held, Found, Holds, Frees,
       Apart, Before, Never, DomainTypes, Jobs
  <2> QED BY <2>1, <2>2, <2>3, <2>4 DEF Core

<1>11. ASSUME NEW j \in Jobs, Status(j) PROVE Core'
  <2>1. DisksWhole'
    BY <1>11, DisksAssumption, Kinds DEF Status, Goto, domainVars,
       historyVars, Types, JobTypes, DevTypes, CreatePlaces, DeletePlaces,
       MountPlaces, Between, Core, DisksWhole, Held, Found, Holds, Frees,
       Apart, Before, Never, DomainTypes, Jobs
  <2>2. Held'
    BY <1>11, DisksAssumption, Kinds DEF Status, Goto, domainVars,
       historyVars, Types, JobTypes, DevTypes, CreatePlaces, DeletePlaces,
       MountPlaces, Between, Core, DisksWhole, Held, Found, Holds, Frees,
       Apart, Before, Never, DomainTypes, Jobs
  <2>3. HeldXML'
    BY <1>11, DisksAssumption, Kinds DEF Status, Goto, domainVars,
       historyVars, Types, JobTypes, DevTypes, CreatePlaces, DeletePlaces,
       MountPlaces, Between, Core, DisksWhole, Held, Found, Holds, Frees,
       Apart, Before, Never, HeldXML, XMLTypes, Jobs
  <2>4. Found'
    BY <1>11, DisksAssumption, Kinds DEF Status, Goto, domainVars,
       historyVars, Types, JobTypes, DevTypes, CreatePlaces, DeletePlaces,
       MountPlaces, Between, Core, DisksWhole, Held, Found, Holds, Frees,
       Apart, Before, Never, DomainTypes, Jobs
  <2> QED BY <2>1, <2>2, <2>3, <2>4 DEF Core

<1>12. ASSUME NEW j \in Jobs, ReadXML(j) PROVE Core'
  <2>1. DisksWhole'
    BY <1>12, DisksAssumption, Kinds DEF ReadXML, Goto, domainVars,
       historyVars, Types, JobTypes, DevTypes, CreatePlaces, DeletePlaces,
       MountPlaces, Between, Core, DisksWhole, Held, Found, Holds, Frees,
       Apart, Before, Never, DomainTypes, Jobs
  <2>2. Held'
    BY <1>12, DisksAssumption, Kinds DEF ReadXML, Goto, domainVars,
       historyVars, Types, JobTypes, DevTypes, CreatePlaces, DeletePlaces,
       MountPlaces, Between, Core, DisksWhole, Held, Found, Holds, Frees,
       Apart, Before, Never, DomainTypes, Jobs
  <2>3. HeldXML'
    BY <1>12, DisksAssumption, Kinds DEF ReadXML, Goto, domainVars,
       historyVars, Types, JobTypes, DevTypes, CreatePlaces, DeletePlaces,
       MountPlaces, Between, Core, DisksWhole, Held, Found, Holds, Frees,
       Apart, Before, Never, HeldXML, XMLTypes, Jobs
  <2>4. Found'
    BY <1>12, DisksAssumption, Kinds DEF ReadXML, Goto, domainVars,
       historyVars, Types, JobTypes, DevTypes, CreatePlaces, DeletePlaces,
       MountPlaces, Between, Core, DisksWhole, Held, Found, Holds, Frees,
       Apart, Before, Never, DomainTypes, Jobs
  <2> QED BY <2>1, <2>2, <2>3, <2>4 DEF Core

<1>13. ASSUME NEW j \in Jobs, DefineXML(j) PROVE Core'
  <2>1. DisksWhole'
    BY <1>13, DisksAssumption, Kinds DEF DefineXML, Retry, Goto, domainVars,
       Edited, historyVars, Stale, Types, JobTypes, DevTypes, CreatePlaces,
       DeletePlaces, MountPlaces, Between, Core, DisksWhole, Held, Found,
       Holds, Frees, Apart, Before, Never, DomainTypes, Jobs
  <2>2. Held'
    BY <1>13, DisksAssumption, Kinds DEF DefineXML, Retry, Goto, domainVars,
       Edited, historyVars, Stale, Types, JobTypes, DevTypes, CreatePlaces,
       DeletePlaces, MountPlaces, Between, Core, DisksWhole, Held, Found,
       Holds, Frees, Apart, Before, Never, DomainTypes, Jobs
  <2>3. HeldXML'
    BY <1>13, DisksAssumption, Kinds DEF DefineXML, Retry, Goto, domainVars,
       Edited, historyVars, Stale, Types, JobTypes, DevTypes, CreatePlaces,
       DeletePlaces, MountPlaces, Between, Core, DisksWhole, Held, Found,
       Holds, Frees, Apart, Before, Never, HeldXML, XMLTypes, Jobs
  <2>4. Found'
    BY <1>13, DisksAssumption, Kinds DEF DefineXML, Retry, Goto, domainVars,
       Edited, historyVars, Stale, Types, JobTypes, DevTypes, CreatePlaces,
       DeletePlaces, MountPlaces, Between, Core, DisksWhole, Held, Found,
       Holds, Frees, Apart, Before, Never, DomainTypes, Jobs
  <2> QED BY <2>1, <2>2, <2>3, <2>4 DEF Core

<1>14. ASSUME NEW j \in Jobs, Reply(j) PROVE Core'
  <2>1. DisksWhole'
    BY <1>14, DisksAssumption, Kinds DEF Reply, Goto, domainVars, historyVars,
       Types, JobTypes, DevTypes, CreatePlaces, DeletePlaces, MountPlaces,
       Between, Core, DisksWhole, Held, Found, Holds, Frees, Apart, Before,
       Never, DomainTypes, Jobs
  <2>2. Held'
    BY <1>14, DisksAssumption, Kinds DEF Reply, Goto, domainVars, historyVars,
       Types, JobTypes, DevTypes, CreatePlaces, DeletePlaces, MountPlaces,
       Between, Core, DisksWhole, Held, Found, Holds, Frees, Apart, Before,
       Never, DomainTypes, Jobs
  <2>3. HeldXML'
    BY <1>14, DisksAssumption, Kinds DEF Reply, Goto, domainVars, historyVars,
       Types, JobTypes, DevTypes, CreatePlaces, DeletePlaces, MountPlaces,
       Between, Core, DisksWhole, Held, Found, Holds, Frees, Apart, Before,
       Never, HeldXML, XMLTypes, Jobs
  <2>4. Found'
    BY <1>14, DisksAssumption, Kinds DEF Reply, Goto, domainVars, historyVars,
       Types, JobTypes, DevTypes, CreatePlaces, DeletePlaces, MountPlaces,
       Between, Core, DisksWhole, Held, Found, Holds, Frees, Apart, Before,
       Never, DomainTypes, Jobs
  <2> QED BY <2>1, <2>2, <2>3, <2>4 DEF Core

<1>15. ASSUME NEW j \in Jobs, Fault(j) PROVE Core'
  <2>1. DisksWhole'
    BY <1>15, DisksAssumption, Kinds DEF Fault, Running, Mishap, Retry, Goto,
       domainVars, historyVars, Types, JobTypes, DevTypes, CreatePlaces,
       DeletePlaces, MountPlaces, Between, Core, DisksWhole, Held, Found,
       Holds, Frees, Apart, Before, Never, DomainTypes, Jobs
  <2>2. Held'
    BY <1>15, DisksAssumption, Kinds DEF Fault, Running, Mishap, Retry, Goto,
       domainVars, historyVars, Types, JobTypes, DevTypes, CreatePlaces,
       DeletePlaces, MountPlaces, Between, Core, DisksWhole, Held, Found,
       Holds, Frees, Apart, Before, Never, DomainTypes, Jobs
  <2>3. HeldXML'
    BY <1>15, DisksAssumption, Kinds DEF Fault, Running, Mishap, Retry, Goto,
       domainVars, historyVars, Types, JobTypes, DevTypes, CreatePlaces,
       DeletePlaces, MountPlaces, Between, Core, DisksWhole, Held, Found,
       Holds, Frees, Apart, Before, Never, HeldXML, XMLTypes, Jobs
  <2>4. Found'
    BY <1>15, DisksAssumption, Kinds DEF Fault, Running, Mishap, Retry, Goto,
       domainVars, historyVars, Types, JobTypes, DevTypes, CreatePlaces,
       DeletePlaces, MountPlaces, Between, Core, DisksWhole, Held, Found,
       Holds, Frees, Apart, Before, Never, DomainTypes, Jobs
  <2> QED BY <2>1, <2>2, <2>3, <2>4 DEF Core

<1>16. ASSUME NEW j \in Jobs, Silent(j) PROVE Core'
  <2>1. DisksWhole'
    BY <1>16, DisksAssumption, Kinds DEF Silent, Running, Mishap, Goto,
       AfterCall, domainVars, historyVars, Types, JobTypes, DevTypes,
       CreatePlaces, DeletePlaces, MountPlaces, Between, Core, DisksWhole,
       Held, Found, Holds, Frees, Apart, Before, Never, DomainTypes, Jobs
  <2>2. Held'
    BY <1>16, DisksAssumption, Kinds DEF Silent, Running, Mishap, Goto,
       AfterCall, domainVars, historyVars, Types, JobTypes, DevTypes,
       CreatePlaces, DeletePlaces, MountPlaces, Between, Core, DisksWhole,
       Held, Found, Holds, Frees, Apart, Before, Never, DomainTypes, Jobs
  <2>3. HeldXML'
    BY <1>16, DisksAssumption, Kinds DEF Silent, Running, Mishap, Goto,
       AfterCall, domainVars, historyVars, Types, JobTypes, DevTypes,
       CreatePlaces, DeletePlaces, MountPlaces, Between, Core, DisksWhole,
       Held, Found, Holds, Frees, Apart, Before, Never, HeldXML, XMLTypes,
       Jobs
  <2>4. Found'
    BY <1>16, DisksAssumption, Kinds DEF Silent, Running, Mishap, Goto,
       AfterCall, domainVars, historyVars, Types, JobTypes, DevTypes,
       CreatePlaces, DeletePlaces, MountPlaces, Between, Core, DisksWhole,
       Held, Found, Holds, Frees, Apart, Before, Never, DomainTypes, Jobs
  <2> QED BY <2>1, <2>2, <2>3, <2>4 DEF Core

<1>17. ASSUME NEW j \in Jobs, Crash(j) PROVE Core'
  <2>1. DisksWhole'
    BY <1>17, DisksAssumption, Kinds DEF Crash, Running, Mishap, Goto,
       domainVars, historyVars, Types, JobTypes, DevTypes, CreatePlaces,
       DeletePlaces, MountPlaces, Between, Core, DisksWhole, Held, Found,
       Holds, Frees, Apart, Before, Never, DomainTypes, Jobs
  <2>2. Held'
    BY <1>17, DisksAssumption, Kinds DEF Crash, Running, Mishap, Goto,
       domainVars, historyVars, Types, JobTypes, DevTypes, CreatePlaces,
       DeletePlaces, MountPlaces, Between, Core, DisksWhole, Held, Found,
       Holds, Frees, Apart, Before, Never, DomainTypes, Jobs
  <2>3. HeldXML'
    BY <1>17, DisksAssumption, Kinds DEF Crash, Running, Mishap, Goto,
       domainVars, historyVars, Types, JobTypes, DevTypes, CreatePlaces,
       DeletePlaces, MountPlaces, Between, Core, DisksWhole, Held, Found,
       Holds, Frees, Apart, Before, Never, HeldXML, XMLTypes, Jobs
  <2>4. Found'
    BY <1>17, DisksAssumption, Kinds DEF Crash, Running, Mishap, Goto,
       domainVars, historyVars, Types, JobTypes, DevTypes, CreatePlaces,
       DeletePlaces, MountPlaces, Between, Core, DisksWhole, Held, Found,
       Holds, Frees, Apart, Before, Never, DomainTypes, Jobs
  <2> QED BY <2>1, <2>2, <2>3, <2>4 DEF Core

<1>18. CASE Switch
  BY <1>18, DisksAssumption, Kinds DEF Switch, vars, domainVars, jobVars,
     historyVars, Apart, Before, Between, Core, CreatePlaces, DeletePlaces,
     DevTypes, DisksWhole, DomainTypes, Found, Frees, Held, HeldXML, Holds,
     JobTypes, MountPlaces, Never, Types, XMLTypes
<1>19. CASE UNCHANGED vars
  BY <1>19, DisksAssumption, Kinds DEF vars, domainVars, jobVars, historyVars,
     Apart, Before, Between, Core, CreatePlaces, DeletePlaces, DevTypes,
     DisksWhole, DomainTypes, Found, Frees, Held, HeldXML, Holds, JobTypes,
     MountPlaces, Never, Types, XMLTypes
<1> QED
  BY <1>1, <1>2, <1>3, <1>4, <1>5, <1>6, <1>7, <1>8, <1>9, <1>10, <1>11,
     <1>12, <1>13, <1>14, <1>15, <1>16, <1>17, <1>18, <1>19, Steps

\* Only the delete job that is for a device touches its volume, and what is
\* requested to be deleted is a volume that exists.
LEMMA RightStep ==
    ASSUME Types, Core, Apart, Right, RightOnly, [Next]_vars, Quiet'
    PROVE  Right' /\ RightOnly'

<1>1. ASSUME NEW j \in Jobs, Request(j) PROVE Right' /\ RightOnly'
  <2>1. Right'
    BY <1>1, DisksAssumption, Kinds DEF Request, Goto, domainVars, Types,
       JobTypes, DevTypes, CreatePlaces, DeletePlaces, MountPlaces, Between,
       Core, DisksWhole, Found, Apart, Before, Right, Quiet, Never,
       MeantTypes, DomainTypes, Jobs
  <2>2. RightOnly'
    BY <1>1, DisksAssumption, Kinds DEF Request, Goto, domainVars, Types,
       JobTypes, DevTypes, CreatePlaces, DeletePlaces, MountPlaces, Between,
       Right, Before, RightOnly, Jobs
  <2> QED BY <2>1, <2>2 DEF Right

<1>2. ASSUME NEW j \in Jobs, FindMachine(j) PROVE Right' /\ RightOnly'
  <2>1. Right'
    BY <1>2, DisksAssumption, Kinds DEF FindMachine, Goto, TakeJob, Running,
       domainVars, historyVars, Types, JobTypes, DevTypes, CreatePlaces,
       DeletePlaces, MountPlaces, Between, Core, DisksWhole, Found, Apart,
       Before, Right, Quiet, Never, MeantTypes, DomainTypes, Jobs
  <2>2. RightOnly'
    BY <1>2, DisksAssumption, Kinds DEF FindMachine, Goto, TakeJob, Running,
       domainVars, historyVars, Types, JobTypes, DevTypes, CreatePlaces,
       DeletePlaces, MountPlaces, Between, Right, Before, RightOnly, Jobs
  <2> QED BY <2>1, <2>2 DEF Right

<1>3. ASSUME NEW j \in Jobs, AddVolume(j) PROVE Right' /\ RightOnly'
  <2>1. Right'
    BY <1>3, DisksAssumption, Kinds DEF AddVolume, Goto, Retry, domainVars,
       historyVars, Types, JobTypes, DevTypes, CreatePlaces, DeletePlaces,
       MountPlaces, Between, Core, DisksWhole, Found, Apart, Before, Right,
       Quiet, Never, MeantTypes, DomainTypes, Jobs
  <2>2. RightOnly'
    BY <1>3, DisksAssumption, Kinds DEF AddVolume, Goto, Retry, domainVars,
       historyVars, Types, JobTypes, DevTypes, CreatePlaces, DeletePlaces,
       MountPlaces, Between, Right, Before, RightOnly, Jobs
  <2> QED BY <2>1, <2>2 DEF Right

<1>4. ASSUME NEW j \in Jobs, Attach(j) PROVE Right' /\ RightOnly'
  <2>1. Right'
    BY <1>4, DisksAssumption, Kinds DEF Attach, Goto, Retry, NoteOff,
       historyVars, Types, JobTypes, DevTypes, CreatePlaces, DeletePlaces,
       MountPlaces, Between, Core, DisksWhole, Found, Apart, Before, Right,
       Quiet, Never, MeantTypes, DomainTypes, Jobs
  <2>2. RightOnly'
    BY <1>4, DisksAssumption, Kinds DEF Attach, Goto, Retry, NoteOff,
       historyVars, Types, JobTypes, DevTypes, CreatePlaces, DeletePlaces,
       MountPlaces, Between, Right, Before, RightOnly, Jobs
  <2> QED BY <2>1, <2>2 DEF Right

<1>5. ASSUME NEW j \in Jobs, FindDisk(j) PROVE Right' /\ RightOnly'
  <2>1. Right'
    BY <1>5, DisksAssumption, Kinds DEF FindDisk, Goto, Retry, TakeJob,
       Running, domainVars, historyVars, Types, JobTypes, DevTypes,
       CreatePlaces, DeletePlaces, MountPlaces, Between, Core, DisksWhole,
       Found, Apart, Before, Right, Quiet, Never, MeantTypes, DomainTypes,
       Jobs
  <2>2. RightOnly'
    BY <1>5, DisksAssumption, Kinds DEF FindDisk, Goto, Retry, TakeJob,
       Running, domainVars, historyVars, Types, JobTypes, DevTypes,
       CreatePlaces, DeletePlaces, MountPlaces, Between, Right, Before,
       RightOnly, Jobs
  <2> QED BY <2>1, <2>2 DEF Right

<1>6. ASSUME NEW j \in Jobs, Detach(j) PROVE Right' /\ RightOnly'
  <2>1. Right'
    BY <1>6, DisksAssumption, Kinds DEF Detach, Retry, Goto, NoteOff,
       historyVars, Types, JobTypes, DevTypes, CreatePlaces, DeletePlaces,
       MountPlaces, Between, Core, DisksWhole, Found, Apart, Before, Right,
       Quiet, Never, MeantTypes, DomainTypes, Jobs
  <2>2. RightOnly'
    BY <1>6, DisksAssumption, Kinds DEF Detach, Retry, Goto, NoteOff,
       historyVars, Types, JobTypes, DevTypes, CreatePlaces, DeletePlaces,
       MountPlaces, Between, Right, Before, RightOnly, Jobs
  <2> QED BY <2>1, <2>2 DEF Right

<1>7. ASSUME NEW j \in Jobs, DeleteVolume(j) PROVE Right' /\ RightOnly'
  <2>1. Right'
    BY <1>7, DisksAssumption, Kinds DEF DeleteVolume, Goto, Retry, domainVars,
       Types, JobTypes, DevTypes, CreatePlaces, DeletePlaces, MountPlaces,
       Between, Core, DisksWhole, Found, Apart, Before, Right, Quiet, Never,
       MeantTypes, DomainTypes, Jobs
  <2>2. RightOnly'
    BY <1>7, DisksAssumption, Kinds DEF DeleteVolume, Goto, Retry, domainVars,
       Types, JobTypes, DevTypes, CreatePlaces, DeletePlaces, MountPlaces,
       Between, Right, Before, RightOnly, Jobs
  <2> QED BY <2>1, <2>2 DEF Right

<1>8. ASSUME NEW j \in Jobs, FindIso(j) PROVE Right' /\ RightOnly'
  <2>1. Right'
    BY <1>8, DisksAssumption, Kinds DEF FindIso, Goto, TakeJob, Running,
       domainVars, historyVars, Types, JobTypes, DevTypes, CreatePlaces,
       DeletePlaces, MountPlaces, Between, Core, DisksWhole, Found, Apart,
       Before, Right, Quiet, Never, MeantTypes, DomainTypes, Jobs
  <2>2. RightOnly'
    BY <1>8, DisksAssumption, Kinds DEF FindIso, Goto, TakeJob, Running,
       domainVars, historyVars, Types, JobTypes, DevTypes, CreatePlaces,
       DeletePlaces, MountPlaces, Between, Right, Before, RightOnly, Jobs
  <2> QED BY <2>1, <2>2 DEF Right

<1>9. ASSUME NEW j \in Jobs, MountLive(j) PROVE Right' /\ RightOnly'
  <2>1. Right'
    BY <1>9, DisksAssumption, Kinds DEF MountLive, Goto, historyVars, Types,
       JobTypes, DevTypes, CreatePlaces, DeletePlaces, MountPlaces, Between,
       Core, DisksWhole, Found, Apart, Before, Right, Quiet, Never,
       MeantTypes, DomainTypes, Jobs
  <2>2. RightOnly'
    BY <1>9, DisksAssumption, Kinds DEF MountLive, Goto, historyVars, Types,
       JobTypes, DevTypes, CreatePlaces, DeletePlaces, MountPlaces, Between,
       Right, Before, RightOnly, Jobs
  <2> QED BY <2>1, <2>2 DEF Right

<1>10. ASSUME NEW j \in Jobs, MountOff(j) PROVE Right' /\ RightOnly'
  <2>1. Right'
    BY <1>10, DisksAssumption, Kinds DEF MountOff, Goto, domainVars,
       historyVars, Types, JobTypes, DevTypes, CreatePlaces, DeletePlaces,
       MountPlaces, Between, Core, DisksWhole, Found, Apart, Before, Right,
       Quiet, Never, MeantTypes, DomainTypes, Jobs
  <2>2. RightOnly'
    BY <1>10, DisksAssumption, Kinds DEF MountOff, Goto, domainVars,
       historyVars, Types, JobTypes, DevTypes, CreatePlaces, DeletePlaces,
       MountPlaces, Between, Right, Before, RightOnly, Jobs
  <2> QED BY <2>1, <2>2 DEF Right

<1>11. ASSUME NEW j \in Jobs, Status(j) PROVE Right' /\ RightOnly'
  <2>1. Right'
    BY <1>11, DisksAssumption, Kinds DEF Status, Goto, domainVars,
       historyVars, Types, JobTypes, DevTypes, CreatePlaces, DeletePlaces,
       MountPlaces, Between, Core, DisksWhole, Found, Apart, Before, Right,
       Quiet, Never, MeantTypes, DomainTypes, Jobs
  <2>2. RightOnly'
    BY <1>11, DisksAssumption, Kinds DEF Status, Goto, domainVars,
       historyVars, Types, JobTypes, DevTypes, CreatePlaces, DeletePlaces,
       MountPlaces, Between, Right, Before, RightOnly, Jobs
  <2> QED BY <2>1, <2>2 DEF Right

<1>12. ASSUME NEW j \in Jobs, ReadXML(j) PROVE Right' /\ RightOnly'
  <2>1. Right'
    BY <1>12, DisksAssumption, Kinds DEF ReadXML, Goto, domainVars,
       historyVars, Types, JobTypes, DevTypes, CreatePlaces, DeletePlaces,
       MountPlaces, Between, Core, DisksWhole, Found, Apart, Before, Right,
       Quiet, Never, MeantTypes, DomainTypes, Jobs
  <2>2. RightOnly'
    BY <1>12, DisksAssumption, Kinds DEF ReadXML, Goto, domainVars,
       historyVars, Types, JobTypes, DevTypes, CreatePlaces, DeletePlaces,
       MountPlaces, Between, Right, Before, RightOnly, Jobs
  <2> QED BY <2>1, <2>2 DEF Right

<1>13. ASSUME NEW j \in Jobs, DefineXML(j) PROVE Right' /\ RightOnly'
  <2>1. Right'
    BY <1>13, DisksAssumption, Kinds DEF DefineXML, Retry, Goto, domainVars,
       Edited, historyVars, Stale, Types, JobTypes, DevTypes, CreatePlaces,
       DeletePlaces, MountPlaces, Between, Core, DisksWhole, Found, Apart,
       Before, Right, Quiet, Never, MeantTypes, DomainTypes, Jobs
  <2>2. RightOnly'
    BY <1>13, DisksAssumption, Kinds DEF DefineXML, Retry, Goto, domainVars,
       Edited, historyVars, Stale, Types, JobTypes, DevTypes, CreatePlaces,
       DeletePlaces, MountPlaces, Between, Right, Before, RightOnly, Jobs
  <2> QED BY <2>1, <2>2 DEF Right

<1>14. ASSUME NEW j \in Jobs, Reply(j) PROVE Right' /\ RightOnly'
  <2>1. Right'
    BY <1>14, DisksAssumption, Kinds DEF Reply, Goto, domainVars, historyVars,
       Types, JobTypes, DevTypes, CreatePlaces, DeletePlaces, MountPlaces,
       Between, Core, DisksWhole, Found, Apart, Before, Right, Quiet, Never,
       MeantTypes, DomainTypes, Jobs
  <2>2. RightOnly'
    BY <1>14, DisksAssumption, Kinds DEF Reply, Goto, domainVars, historyVars,
       Types, JobTypes, DevTypes, CreatePlaces, DeletePlaces, MountPlaces,
       Between, Right, Before, RightOnly, Jobs
  <2> QED BY <2>1, <2>2 DEF Right

<1>15. ASSUME NEW j \in Jobs, Fault(j) PROVE Right' /\ RightOnly'
  <2>1. Right'
    BY <1>15, DisksAssumption, Kinds DEF Fault, Running, Mishap, Retry, Goto,
       domainVars, historyVars, Types, JobTypes, DevTypes, CreatePlaces,
       DeletePlaces, MountPlaces, Between, Core, DisksWhole, Found, Apart,
       Before, Right, Quiet, Never, MeantTypes, DomainTypes, Jobs
  <2>2. RightOnly'
    BY <1>15, DisksAssumption, Kinds DEF Fault, Running, Mishap, Retry, Goto,
       domainVars, historyVars, Types, JobTypes, DevTypes, CreatePlaces,
       DeletePlaces, MountPlaces, Between, Right, Before, RightOnly, Jobs
  <2> QED BY <2>1, <2>2 DEF Right

<1>16. ASSUME NEW j \in Jobs, Silent(j) PROVE Right' /\ RightOnly'
  <2>1. Right'
    BY <1>16, DisksAssumption, Kinds DEF Silent, Running, Mishap, Goto,
       AfterCall, domainVars, historyVars, Types, JobTypes, DevTypes,
       CreatePlaces, DeletePlaces, MountPlaces, Between, Core, DisksWhole,
       Found, Apart, Before, Right, Quiet, Never, MeantTypes, DomainTypes,
       Jobs
  <2>2. RightOnly'
    BY <1>16, DisksAssumption, Kinds DEF Silent, Running, Mishap, Goto,
       AfterCall, domainVars, historyVars, Types, JobTypes, DevTypes,
       CreatePlaces, DeletePlaces, MountPlaces, Between, Right, Before,
       RightOnly, Jobs
  <2> QED BY <2>1, <2>2 DEF Right

<1>17. ASSUME NEW j \in Jobs, Crash(j) PROVE Right' /\ RightOnly'
  <2>1. Right'
    BY <1>17, DisksAssumption, Kinds DEF Crash, Running, Mishap, Goto,
       domainVars, historyVars, Types, JobTypes, DevTypes, CreatePlaces,
       DeletePlaces, MountPlaces, Between, Core, DisksWhole, Found, Apart,
       Before, Right, Quiet, Never, MeantTypes, DomainTypes, Jobs
  <2>2. RightOnly'
    BY <1>17, DisksAssumption, Kinds DEF Crash, Running, Mishap, Goto,
       domainVars, historyVars, Types, JobTypes, DevTypes, CreatePlaces,
       DeletePlaces, MountPlaces, Between, Right, Before, RightOnly, Jobs
  <2> QED BY <2>1, <2>2 DEF Right

<1>18. CASE Switch
  BY <1>18, DisksAssumption, Kinds DEF Switch, vars, domainVars, jobVars,
     historyVars, Apart, Before, Between, Core, CreatePlaces, DeletePlaces,
     DevTypes, DisksWhole, DomainTypes, Found, JobTypes, MeantTypes,
     MountPlaces, Never, Quiet, Right, RightOnly, Types
<1>19. CASE UNCHANGED vars
  BY <1>19, DisksAssumption, Kinds DEF vars, domainVars, jobVars, historyVars,
     Apart, Before, Between, Core, CreatePlaces, DeletePlaces, DevTypes,
     DisksWhole, DomainTypes, Found, JobTypes, MeantTypes, MountPlaces, Never,
     Quiet, Right, RightOnly, Types
<1> QED
  BY <1>1, <1>2, <1>3, <1>4, <1>5, <1>6, <1>7, <1>8, <1>9, <1>10, <1>11,
     <1>12, <1>13, <1>14, <1>15, <1>16, <1>17, <1>18, <1>19, Steps

\* A create job gives up a volume only if a call fails or the power is gone
\* (Attach), since its device is not in the XML (Held, HeldXML).
LEMMA UsedStep ==
    ASSUME Types, Core, Apart, Used, [Next]_vars, Quiet', Never({"power"})'
    PROVE  Used'

<1>1. ASSUME NEW j \in Jobs, Request(j) PROVE Used'
  BY <1>1, DisksAssumption, Kinds DEF Request, Goto, domainVars, Types,
     JobTypes, DevTypes, CreatePlaces, DeletePlaces, MountPlaces, Between,
     Core, DisksWhole, Held, Found, Holds, Frees, Apart, Before, Never,
     HeldXML, Used, Quiet, DomainTypes, XMLTypes, XML, Jobs
<1>2. ASSUME NEW j \in Jobs, FindMachine(j) PROVE Used'
  BY <1>2, DisksAssumption, Kinds DEF FindMachine, Goto, TakeJob, Running,
     domainVars, historyVars, Types, JobTypes, DevTypes, CreatePlaces,
     DeletePlaces, MountPlaces, Between, Core, DisksWhole, Held, Found, Holds,
     Frees, Apart, Before, Never, HeldXML, Used, Quiet, DomainTypes, XMLTypes,
     XML, Jobs
<1>3. ASSUME NEW j \in Jobs, AddVolume(j) PROVE Used'
  BY <1>3, DisksAssumption, Kinds DEF AddVolume, Goto, Retry, domainVars,
     historyVars, Types, JobTypes, DevTypes, CreatePlaces, DeletePlaces,
     MountPlaces, Between, Core, DisksWhole, Held, Found, Holds, Frees, Apart,
     Before, Never, HeldXML, Used, Quiet, DomainTypes, XMLTypes, XML, Jobs
<1>4. ASSUME NEW j \in Jobs, Attach(j) PROVE Used'
  BY <1>4, DisksAssumption, Kinds DEF Attach, Goto, Retry, NoteOff,
     historyVars, Types, JobTypes, DevTypes, CreatePlaces, DeletePlaces,
     MountPlaces, Between, Core, DisksWhole, Held, Found, Holds, Frees, Apart,
     Before, Never, HeldXML, Used, Quiet, DomainTypes, XMLTypes, XML, Jobs
<1>5. ASSUME NEW j \in Jobs, FindDisk(j) PROVE Used'
  BY <1>5, DisksAssumption, Kinds DEF FindDisk, Goto, Retry, TakeJob, Running,
     domainVars, historyVars, Types, JobTypes, DevTypes, CreatePlaces,
     DeletePlaces, MountPlaces, Between, Core, DisksWhole, Held, Found, Holds,
     Frees, Apart, Before, Never, HeldXML, Used, Quiet, DomainTypes, XMLTypes,
     XML, Jobs
<1>6. ASSUME NEW j \in Jobs, Detach(j) PROVE Used'
  BY <1>6, DisksAssumption, Kinds DEF Detach, Retry, Goto, NoteOff,
     historyVars, Types, JobTypes, DevTypes, CreatePlaces, DeletePlaces,
     MountPlaces, Between, Core, DisksWhole, Held, Found, Holds, Frees, Apart,
     Before, Never, HeldXML, Used, Quiet, DomainTypes, XMLTypes, XML, Jobs
<1>7. ASSUME NEW j \in Jobs, DeleteVolume(j) PROVE Used'
  BY <1>7, DisksAssumption, Kinds DEF DeleteVolume, Goto, Retry, domainVars,
     Types, JobTypes, DevTypes, CreatePlaces, DeletePlaces, MountPlaces,
     Between, Core, DisksWhole, Held, Found, Holds, Frees, Apart, Before,
     Never, HeldXML, Used, Quiet, DomainTypes, XMLTypes, XML, Jobs
<1>8. ASSUME NEW j \in Jobs, FindIso(j) PROVE Used'
  BY <1>8, DisksAssumption, Kinds DEF FindIso, Goto, TakeJob, Running,
     domainVars, historyVars, Types, JobTypes, DevTypes, CreatePlaces,
     DeletePlaces, MountPlaces, Between, Core, DisksWhole, Held, Found, Holds,
     Frees, Apart, Before, Never, HeldXML, Used, Quiet, DomainTypes, XMLTypes,
     XML, Jobs
<1>9. ASSUME NEW j \in Jobs, MountLive(j) PROVE Used'
  BY <1>9, DisksAssumption, Kinds DEF MountLive, Goto, historyVars, Types,
     JobTypes, DevTypes, CreatePlaces, DeletePlaces, MountPlaces, Between,
     Core, DisksWhole, Held, Found, Holds, Frees, Apart, Before, Never,
     HeldXML, Used, Quiet, DomainTypes, XMLTypes, XML, Jobs
<1>10. ASSUME NEW j \in Jobs, MountOff(j) PROVE Used'
  BY <1>10, DisksAssumption, Kinds DEF MountOff, Goto, domainVars,
     historyVars, Types, JobTypes, DevTypes, CreatePlaces, DeletePlaces,
     MountPlaces, Between, Core, DisksWhole, Held, Found, Holds, Frees, Apart,
     Before, Never, HeldXML, Used, Quiet, DomainTypes, XMLTypes, XML, Jobs
<1>11. ASSUME NEW j \in Jobs, Status(j) PROVE Used'
  BY <1>11, DisksAssumption, Kinds DEF Status, Goto, domainVars, historyVars,
     Types, JobTypes, DevTypes, CreatePlaces, DeletePlaces, MountPlaces,
     Between, Core, DisksWhole, Held, Found, Holds, Frees, Apart, Before,
     Never, HeldXML, Used, Quiet, DomainTypes, XMLTypes, XML, Jobs
<1>12. ASSUME NEW j \in Jobs, ReadXML(j) PROVE Used'
  BY <1>12, DisksAssumption, Kinds DEF ReadXML, Goto, domainVars, historyVars,
     Types, JobTypes, DevTypes, CreatePlaces, DeletePlaces, MountPlaces,
     Between, Core, DisksWhole, Held, Found, Holds, Frees, Apart, Before,
     Never, HeldXML, Used, Quiet, DomainTypes, XMLTypes, XML, Jobs
<1>13. ASSUME NEW j \in Jobs, DefineXML(j) PROVE Used'
  BY <1>13, DisksAssumption, Kinds DEF DefineXML, Retry, Goto, domainVars,
     Edited, historyVars, Stale, Types, JobTypes, DevTypes, CreatePlaces,
     DeletePlaces, MountPlaces, Between, Core, DisksWhole, Held, Found, Holds,
     Frees, Apart, Before, Never, HeldXML, Used, Quiet, DomainTypes, XMLTypes,
     XML, Jobs
<1>14. ASSUME NEW j \in Jobs, Reply(j) PROVE Used'
  BY <1>14, DisksAssumption, Kinds DEF Reply, Goto, domainVars, historyVars,
     Types, JobTypes, DevTypes, CreatePlaces, DeletePlaces, MountPlaces,
     Between, Core, DisksWhole, Held, Found, Holds, Frees, Apart, Before,
     Never, HeldXML, Used, Quiet, DomainTypes, XMLTypes, XML, Jobs
<1>15. ASSUME NEW j \in Jobs, Fault(j) PROVE Used'
  BY <1>15, DisksAssumption, Kinds DEF Fault, Running, Mishap, Retry, Goto,
     domainVars, historyVars, Types, JobTypes, DevTypes, CreatePlaces,
     DeletePlaces, MountPlaces, Between, Core, DisksWhole, Held, Found, Holds,
     Frees, Apart, Before, Never, HeldXML, Used, Quiet, DomainTypes, XMLTypes,
     XML, Jobs
<1>16. ASSUME NEW j \in Jobs, Silent(j) PROVE Used'
  BY <1>16, DisksAssumption, Kinds DEF Silent, Running, Mishap, Goto,
     AfterCall, domainVars, historyVars, Types, JobTypes, DevTypes,
     CreatePlaces, DeletePlaces, MountPlaces, Between, Core, DisksWhole, Held,
     Found, Holds, Frees, Apart, Before, Never, HeldXML, Used, Quiet,
     DomainTypes, XMLTypes, XML, Jobs
<1>17. ASSUME NEW j \in Jobs, Crash(j) PROVE Used'
  BY <1>17, DisksAssumption, Kinds DEF Crash, Running, Mishap, Goto,
     domainVars, historyVars, Types, JobTypes, DevTypes, CreatePlaces,
     DeletePlaces, MountPlaces, Between, Core, DisksWhole, Held, Found, Holds,
     Frees, Apart, Before, Never, HeldXML, Used, Quiet, DomainTypes, XMLTypes,
     XML, Jobs
<1>18. CASE Switch
  BY <1>18, DisksAssumption, Kinds DEF Switch, vars, domainVars, jobVars,
     historyVars, Apart, Before, Between, Core, CreatePlaces, DeletePlaces,
     DevTypes, DisksWhole, DomainTypes, Found, Frees, Held, HeldXML, Holds,
     JobTypes, MountPlaces, Never, Quiet, Types, Used, XML, XMLTypes
<1>19. CASE UNCHANGED vars
  BY <1>19, DisksAssumption, Kinds DEF vars, domainVars, jobVars, historyVars,
     Apart, Before, Between, Core, CreatePlaces, DeletePlaces, DevTypes,
     DisksWhole, DomainTypes, Found, Frees, Held, HeldXML, Holds, JobTypes,
     MountPlaces, Never, Quiet, Types, Used, XML, XMLTypes
<1> QED
  BY <1>1, <1>2, <1>3, <1>4, <1>5, <1>6, <1>7, <1>8, <1>9, <1>10, <1>11,
     <1>12, <1>13, <1>14, <1>15, <1>16, <1>17, <1>18, <1>19, Steps

-----------------------------------------------------------------------------
(***************************************************************************)
(* What the properties assume held before the step as well.                *)
(***************************************************************************)
\* Nothing is struck from the kinds of mishaps there were.
LEMMA PastGrows == [Next]_vars => past \subseteq past'
<1> SUFFICES ASSUME [Next]_vars PROVE past \subseteq past'
  OBVIOUS
<1>1. ASSUME NEW j \in Jobs, Request(j) PROVE past' = past
  BY <1>1 DEF Request
<1>2. ASSUME NEW j \in Jobs, Step(j) PROVE past \subseteq past'
  BY <1>2 DEF Step, FindMachine, AddVolume, Attach, NoteOff, FindDisk, Detach,
     DeleteVolume, FindIso, MountLive, MountOff, Status, ReadXML, DefineXML,
     Reply, TakeJob
<1>3. ASSUME NEW j \in Jobs, Fault(j) \/ Silent(j) \/ Crash(j)
      PROVE  past \subseteq past'
  BY <1>3 DEF Fault, Silent, Crash, Mishap
<1>4. CASE Switch
  BY <1>4 DEF Switch
<1>5. CASE UNCHANGED vars
  BY <1>5 DEF vars
<1> QED
  BY <1>1, <1>2, <1>3, <1>4, <1>5 DEF Next

\* What has not happened now had not happened before.
LEMMA NeverBefore ==
    ASSUME [Next]_vars, NEW K, Never(K)'
    PROVE  Never(K)
BY PastGrows DEF Never

\* A delete job's device and disk are settled when it is requested.
LEMMA RequestSettles ==
    ASSUME Types, [Next]_vars, NEW d \in Deletes
    PROVE  \/ dev'[d] = dev[d] /\ meant'[d] = meant[d]
           \/ dev[d] = None /\ meant[d] = None
<1> d \in Jobs
  BY DEF Jobs
<1>1. ASSUME NEW j \in Jobs, Request(j)
      PROVE  \/ dev'[d] = dev[d] /\ meant'[d] = meant[d]
             \/ dev[d] = None /\ meant[d] = None
  BY <1>1 DEF Request, Goto, Types, DevTypes, MeantTypes
<1>2. ASSUME NEW j \in Jobs, FindMachine(j)
      PROVE  dev'[d] = dev[d] /\ meant' = meant
  <2>1. j # d
    BY <1>2, DisksAssumption DEF FindMachine
  <2> QED
    BY <1>2, <2>1 DEF FindMachine, historyVars, Types, DevTypes
<1>3. ASSUME NEW j \in Jobs, Step(j), ~FindMachine(j)
      PROVE  dev' = dev /\ meant' = meant
  BY <1>3 DEF Step, AddVolume, Attach, FindDisk, Detach, DeleteVolume, FindIso,
     MountLive, MountOff, Status, ReadXML, DefineXML, Reply, historyVars
<1>4. ASSUME NEW j \in Jobs, Fault(j) \/ Silent(j) \/ Crash(j)
      PROVE  dev' = dev /\ meant' = meant
  BY <1>4 DEF Fault, Silent, Crash, historyVars
<1>5. CASE Switch
  BY <1>5 DEF Switch, jobVars, historyVars
<1>6. CASE UNCHANGED vars
  BY <1>6 DEF vars, jobVars, historyVars
<1> QED
  BY <1>1, <1>2, <1>3, <1>4, <1>5, <1>6 DEF Next

\* Devices that are all different now were so before ...
LEMMA DistinctBefore ==
    ASSUME Types, [Next]_vars, Distinct'
    PROVE  Distinct
BY RequestSettles DEF Distinct

\* ... and so were the disks that were asked for.
LEMMA AllOnceBefore ==
    ASSUME Types, [Next]_vars, AllOnce'
    PROVE  AllOnce
BY RequestSettles DEF AllOnce

\* Two ways for the delete jobs in hand to have devices of their own: they were
\* requested for different devices, or for disks that are still different.
LEMMA DistinctApart == Types /\ Distinct => Apart
BY DisksAssumption DEF Types, DevTypes, Distinct, Apart, Before, Between,
   Devices

\* The second way.
LEMMA RightApart == Right /\ AllOnce => Apart
BY DEF Right, AllOnce, Apart

-----------------------------------------------------------------------------
\* The machine starts with one disk, its volume and nothing in hand.
LEMMA InvInit == Init => Inv
<1> SUFFICES ASSUME Init PROVE Inv
  OBVIOUS
<1>1. Types
  BY TypesInit
<1>2. Core
  BY DisksAssumption DEF Init, Core, DisksWhole, Held, HeldXML, Found, Between,
     Jobs, Devices
<1>3. Right /\ RightOnly
  BY DEF Init, Right, RightOnly, Before, Between, Jobs
<1>4. Used
  BY DEF Init, Used
<1> QED
  BY <1>1, <1>2, <1>3, <1>4 DEF Inv, CoreInv, RightInv, UsedInv

\* What a property's premise says after a step held before it, so each part
\* follows from its own.
LEMMA InvStep == Inv /\ [Next]_vars => Inv'
<1> SUFFICES ASSUME Inv, [Next]_vars PROVE Inv'
  OBVIOUS
<1>1. Types'
  BY TypesStep DEF Inv
<1>2. CoreInv'
  <2> SUFFICES ASSUME Never({"lost", "silent"})', Distinct' PROVE Core'
    BY DEF CoreInv
  <2>1. Distinct /\ Never({"lost", "silent"})
    BY DistinctBefore, NeverBefore DEF Inv
  <2>2. Core /\ Apart
    BY <2>1, DistinctApart DEF Inv, CoreInv
  <2> QED
    BY <2>2, CoreStep DEF Inv
<1>3. RightInv'
  <2> SUFFICES ASSUME Quiet', AllOnce' PROVE (Core /\ Right /\ RightOnly)'
    BY DEF RightInv
  <2>1. Quiet /\ AllOnce
    BY AllOnceBefore, NeverBefore DEF Inv, Quiet
  <2>2. Core /\ Right /\ RightOnly /\ Apart
    BY <2>1, RightApart DEF Inv, RightInv
  <2>3. Never({"lost", "silent"})'
    BY DEF Quiet, Never
  <2> QED
    BY <2>2, <2>3, CoreStep, RightStep DEF Inv
<1>4. UsedInv'
  <2> SUFFICES ASSUME Quiet', Never({"power"})', Distinct' PROVE Used'
    BY DEF UsedInv
  <2>1. Quiet /\ Never({"power"}) /\ Distinct
    BY DistinctBefore, NeverBefore DEF Inv, Quiet
  <2>2. Never({"lost", "silent"})
    BY <2>1 DEF Quiet, Never
  <2>3. Core /\ Apart /\ Used
    BY <2>1, <2>2, DistinctApart DEF Inv, CoreInv, UsedInv
  <2> QED
    BY <2>3, UsedStep DEF Inv
<1> QED
  BY <1>1, <1>2, <1>3, <1>4 DEF Inv

\* The invariant of the three properties below.
THEOREM Invariant == Spec => []Inv
BY InvInit, InvStep, PTL DEF Spec

\* No disk in the machine's XML is without its volume (Attach, DefineXML,
\* DeleteVolume), whatever fails loudly, as long as no update of the XML is lost
\* and no device is deleted twice.
THEOREM DisksHaveVolumes == Spec => []DiskHasVolume
<1>1. Inv => DiskHasVolume
  BY DEF Inv, CoreInv, Core, DisksWhole, DiskHasVolume
<1> QED
  BY <1>1, Invariant, PTL

\* The volume a create job makes becomes a disk, and the one a delete job
\* detaches goes: none is left over when nothing fails.
THEOREM NothingLeftOver == Spec => []NoLeftover
<1>1. Inv => NoLeftover
  BY DEF Inv, UsedInv, Used, Holds, Frees, NoLeftover, Running, Between, Jobs
<1> QED
  BY <1>1, Invariant, PTL

\* A delete job deletes the disk its user saw, when nothing is repeated.
THEOREM DeletesRightDisk == Spec => []RightDisk
<1>1. Inv => RightDisk
  BY DEF Inv, RightInv, RightOnly, RightDisk
<1> QED
  BY <1>1, Invariant, PTL

==============================================================================
