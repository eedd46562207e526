-------------------------------- MODULE Power --------------------------------
(***************************************************************************)
(* The power buttons of a machine: MachineActionJob, Wvm::Machine's        *)
(* operations, and the backend's page of all machines, which carries them  *)
(* out (backend/instance/views.py, instances).                             *)
(*                                                                         *)
(* A request for an operation lists every machine of the host before it    *)
(* looks at what was asked for, and is redirected to the same page after   *)
(* it, which lists them again.  The list takes several calls of libvirt,   *)
(* and a machine that changes in between makes it fail: with errors on the *)
(* page, which fail the job, when it is no longer active, and with a page  *)
(* that has none (500), which the job takes for success, when it is gone.  *)
(***************************************************************************)
EXTENDS Naturals, Sequences

CONSTANTS Machines, Jobs,
          MaxEvents     \* bound: crashes, resets, and changes by others

ASSUME EventsAssumption == MaxEvents \in Nat

\* The buttons of a machine, and the operations libvirt is asked for.
Actions == {"start", "pause", "resume", "stop", "force_stop", "restart", "force_restart"}

Operations_Swapped(action) ==
    CASE action = "start"         -> <<"start">>
      [] action = "pause"         -> <<"suspend">>
      [] action = "resume"        -> <<"resume">>
      [] action = "stop"          -> <<"shutdown">>
      [] action = "force_stop"    -> <<"destroy">>
      [] action = "restart"       -> <<"restart">>
      [] action = "force_restart" -> <<"start", "destroy">>

Operations(action) ==
    CASE action = "start"         -> <<"start">>
      [] action = "pause"         -> <<"suspend">>
      [] action = "resume"        -> <<"resume">>
      [] action = "stop"          -> <<"shutdown">>
      [] action = "force_stop"    -> <<"destroy">>
      [] action = "restart"       -> <<"restart">>
      [] action = "force_restart" -> <<"destroy", "start">>

Kinds == {"stopped", "deleted", "touched", "crash", "reset"}

VARIABLES dom,      \* a machine's domain: "off", "on", "paused" or "gone"
          asked,    \* the machines whose guest was asked to shut down
          target,   \* the machine of a job
          action,   \* its button
          found,    \* whether the job found its machine
          pc,       \* where the job, or the page it has asked for, is
          call,     \* how many of its operations have been answered for
          redirected, \* the page is the one it was redirected to
          seen,     \* the machines the page lists
          errors,   \* the page has errors
          resent,   \* the request is its second try
          rows,     \* how many rows a machine has in the backend's database
          missing,  \* the machines a request has found none of
          carried,  \* history: how many operations were carried out
          met,      \* history: the kinds of events there were while a job ran
          events    \* how many there were

domVars == <<dom, asked>>
jobVars == <<target, action, found, call>>
pageVars == <<redirected, seen, errors, missing>>
requestVars == <<call, redirected, errors, resent>>
historyVars == <<carried, met>>
vars == <<domVars, rows, jobVars, pc, pageVars, resent, historyVars, events>>

Init ==
    /\ dom \in [Machines -> {"off", "on", "paused"}]
    /\ asked = {}
    /\ rows \in [Machines -> 0 .. 1]
    /\ target \in [Jobs -> Machines]
    /\ action \in [Jobs -> Actions]
    /\ found = [j \in Jobs |-> FALSE]
    /\ pc = [j \in Jobs |-> "queued"]
    /\ call = [j \in Jobs |-> 0]
    /\ redirected = [j \in Jobs |-> FALSE]
    /\ seen = [j \in Jobs |-> {}]
    /\ errors = [j \in Jobs |-> FALSE]
    /\ resent = [j \in Jobs |-> FALSE]
    /\ missing = [j \in Jobs |-> {}]
    /\ carried = [j \in Jobs |-> 0]
    /\ met = [j \in Jobs |-> {}]
    /\ events = 0

Goto(j, p, q) == pc[j] = p /\ pc' = [pc EXCEPT ![j] = q]

Places == {"queued", "found", "list", "lookup", "describe", "save", "operate",
           "done", "failed"}

Running(j) == pc[j] \notin {"queued", "done", "failed"}

\* What the jobs that run, those in `except' excepted, meet with.
Meet(kind, except) ==
    met' = [j \in Jobs |-> IF Running(j) /\ j \notin except THEN met[j] \union {kind}
                                                           ELSE met[j]]

Active(m) == dom[m] \in {"on", "paused"}

(***************************************************************************)
(* The job: its machine, and one request for each of its operations.       *)
(***************************************************************************)
\* A machine that is gone, or whose row is there twice, is found all the same
\* (500), without a hostname.
FindMachine(j) ==
    LET m == target[j]
    IN /\ Goto(j, "queued", IF dom[m] # "gone" /\ rows[m] = 0 THEN "found" ELSE "list")
       /\ found' = [found EXCEPT ![j] = dom[m] # "gone" /\ rows[m] < 2]
       /\ missing' = [missing EXCEPT ![j] = {n \in {m} : dom[n] # "gone" /\ rows[n] = 0}]
       /\ redirected' = [redirected EXCEPT ![j] = FALSE]
       /\ errors' = [errors EXCEPT ![j] = FALSE]
       /\ resent' = [resent EXCEPT ![j] = @ /\ pc'[j] = "found"]
       /\ UNCHANGED <<domVars, rows, target, action, call, seen, historyVars, events>>

\* A machine without a row is given one.
AddRows(j) ==
    /\ rows' = [m \in Machines |-> rows[m] + IF m \in missing[j] THEN 1 ELSE 0]
    /\ missing' = [missing EXCEPT ![j] = {}]

AddFound(j) ==
    /\ Goto(j, "found", "list")
    /\ AddRows(j)
    /\ resent' = [resent EXCEPT ![j] = FALSE]
    /\ UNCHANGED <<domVars, jobVars, redirected, seen, errors, historyVars, events>>

\* The request is answered with errors: the job has failed, it is run once.
Failed_Again(j, p) == Goto(j, p, "queued")

Failed(j, p) == Goto(j, p, "failed")

\* It is answered without errors: the next operation, if there is one.
Succeeded(j, p) ==
    /\ call' = [call EXCEPT ![j] = @ + 1]
    /\ Goto(j, p, IF call[j] + 1 < Len(Operations(action[j])) THEN "list" ELSE "done")
    /\ redirected' = [redirected EXCEPT ![j] = FALSE]
    /\ errors' = [errors EXCEPT ![j] = FALSE]
    /\ resent' = [resent EXCEPT ![j] = FALSE]

(***************************************************************************)
(* The page of all machines.                                               *)
(***************************************************************************)
\* The numbers of the active ones...
ListActive(j) ==
    /\ Goto(j, "list", "lookup")
    /\ seen' = [seen EXCEPT ![j] = {m \in Machines : Active(m)}]
    /\ UNCHANGED <<domVars, rows, jobVars, redirected, errors, missing, resent,
                   historyVars, events>>

\* ...their names, and the names of the others.
LookUp(j) ==
    /\ Goto(j, "lookup", "describe")
    /\ IF \A m \in seen[j] : Active(m)
         THEN /\ seen' = [seen EXCEPT ![j] = @ \union {m \in Machines : dom[m] = "off"}]
              /\ UNCHANGED errors
         ELSE /\ seen' = [seen EXCEPT ![j] = {}]
              /\ errors' = [errors EXCEPT ![j] = TRUE]
    /\ UNCHANGED <<domVars, rows, jobVars, redirected, missing, resent, historyVars, events>>

\* The list is complete: it is the answer, or what was asked for comes next.
Listed(j, p) ==
    \/ redirected[j] /\ ~errors[j] /\ Succeeded(j, p)
    \/ redirected[j] /\ errors[j] /\ Failed(j, p) /\ UNCHANGED requestVars
    \/ ~redirected[j] /\ Goto(j, p, "operate") /\ UNCHANGED requestVars

\* Each machine on the list is described: by its name, which may be gone, and
\* with its row, which may be missing or be there twice.
Indescribable(j) == \E m \in seen[j] : dom[m] = "gone" \/ rows[m] > 1

Describe_Loudly(j) ==
    /\ pc[j] = "describe"
    /\ missing' = [missing EXCEPT ![j] = {m \in seen[j] : rows[m] = 0}]
    /\ \/ Indescribable(j) /\ Failed(j, "describe") /\ UNCHANGED requestVars
       \/ ~Indescribable(j) /\ missing'[j] = {} /\ Listed(j, "describe")
       \/ /\ ~Indescribable(j) /\ missing'[j] # {}
          /\ Goto(j, "describe", "save") /\ UNCHANGED requestVars
    /\ UNCHANGED <<domVars, rows, target, action, found, seen, historyVars, events>>

Describe(j) ==
    /\ pc[j] = "describe"
    /\ missing' = [missing EXCEPT ![j] = {m \in seen[j] : rows[m] = 0}]
    /\ \/ Indescribable(j) /\ Succeeded(j, "describe")
       \/ ~Indescribable(j) /\ missing'[j] = {} /\ Listed(j, "describe")
       \/ /\ ~Indescribable(j) /\ missing'[j] # {}
          /\ Goto(j, "describe", "save") /\ UNCHANGED requestVars
    /\ UNCHANGED <<domVars, rows, target, action, found, seen, historyVars, events>>

AddListed(j) ==
    /\ pc[j] = "save"
    /\ AddRows(j)
    /\ Listed(j, "save")
    /\ UNCHANGED <<domVars, target, action, found, seen, historyVars, events>>

(***************************************************************************)
(* The operation, as libvirt carries it out.                               *)
(***************************************************************************)
Possible(o, m) ==
    CASE o = "start" -> dom[m] = "off"
      [] o = "restart" -> FALSE
      [] OTHER -> Active(m)

Carry(o, m) ==
    /\ dom' = [dom EXCEPT ![m] =
                 CASE o = "start" -> "on"
                   [] o = "destroy" -> "off"
                   [] o = "suspend" -> "paused"
                   [] o = "resume" -> "on"
                   [] OTHER -> @]
    /\ asked' = CASE o = "shutdown" -> asked \union {m}
                  [] o = "destroy" -> asked \ {m}
                  [] OTHER -> asked

\* The page is redirected to itself, which drops what errors it had.
Operate(j) ==
    LET m == target[j]
        o == Operations(action[j])[call[j] + 1]
    IN /\ found[j] /\ Possible(o, m)
       /\ Goto(j, "operate", "list")
       /\ Carry(o, m)
       /\ carried' = [carried EXCEPT ![j] = @ + 1]
       /\ redirected' = [redirected EXCEPT ![j] = TRUE]
       /\ errors' = [errors EXCEPT ![j] = FALSE]
       /\ met' = [k \in Jobs |->
                    IF k = j \/ ~Running(k) THEN met[k]
                    ELSE met[k] \union (IF o = "destroy" THEN {"stopped"} ELSE {})
                                \union (IF m = target[k] THEN {"touched"} ELSE {})]
       /\ UNCHANGED <<rows, target, action, found, call, seen, missing, resent, events>>

\* libvirt's error is put on the page...
Refuse_Ignored(j) ==
    LET o == Operations(action[j])[call[j] + 1]
    IN /\ ~(found[j] /\ Possible(o, target[j]))
       /\ Succeeded(j, "operate")
       /\ UNCHANGED <<domVars, rows, target, action, found, seen, missing, historyVars, events>>

Refuse(j) ==
    LET o == Operations(action[j])[call[j] + 1]
    IN /\ o # "restart"
       /\ ~(found[j] /\ Possible(o, target[j]))
       /\ Failed(j, "operate")
       /\ UNCHANGED <<domVars, rows, jobVars, pageVars, resent, historyVars, events>>

\* ...and what the page does not know is not done.
Ignore(j) ==
    /\ Operations(action[j])[call[j] + 1] = "restart"
    /\ \/ errors[j] /\ Failed(j, "operate") /\ UNCHANGED requestVars
       \/ ~errors[j] /\ Succeeded(j, "operate")
    /\ UNCHANGED <<domVars, rows, target, action, found, seen, missing, historyVars, events>>

(***************************************************************************)
(* Events.                                                                 *)
(***************************************************************************)
Event == events < MaxEvents /\ events' = events + 1

\* A guest goes down, because it was asked to or by itself.
GuestOff(m) ==
    /\ dom[m] = "on"
    /\ IF m \in asked THEN UNCHANGED events ELSE Event
    /\ dom' = [dom EXCEPT ![m] = "off"]
    /\ asked' = asked \ {m}
    /\ Meet("stopped", {})
    /\ UNCHANGED <<rows, jobVars, pc, pageVars, resent, carried>>

\* MachineDeleteJob undefines a machine and removes its row; with two it cannot.
Delete(m) ==
    /\ dom[m] = "off"
    /\ rows[m] < 2
    /\ Event
    /\ rows' = [rows EXCEPT ![m] = 0]
    /\ dom' = [dom EXCEPT ![m] = "gone"]
    /\ Meet("deleted", {})
    /\ UNCHANGED <<asked, jobVars, pc, pageVars, resent, carried>>

\* A worker dies; its job is run from its beginning when its lock expires.
Crash(j) ==
    /\ Running(j)
    /\ Event
    /\ Goto(j, pc[j], "queued")
    /\ call' = [call EXCEPT ![j] = 0]
    /\ resent' = [resent EXCEPT ![j] = FALSE]
    /\ met' = [met EXCEPT ![j] = @ \union {"crash"}]
    /\ UNCHANGED <<domVars, rows, target, action, found, pageVars, carried>>

\* The backend goes away while it serves a request, which is sent once more:
\* the one that finds the machine, or that of the operation.
Reset(j) ==
    /\ Running(j) /\ ~resent[j]
    /\ Event
    /\ Goto(j, pc[j], IF pc[j] = "found" THEN "queued" ELSE "list")
    /\ redirected' = [redirected EXCEPT ![j] = FALSE]
    /\ errors' = [errors EXCEPT ![j] = FALSE]
    /\ resent' = [resent EXCEPT ![j] = TRUE]
    /\ met' = [met EXCEPT ![j] = @ \union {"reset"}]
    /\ UNCHANGED <<domVars, rows, jobVars, seen, missing, carried>>

-----------------------------------------------------------------------------
Step(j) ==
    \/ FindMachine(j) \/ AddFound(j)
    \/ ListActive(j) \/ LookUp(j) \/ Describe(j) \/ AddListed(j)
    \/ (pc[j] = "operate" /\ (Operate(j) \/ Refuse(j) \/ Ignore(j)))

Next ==
    \/ \E j \in Jobs : Step(j) \/ Crash(j) \/ Reset(j)
    \/ \E m \in Machines : GuestOff(m) \/ Delete(m)

Spec == Init /\ [][Next]_vars

-----------------------------------------------------------------------------
Calls(j) == Len(Operations(action[j]))

Ended(j) == pc[j] \in {"done", "failed"}

CallsLeft == \A j \in Jobs : ~Ended(j) => call[j] < Calls(j)

TypeOK ==
    /\ dom \in [Machines -> {"off", "on", "paused", "gone"}]
    /\ asked \subseteq Machines
    /\ rows \in [Machines -> Nat]
    /\ missing \in [Jobs -> SUBSET Machines]
    /\ target \in [Jobs -> Machines]
    /\ action \in [Jobs -> Actions]
    /\ found \in [Jobs -> BOOLEAN]
    /\ pc \in [Jobs -> Places]
    /\ call \in [Jobs -> 0 .. 2]
    /\ redirected \in [Jobs -> BOOLEAN]
    /\ seen \in [Jobs -> SUBSET Machines]
    /\ errors \in [Jobs -> BOOLEAN]
    /\ resent \in [Jobs -> BOOLEAN]
    /\ carried \in [Jobs -> Nat]
    /\ met \in [Jobs -> SUBSET Kinds]
    /\ events \in 0 .. MaxEvents
    /\ CallsLeft

\* Two requests have each given a machine the row they did not find: no page
\* that names it works any more.
Twice == \E m \in Machines : rows[m] > 1

\* A job that reports success has had its operations carried out, unless a
\* machine, any machine, was deleted while it ran or has its row twice.
\* (`restart' is an operation the backend does not know: it reports success and
\* does nothing.)
SuccessIsCarriedOut ==
    ~Twice => \A j \in Jobs :
        pc[j] = "done" /\ action[j] # "restart" /\ "deleted" \notin met[j] =>
            carried[j] >= Calls(j)

\* A job that reports a failure has not had them all carried out, unless a
\* machine, any machine, stopped, or it was run or sent more than once.
FailureIsNotCarriedOut ==
    \A j \in Jobs :
        pc[j] = "failed" /\ met[j] \intersect {"stopped", "crash", "reset"} = {} =>
            carried[j] < Calls(j)

\* No operation is carried out twice for one click on its button, unless a
\* worker or the backend died.
AtMostOnce ==
    \A j \in Jobs :
        met[j] \intersect {"crash", "reset"} = {} => carried[j] <= Calls(j)

\* A hard reset that reports success leaves its machine running, if nobody else
\* did anything to it.
HardResetEndsOn ==
    [][~Twice => \A j \in Jobs :
         /\ action[j] = "force_restart"
         /\ pc[j] # "done" /\ pc'[j] = "done"
         /\ met[j] \intersect {"deleted", "stopped", "touched"} = {}
         => dom[target[j]] = "on"]_vars
=============================================================================
