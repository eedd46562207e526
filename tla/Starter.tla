------------------------------ MODULE Starter ------------------------------
(***************************************************************************)
(* starter.js: the tasks that prepare the program, the services it runs    *)
(* and stops together, the download of the ISO images.                     *)
(*                                                                         *)
(* A child is run by `script' or bash; SIGKILL takes it at once, its exit  *)
(* event comes later.  A child that dies of a signal has no exit code, and *)
(* the libraries' callbacks take null for success.  The starter itself     *)
(* outlives its services: virtkick-proxy keeps it running until the user   *)
(* stops it.                                                               *)
(***************************************************************************)
EXTENDS Naturals, Sequences, FiniteSetsExt

CONSTANTS Services,    \* rails, the workers, the backend
          Stages,      \* a sequence of sets of tasks (serialTasks)
          Commands,    \* how many commands each task runs in series
          Isos,        \* the images that have a mirror
          Limit        \* how many are fetched at a time (4)

Tasks == UNION {Stages[n] : n \in DOMAIN Stages}

ASSUME StarterAssumption ==
    /\ Stages \in Seq(SUBSET Tasks)
    /\ Commands \in [Tasks -> Nat \ {0}]
    /\ IsFiniteSet(Isos)
    /\ Limit \in Nat \ {0}

VARIABLES starter,    \* "off", "tasks", "refused" or "up"
          stage,      \* the stage of tasks that runs
          left,       \* how many commands each task has before it
          service,    \* each service: "down", "up", or "dead" and not seen so
          iso,        \* each image: "waiting", "fetching", "dead", "failed"
                      \*   or "over"
          fetched,    \* the images that are on the disk
          isosDone,   \* does .isos-done exist?
          errors,     \* history: the tasks of this start that failed
          cut         \* history: a signal ended a task or a download

startVars == <<starter, stage, left>>
isoVars == <<iso, fetched, isosDone>>
starterVars == <<startVars, service, isoVars, errors, cut>>

StarterInit ==
    /\ starter = "off"
    /\ stage = 0
    /\ left = [t \in Tasks |-> 0]
    /\ service = [s \in Services |-> "down"]
    /\ iso = [i \in Isos |-> "waiting"]
    /\ isosDone \in BOOLEAN
    /\ fetched = IF isosDone THEN Isos ELSE {}
    /\ errors = {}
    /\ cut = FALSE

-----------------------------------------------------------------------------
(***************************************************************************)
(* async.eachLimit: an image that failed keeps its place.                  *)
(***************************************************************************)
With(f, state) == {i \in Isos : f[i] = state}

Places(f) == With(f, "fetching") \union With(f, "dead") \union With(f, "failed")

\* The images of f, with as many more fetched as there are places.
Replenished(f) ==
    LET free == Limit - Cardinality(Places(f)) IN
    {[i \in Isos |-> IF i \in new THEN "fetching" ELSE f[i]] :
        new \in kSubset(Min({free, Cardinality(With(f, "waiting"))}), With(f, "waiting"))}

RunEverything ==
    /\ starter' = "up"
    /\ service' = [s \in Services |-> "up"]
    /\ IF isosDone THEN UNCHANGED iso ELSE iso' \in Replenished([i \in Isos |-> "waiting"])

\* virtkick-start, which runs the first stage of tasks.
Start ==
    /\ starter = "off"
    /\ starter' = "tasks"
    /\ stage' = 1
    /\ left' = [t \in Tasks |-> Commands[t]]
    /\ errors' = {}
    /\ UNCHANGED <<service, isoVars, cut>>

EnterStage(n) ==
    /\ stage' = n
    /\ IF n <= Len(Stages) THEN UNCHANGED <<starter, service, iso>> ELSE RunEverything

\* A stage of async.parallel is over when its last task is.
CommandDone(t) ==
    /\ left' = [left EXCEPT ![t] = @ - 1]
    /\ IF starter = "tasks" /\ \A u \in Stages[stage] : left'[u] = 0
         THEN EnterStage(stage + 1)
         ELSE UNCHANGED <<starter, stage, service, iso>>

Runs(t) == starter \in {"tasks", "refused"} /\ t \in Stages[stage] /\ left[t] > 0

TaskExits(t) ==
    /\ Runs(t)
    /\ CommandDone(t)
    /\ UNCHANGED <<fetched, isosDone, errors, cut>>

\* The first error ends it all, but for the tasks that run beside it.
TaskFails_Ignored(t) == CommandDone(t)

TaskFails(t) ==
    /\ starter' = "refused"
    /\ left' = [left EXCEPT ![t] = 0]
    /\ UNCHANGED <<stage, service, iso>>

TaskError(t) ==
    /\ Runs(t)
    /\ TaskFails(t)
    /\ errors' = errors \union {t}
    /\ UNCHANGED <<fetched, isosDone, cut>>

TaskCut(t) ==
    /\ Runs(t)
    /\ CommandDone(t)
    /\ cut' = TRUE
    /\ UNCHANGED <<fetched, isosDone, errors>>

-----------------------------------------------------------------------------
(***************************************************************************)
(* The services, which stop together.                                      *)
(***************************************************************************)
Kill(f) == [x \in DOMAIN f |-> IF f[x] \in {"up", "fetching"} THEN "dead" ELSE f[x]]

ServiceDies(s) ==
    /\ service[s] = "up"
    /\ service' = [service EXCEPT ![s] = "dead"]
    /\ UNCHANGED <<startVars, isoVars, errors, cut>>

\* forceExit, by process.emit('exit'): every child gets SIGKILL.
ServiceExits(s) ==
    /\ service[s] = "dead"
    /\ service' = [Kill(service) EXCEPT ![s] = "down"]
    /\ iso' = Kill(iso)
    /\ UNCHANGED <<startVars, fetched, isosDone, errors, cut>>

\* A signal to the starter ends its children without their exits being seen.
Stop ==
    /\ starter # "off"
    /\ starter' = "off"
    /\ left' = [t \in Tasks |-> 0]
    /\ service' = [s \in Services |-> "down"]
    /\ iso' = [i \in Isos |-> "waiting"]
    /\ UNCHANGED <<stage, fetched, isosDone, errors, cut>>

-----------------------------------------------------------------------------
(***************************************************************************)
(* The downloads.                                                          *)
(***************************************************************************)
\* Once all images are over, the callback writes .isos-done.
Completed(f) ==
    /\ iso' \in Replenished(f)
    /\ isosDone' = (isosDone \/ \A i \in Isos : f[i] = "over")

IsoFetched(i) ==
    /\ iso[i] = "fetching"
    /\ fetched' = fetched \union {i}
    /\ Completed([iso EXCEPT ![i] = "over"])
    /\ UNCHANGED <<startVars, service, errors, cut>>

\* The callback is spent on the error: the next start tries again.
Spend_Completes(i) == Completed([iso EXCEPT ![i] = "over"])

Spend(i) == iso' = [iso EXCEPT ![i] = "failed"] /\ UNCHANGED isosDone

IsoError(i) ==
    /\ iso[i] = "fetching"
    /\ Spend(i)
    /\ UNCHANGED <<startVars, service, fetched, errors, cut>>

\* wget was killed: no exit code, no error.
IsoKilled(i) ==
    /\ iso[i] = "dead"
    /\ Completed([iso EXCEPT ![i] = "over"])
    /\ cut' = TRUE
    /\ UNCHANGED <<startVars, service, fetched, errors>>

-----------------------------------------------------------------------------
StarterProgress ==
    \/ \E t \in Tasks : TaskExits(t)
    \/ \E i \in Isos : IsoFetched(i) \/ IsoKilled(i)

StarterFaults ==
    \/ \E t \in Tasks : TaskError(t) \/ TaskCut(t)
    \/ \E i \in Isos : IsoError(i)

StarterNext ==
    \/ Start \/ Stop
    \/ \E s \in Services : ServiceDies(s) \/ ServiceExits(s)
    \/ StarterProgress \/ StarterFaults

StarterSpec == StarterInit /\ [][StarterNext]_starterVars

\* What the starter takes for done is done: services run only after every
\* task, and .isos-done means that every image is on the disk -- unless a
\* task or a download was ended by a signal, which counts as its success
\* (exitCb(null) in bindOutput); an image cut off that way by the exit of a
\* service is never fetched again.
NothingSkipped ==
    ~cut => /\ \A s \in Services : service[s] = "up" => errors = {} /\ \A t \in Tasks : left[t] = 0
            /\ isosDone => fetched = Isos

=============================================================================
