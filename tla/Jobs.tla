-------------------------------- MODULE Jobs --------------------------------
(***************************************************************************)
(* Background jobs of the web application: TrackableJob and BaseJob        *)
(* (webapp/app/jobs) on delayed_job, several worker processes, the         *)
(* Progress row of a tracked job, and the browser that polls it            *)
(* (handleProgress.js).                                                    *)
(*                                                                         *)
(* delayed_job itself is a library: reserving, rescheduling, failing and   *)
(* the expiry of a dead worker's lock are modelled from its use.  A worker *)
(* locks a job, runs perform and then the success hook in one `begin'; an  *)
(* exception of either reschedules the job until its attempts are used up, *)
(* then the failure hook runs.  A job that exceeds max_run_time is one     *)
(* whose perform raises.                                                   *)
(***************************************************************************)
EXTENDS Naturals, FiniteSets

CONSTANTS Jobs,         \* the jobs that are ever enqueued
          Tracked,      \* those that are TrackableJobs
          Workers,      \* the `rake jobs:work' processes
          MaxAttempts,  \* set_max_attempts of each job
          CleanUp,      \* may a user's Progress rows be destroyed meanwhile?
          None

ASSUME JobsAssumption ==
    /\ Tracked \subseteq Jobs
    /\ MaxAttempts \in [Jobs -> Nat \ {0}]
    /\ CleanUp \in BOOLEAN
    /\ None \notin Jobs

VARIABLES queue,      \* a job's row: "none", "queued", "failed", "deleted"
          locked,     \* the jobs whose row is locked by a worker, dead or alive
          attempts,   \* the attempts column
          progress,   \* the Progress row: "none", "pending", "finished",
                      \*   "error" (finished, with an error) or "deleted"
          working,    \* the job each worker runs
          pc,         \* where it is in running it
          starts,     \* history: how often a job was started
          performed,  \* history: how often its perform returned
          lost,       \* history: the jobs that were running when a worker died
          polling,    \* the jobs whose browser has its timer running
          inflight,   \* states in the poll responses on their way
          told        \* outcomes passed to the browser's callbacks

rowVars == <<queue, locked, attempts>>
workVars == <<working, pc>>
historyVars == <<starts, performed, lost>>
clientVars == <<polling, inflight, told>>
vars == <<rowVars, progress, workVars, historyVars, clientVars>>

Init ==
    /\ queue = [j \in Jobs |-> "none"]
    /\ locked = {}
    /\ attempts = [j \in Jobs |-> 0]
    /\ progress = [j \in Jobs |-> "none"]
    /\ working = [w \in Workers |-> None]
    /\ pc = [w \in Workers |-> "idle"]
    /\ starts = [j \in Jobs |-> 0]
    /\ performed = [j \in Jobs |-> 0]
    /\ lost = [j \in Jobs |-> 0]
    /\ polling = {}
    /\ inflight = [j \in Jobs |-> {}]
    /\ told = [j \in Jobs |-> {}]

\* perform_later: the Progress row, the job, and its id to the browser.
PerformLater(j) ==
    /\ queue[j] = "none"
    /\ queue' = [queue EXCEPT ![j] = "queued"]
    /\ IF j \in Tracked
         THEN /\ progress' = [progress EXCEPT ![j] = "pending"]
              /\ polling' = polling \union {j}
         ELSE UNCHANGED <<progress, polling>>
    /\ UNCHANGED <<locked, attempts, workVars, historyVars, inflight, told>>

(***************************************************************************)
(* A worker runs a job.                                                    *)
(***************************************************************************)
At(w, p) == pc[w] = p

Goto(w, p) == pc' = [pc EXCEPT ![w] = p]

\* The row is let go by the worker.
Done(w, j) ==
    /\ working' = [working EXCEPT ![w] = None]
    /\ Goto(w, "idle")
    /\ locked' = locked \ {j}

Available(j) == queue[j] = "queued" /\ j \notin locked

Reserve(w, j) ==
    /\ At(w, "idle")
    /\ Available(j)
    /\ locked' = locked \union {j}
    /\ working' = [working EXCEPT ![w] = j]
    /\ Goto(w, "perform")
    /\ starts' = [starts EXCEPT ![j] = @ + 1]
    /\ UNCHANGED <<queue, attempts, progress, performed, lost, clientVars>>

PerformReturns(w) ==
    LET j == working[w] IN
    /\ At(w, "perform")
    /\ performed' = [performed EXCEPT ![j] = @ + 1]
    /\ Goto(w, IF j \in Tracked THEN "success" ELSE "destroy")
    /\ UNCHANGED <<rowVars, progress, working, starts, lost, clientVars>>

PerformRaises(w) ==
    /\ At(w, "perform")
    /\ Goto(w, "error")
    /\ UNCHANGED <<rowVars, progress, working, historyVars, clientVars>>

\* TrackableJob#success.  It leaves an error of an earlier run in the row, and
\* Progress.find raises when the row is gone: the job is tried again.
SetFinished_Never(j) == UNCHANGED progress

SetFinished(j) ==
    progress' = [progress EXCEPT ![j] = IF @ = "error" THEN "error" ELSE "finished"]

SuccessHook(w) ==
    LET j == working[w] IN
    /\ At(w, "success")
    /\ IF progress[j] = "deleted"
         THEN Goto(w, "error") /\ UNCHANGED progress
         ELSE Goto(w, "destroy") /\ SetFinished(j)
    /\ UNCHANGED <<rowVars, working, historyVars, clientVars>>

DestroyRow_Keeps(j) == UNCHANGED queue

DestroyRow(j) == queue' = [queue EXCEPT ![j] = "deleted"]

Destroy(w) ==
    /\ At(w, "destroy")
    /\ DestroyRow(working[w])
    /\ Done(w, working[w])
    /\ UNCHANGED <<attempts, progress, historyVars, clientVars>>

LastAttempt_OffByOne(j) == attempts[j] >= MaxAttempts[j]

LastAttempt(j) == attempts[j] + 1 >= MaxAttempts[j]

Reschedule(w) ==
    LET j == working[w] IN
    /\ At(w, "error")
    /\ ~LastAttempt(j)
    /\ attempts' = [attempts EXCEPT ![j] = @ + 1]
    /\ Done(w, j)
    /\ UNCHANGED <<queue, progress, historyVars, clientVars>>

\* TrackableJob#failure; delayed_job swallows what the hook raises.
SetError_WithoutFinished(j) == UNCHANGED progress

SetError(j) == progress' = [progress EXCEPT ![j] = "error"]

FailureHook(w) ==
    LET j == working[w] IN
    /\ At(w, "error")
    /\ LastAttempt(j)
    /\ Goto(w, "fail")
    /\ IF j \in Tracked /\ progress[j] # "deleted" THEN SetError(j)
       ELSE UNCHANGED progress
    /\ UNCHANGED <<rowVars, working, historyVars, clientVars>>

Fail(w) ==
    LET j == working[w] IN
    /\ At(w, "fail")
    /\ queue' = [queue EXCEPT ![j] = "failed"]
    /\ attempts' = [attempts EXCEPT ![j] = @ + 1]
    /\ Done(w, j)
    /\ UNCHANGED <<progress, historyVars, clientVars>>

(***************************************************************************)
(* Workers die, also several at once; their successors have other names,   *)
(* and a lock lasts until max_run_time is over.                            *)
(***************************************************************************)
Crash(W) ==
    /\ lost' = [j \in Jobs |-> lost[j] + Cardinality({w \in W : working[w] = j})]
    /\ working' = [w \in Workers |-> IF w \in W THEN None ELSE working[w]]
    /\ pc' = [w \in Workers |-> IF w \in W THEN "idle" ELSE pc[w]]
    /\ UNCHANGED <<rowVars, progress, starts, performed, clientVars>>

LockExpires(j) ==
    /\ j \in locked
    /\ \A w \in Workers : working[w] # j
    /\ locked' = locked \ {j}
    /\ UNCHANGED <<queue, attempts, progress, workVars, historyVars, clientVars>>

\* The user is destroyed, and the Progress rows with it.
DestroyProgress(j) ==
    /\ CleanUp
    /\ progress[j] \notin {"none", "deleted"}
    /\ progress' = [progress EXCEPT ![j] = "deleted"]
    /\ UNCHANGED <<rowVars, workVars, historyVars, clientVars>>

(***************************************************************************)
(* The browser.  Its timer sends a request whether or not the last one was *)
(* answered; a 404 is ignored.                                             *)
(***************************************************************************)
Poll(j) ==
    /\ j \in polling
    /\ progress[j] # "deleted"
    /\ inflight' = [inflight EXCEPT ![j] = @ \union {progress[j]}]
    /\ UNCHANGED <<rowVars, progress, workVars, historyVars, polling, told>>

ReportsFinished_Always(r) == TRUE

ReportsFinished(r) == r # "pending"

Response(j) ==
    \E r \in inflight[j] :
        /\ inflight' = [inflight EXCEPT ![j] = @ \ {r}]
        /\ IF ReportsFinished(r)
             THEN /\ polling' = polling \ {j}
                  /\ told' = [told EXCEPT ![j] = @ \union
                                {IF r = "error" THEN "error" ELSE "success"}]
             ELSE UNCHANGED <<polling, told>>
        /\ UNCHANGED <<rowVars, progress, workVars, historyVars>>

-----------------------------------------------------------------------------
Run(w) ==
    \/ PerformReturns(w) \/ PerformRaises(w) \/ SuccessHook(w) \/ Destroy(w)
    \/ Reschedule(w) \/ FailureHook(w) \/ Fail(w)

Next ==
    \/ \E j \in Jobs : \/ PerformLater(j) \/ LockExpires(j)
                       \/ DestroyProgress(j) \/ Poll(j) \/ Response(j)
    \/ \E w \in Workers, j \in Jobs : Reserve(w, j)
    \/ \E w \in Workers : Run(w)
    \/ \E W \in SUBSET Workers : Crash(W)

Spec == Init /\ [][Next]_vars

-----------------------------------------------------------------------------
PCs == {"idle", "perform", "success", "destroy", "error", "fail"}

TypeOK ==
    /\ queue \in [Jobs -> {"none", "queued", "failed", "deleted"}]
    /\ locked \subseteq Jobs
    /\ attempts \in [Jobs -> Nat]
    /\ progress \in [Jobs -> {"none", "pending", "finished", "error", "deleted"}]
    /\ working \in [Workers -> Jobs \union {None}]
    /\ pc \in [Workers -> PCs]
    /\ \A w \in Workers : pc[w] = "idle" <=> working[w] = None
    /\ starts \in [Jobs -> Nat]
    /\ performed \in [Jobs -> Nat]
    /\ lost \in [Jobs -> Nat]
    /\ polling \subseteq Tracked
    /\ inflight \in [Jobs -> SUBSET {"pending", "finished", "error"}]
    /\ told \in [Jobs -> SUBSET {"success", "error"}]

\* The browser reports success only for a job whose perform has returned, and
\* an error only for a job that had its last attempt; a crash in between may
\* repeat the job but not turn the report into a lie.
ToldTheTruth ==
    \A j \in Jobs :
        /\ "success" \in told[j] => performed[j] > 0
        /\ "error" \in told[j] => starts[j] >= MaxAttempts[j]

\* A job is started at most max_attempts times; only a worker that dies can
\* add a start, because a crash does not count as an attempt.
AttemptsBounded ==
    \A j \in Jobs : starts[j] <= MaxAttempts[j] + lost[j]

\* Every tracked job is reported to its browser in the end, although workers
\* die, as long as its Progress row lives.
EventuallyTold ==
    \A j \in Tracked :
        queue[j] = "queued" ~> told[j] # {} \/ progress[j] = "deleted"
=============================================================================
