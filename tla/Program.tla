------------------------------ MODULE Program ------------------------------
(***************************************************************************)
(* The jobs on the services of the starter: a worker that dies takes the   *)
(* job it runs with it, rails answers while it is up, and when a service   *)
(* exits the starter kills the workers over whatever they do.              *)
(***************************************************************************)
EXTENDS Jobs, Starter

CONSTANTS rails,
          MaxFaults   \* bound: how often something goes wrong of itself

ASSUME ProgramAssumption ==
    /\ rails \in Services
    /\ Workers \subseteq Services
    /\ MaxFaults \in Nat

VARIABLE faults    \* how often something has gone wrong

others == <<starterVars, faults>>
programVars == <<vars, others>>

ProgramInit == Init /\ StarterInit /\ faults = 0

(***************************************************************************)
(* What the services do.                                                   *)
(***************************************************************************)
Up(s) == service[s] = "up"

\* Bound: no job while images are fetched, which have nothing to do with it.
Requests(j) ==
    /\ Up(rails)
    /\ \A i \in Isos : iso[i] = "waiting"
    /\ PerformLater(j)
    /\ UNCHANGED others

Polls(j) == Up(rails) /\ Poll(j) /\ UNCHANGED others

Responds(j) == Response(j) /\ UNCHANGED others

Takes(w, j) == Up(w) /\ Reserve(w, j) /\ UNCHANGED others

Works(w) == Up(w) /\ Run(w) /\ UNCHANGED others

Expires(j) == LockExpires(j) /\ UNCHANGED others

Cleans(j) == DestroyProgress(j) /\ UNCHANGED others

(***************************************************************************)
(* What the starter does.  The workers that it stops die; what goes wrong  *)
(* of itself is bounded by MaxFaults.                                     *)
(***************************************************************************)
Dying == {w \in Workers : service[w] = "up" /\ service'[w] # "up"}

Normally == Crash(Dying) /\ UNCHANGED faults

Fault == Crash(Dying) /\ faults < MaxFaults /\ faults' = faults + 1

Broken == starter = "refused" \/ (starter = "up" /\ \E s \in Services : service[s] = "down")

Restart == (Start \/ (Broken /\ Stop)) /\ Normally

Exits(s) == ServiceExits(s) /\ Normally

Proceeds == StarterProgress /\ Normally

GoesWrong ==
    /\ StarterFaults \/ (~Broken /\ Stop) \/ \E s \in Services : ServiceDies(s)
    /\ Fault

ProgramNext ==
    \/ \E j \in Jobs : \/ Requests(j) \/ Polls(j) \/ Responds(j)
                       \/ Expires(j) \/ Cleans(j)
    \/ \E w \in Workers : Works(w) \/ \E j \in Jobs : Takes(w, j)
    \/ Restart \/ Proceeds \/ GoesWrong
    \/ \E s \in Services : Exits(s)

\* Workers run and look for work every half second, dead locks expire, the
\* browser's timer ticks and responses arrive; exits are seen, tasks end, and
\* the user starts again what has stopped.
ProgramFairness ==
    /\ \A w \in Workers : WF_programVars(Works(w))
    /\ \A j \in Jobs : /\ WF_programVars(\E w \in Workers : Takes(w, j))
                       /\ WF_programVars(Expires(j))
                       /\ SF_programVars(Polls(j))
                       /\ SF_programVars(Responds(j))
    /\ WF_programVars(Restart \/ Proceeds \/ \E s \in Services : Exits(s))

ProgramSpec == ProgramInit /\ [][ProgramNext]_programVars /\ ProgramFairness

=============================================================================
