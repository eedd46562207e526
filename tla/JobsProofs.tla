----------------------------- MODULE JobsProofs -----------------------------
(***************************************************************************)
(* What a browser is told and how often a job is started, for any number   *)
(* of jobs, workers and crashes; and the same of the jobs on the starter's *)
(* services, whose every step is one of Jobs or none; and that the starter *)
(* skips nothing, for any stages of tasks, services and images.            *)
(***************************************************************************)
EXTENDS Program, FiniteSetTheorems, TLAPS

\* A job is run by one worker at a time, which has its lock; and only a job
\* that has a Progress row is asked for.
Exclusive ==
    /\ \A w \in Workers : working[w] # None =>
          working[w] \in locked /\ queue[working[w]] = "queued"
    /\ \A v, w \in Workers : working[v] = working[w] /\ working[v] # None => v = w
    /\ \A j \in polling : progress[j] # "none"

\* Success is only said of what was performed.
SuccessHolds ==
    /\ \A w \in Workers : pc[w] = "success" => performed[working[w]] > 0
    /\ \A j \in Jobs :
          progress[j] = "finished" \/ "finished" \in inflight[j] \/ "success" \in told[j]
              => performed[j] > 0

\* Each start is an attempt, one that was lost, or the one under way.
Counted(j) ==
    LET run == \E w \in Workers : working[w] = j IN
    /\ attempts[j] <= starts[j]
    /\ run => attempts[j] < starts[j]
    /\ starts[j] <= attempts[j] + lost[j] + 1
    /\ ~run /\ queue[j] # "deleted" => starts[j] <= attempts[j] + lost[j]
    /\ attempts[j] <= MaxAttempts[j]
    /\ queue[j] # "failed" => attempts[j] < MaxAttempts[j]

AllCounted == \A j \in Jobs : Counted(j)

\* An error is only said of a job whose attempts are used up.
ErrorHolds ==
    \A j \in Jobs :
        progress[j] = "error" \/ "error" \in inflight[j] \/ "error" \in told[j]
            => starts[j] >= MaxAttempts[j]

-----------------------------------------------------------------------------
\* Among workers that run different jobs at most one runs j.
LEMMA OneRuns ==
    ASSUME NEW W \in SUBSET Workers, NEW j \in Jobs, Exclusive, JobsAssumption
    PROVE  /\ Cardinality({w \in W : working[w] = j}) \in Nat
           /\ (\E w \in W : working[w] = j) => Cardinality({w \in W : working[w] = j}) = 1
           /\ ~(\E w \in W : working[w] = j) => Cardinality({w \in W : working[w] = j}) = 0
<1>1. CASE \E w \in W : working[w] = j
    <2>1. PICK w \in W : working[w] = j
        BY <1>1
    <2>2. {v \in W : working[v] = j} = {w}
        BY <2>1 DEF Exclusive, JobsAssumption
    <2> QED BY <2>2, <1>1, FS_Singleton
<1>2. CASE ~ \E w \in W : working[w] = j
    <2>1. {v \in W : working[v] = j} = {}
        BY <1>2
    <2> QED BY <2>1, <1>2, FS_EmptySet
<1> QED BY <1>1, <1>2

\* Types and locks, which the count of what is lost rests on.
LEMMA TypeStep ==
    ASSUME JobsAssumption, TypeOK, Exclusive, [Next]_vars
    PROVE  TypeOK' /\ Exclusive'
<1> USE DEF TypeOK, Exclusive, PCs, JobsAssumption
<1>1. CASE UNCHANGED vars
    BY <1>1 DEF vars, rowVars, workVars, historyVars, clientVars
<1>2. ASSUME NEW j \in Jobs, PerformLater(j)
      PROVE  TypeOK' /\ Exclusive'
    BY <1>2 DEF PerformLater, At, Goto, vars, rowVars, workVars, historyVars, clientVars
<1>3. ASSUME NEW j \in Jobs, LockExpires(j)
      PROVE  TypeOK' /\ Exclusive'
    BY <1>3 DEF LockExpires, At, Goto, vars, rowVars, workVars, historyVars, clientVars
<1>4. ASSUME NEW j \in Jobs, DestroyProgress(j)
      PROVE  TypeOK' /\ Exclusive'
    BY <1>4 DEF DestroyProgress, At, Goto, vars, rowVars, workVars, historyVars, clientVars
<1>5. ASSUME NEW j \in Jobs, Poll(j)
      PROVE  TypeOK' /\ Exclusive'
    BY <1>5 DEF Poll, At, Goto, vars, rowVars, workVars, historyVars, clientVars
<1>6. ASSUME NEW j \in Jobs, Response(j)
      PROVE  TypeOK' /\ Exclusive'
    BY <1>6 DEF Response, ReportsFinished, At, Goto, vars, rowVars, workVars, historyVars, clientVars
<1>7. ASSUME NEW w \in Workers, NEW j \in Jobs, Reserve(w, j)
      PROVE  TypeOK' /\ Exclusive'
    BY <1>7 DEF Reserve, Available, At, Goto, vars, rowVars, workVars, historyVars, clientVars
<1>8. ASSUME NEW w \in Workers, PerformReturns(w)
      PROVE  TypeOK' /\ Exclusive'
    BY <1>8 DEF PerformReturns, At, Goto, vars, rowVars, workVars, historyVars, clientVars
<1>9. ASSUME NEW w \in Workers, PerformRaises(w)
      PROVE  TypeOK' /\ Exclusive'
    BY <1>9 DEF PerformRaises, At, Goto, vars, rowVars, workVars, historyVars, clientVars
<1>10. ASSUME NEW w \in Workers, SuccessHook(w)
      PROVE  TypeOK' /\ Exclusive'
    BY <1>10 DEF SuccessHook, SetFinished, At, Goto, vars, rowVars, workVars, historyVars, clientVars
<1>11. ASSUME NEW w \in Workers, Destroy(w)
      PROVE  TypeOK' /\ Exclusive'
    BY <1>11 DEF Destroy, DestroyRow, Done, At, Goto, vars, rowVars, workVars, historyVars, clientVars
<1>12. ASSUME NEW w \in Workers, Reschedule(w)
      PROVE  TypeOK' /\ Exclusive'
    BY <1>12 DEF Reschedule, Done, At, Goto, vars, rowVars, workVars, historyVars, clientVars
<1>13. ASSUME NEW w \in Workers, FailureHook(w)
      PROVE  TypeOK' /\ Exclusive'
    BY <1>13 DEF FailureHook, SetError, At, Goto, vars, rowVars, workVars, historyVars, clientVars
<1>14. ASSUME NEW w \in Workers, Fail(w)
      PROVE  TypeOK' /\ Exclusive'
    BY <1>14 DEF Fail, Done, At, Goto, vars, rowVars, workVars, historyVars, clientVars
<1>15. ASSUME NEW W \in SUBSET Workers, Crash(W)
      PROVE  TypeOK' /\ Exclusive'
    <2>1. UNCHANGED <<rowVars, progress, starts, performed, clientVars>>
        BY <1>15 DEF Crash
    <2>2. lost' \in [Jobs -> Nat]
        <3>1. \A j \in Jobs : Cardinality({w \in W : working[w] = j}) \in Nat
            BY OneRuns
        <3> QED BY <1>15, <3>1 DEF Crash
    <2>3. /\ working' \in [Workers -> Jobs \union {None}]
          /\ pc' \in [Workers -> PCs]
          /\ \A w \in Workers : pc'[w] = "idle" <=> working'[w] = None
          /\ \A w \in Workers : working'[w] # None => working'[w] = working[w]
        BY <1>15 DEF Crash
    <2> QED BY <2>1, <2>2, <2>3 DEF rowVars, clientVars
<1> QED BY <1>1, <1>2, <1>3, <1>4, <1>5, <1>6, <1>7, <1>8, <1>9, <1>10, <1>11, <1>12, <1>13, <1>14, <1>15 DEF Next, Run

\* A worker in the success hook has performed its job.
LEMMA SuccessStep ==
    ASSUME TypeOK, Exclusive, SuccessHolds, [Next]_vars
    PROVE  SuccessHolds'
<1> USE DEF TypeOK, PCs, SuccessHolds
<1>1. CASE UNCHANGED vars
    BY <1>1 DEF vars, rowVars, workVars, historyVars, clientVars
<1>2. ASSUME NEW j \in Jobs, PerformLater(j)
      PROVE  SuccessHolds'
    BY <1>2 DEF PerformLater, At, Goto, rowVars, workVars, historyVars, clientVars
<1>3. ASSUME NEW j \in Jobs, LockExpires(j)
      PROVE  SuccessHolds'
    BY <1>3 DEF LockExpires, At, Goto, rowVars, workVars, historyVars, clientVars
<1>4. ASSUME NEW j \in Jobs, DestroyProgress(j)
      PROVE  SuccessHolds'
    BY <1>4 DEF DestroyProgress, At, Goto, rowVars, workVars, historyVars, clientVars
<1>5. ASSUME NEW j \in Jobs, Poll(j)
      PROVE  SuccessHolds'
    BY <1>5 DEF Poll, At, Goto, rowVars, workVars, historyVars, clientVars
<1>6. ASSUME NEW j \in Jobs, Response(j)
      PROVE  SuccessHolds'
    BY <1>6 DEF Response, ReportsFinished, At, Goto, rowVars, workVars, historyVars, clientVars
<1>7. ASSUME NEW w \in Workers, NEW j \in Jobs, Reserve(w, j)
      PROVE  SuccessHolds'
    BY <1>7 DEF Reserve, Available, At, Goto, rowVars, workVars, historyVars, clientVars
<1>8. ASSUME NEW w \in Workers, PerformReturns(w)
      PROVE  SuccessHolds'
    BY <1>8 DEF PerformReturns, At, Goto, rowVars, workVars, historyVars, clientVars
<1>9. ASSUME NEW w \in Workers, PerformRaises(w)
      PROVE  SuccessHolds'
    BY <1>9 DEF PerformRaises, At, Goto, rowVars, workVars, historyVars, clientVars
<1>10. ASSUME NEW w \in Workers, SuccessHook(w)
      PROVE  SuccessHolds'
    BY <1>10 DEF SuccessHook, SetFinished, At, Goto, rowVars, workVars, historyVars, clientVars
<1>11. ASSUME NEW w \in Workers, Destroy(w)
      PROVE  SuccessHolds'
    BY <1>11 DEF Destroy, DestroyRow, Done, At, Goto, rowVars, workVars, historyVars, clientVars
<1>12. ASSUME NEW w \in Workers, Reschedule(w)
      PROVE  SuccessHolds'
    BY <1>12 DEF Reschedule, LastAttempt, Done, At, Goto, rowVars, workVars, historyVars, clientVars
<1>13. ASSUME NEW w \in Workers, FailureHook(w)
      PROVE  SuccessHolds'
    BY <1>13 DEF FailureHook, LastAttempt, SetError, At, Goto, rowVars, workVars, historyVars, clientVars
<1>14. ASSUME NEW w \in Workers, Fail(w)
      PROVE  SuccessHolds'
    BY <1>14 DEF Fail, LastAttempt, Done, At, Goto, rowVars, workVars, historyVars, clientVars
<1>15. ASSUME NEW W \in SUBSET Workers, Crash(W)
      PROVE  SuccessHolds'
    BY <1>15 DEF Crash, At, Goto, rowVars, workVars, historyVars, clientVars
<1> QED BY <1>1, <1>2, <1>3, <1>4, <1>5, <1>6, <1>7, <1>8, <1>9, <1>10, <1>11, <1>12, <1>13, <1>14, <1>15 DEF Next, Run

\* Reserving counts a start; the ways of letting a job go count it again.
LEMMA CountStep ==
    ASSUME JobsAssumption, TypeOK, Exclusive, AllCounted, [Next]_vars
    PROVE  AllCounted'
<1> USE DEF TypeOK, PCs, Exclusive, JobsAssumption, AllCounted, Counted
<1>1. CASE UNCHANGED vars
    BY <1>1 DEF vars, rowVars, workVars, historyVars, clientVars
<1>2. ASSUME NEW j \in Jobs, PerformLater(j)
      PROVE  AllCounted'
    BY <1>2 DEF PerformLater, At, Goto, rowVars, workVars, historyVars, clientVars
<1>3. ASSUME NEW j \in Jobs, LockExpires(j)
      PROVE  AllCounted'
    BY <1>3 DEF LockExpires, At, Goto, rowVars, workVars, historyVars, clientVars
<1>4. ASSUME NEW j \in Jobs, DestroyProgress(j)
      PROVE  AllCounted'
    BY <1>4 DEF DestroyProgress, At, Goto, rowVars, workVars, historyVars, clientVars
<1>5. ASSUME NEW j \in Jobs, Poll(j)
      PROVE  AllCounted'
    BY <1>5 DEF Poll, At, Goto, rowVars, workVars, historyVars, clientVars
<1>6. ASSUME NEW j \in Jobs, Response(j)
      PROVE  AllCounted'
    BY <1>6 DEF Response, ReportsFinished, At, Goto, rowVars, workVars, historyVars, clientVars
<1>7. ASSUME NEW w \in Workers, NEW j \in Jobs, Reserve(w, j)
      PROVE  AllCounted'
    BY <1>7 DEF Reserve, Available, At, Goto, rowVars, workVars, historyVars, clientVars
<1>8. ASSUME NEW w \in Workers, PerformReturns(w)
      PROVE  AllCounted'
    BY <1>8 DEF PerformReturns, At, Goto, rowVars, workVars, historyVars, clientVars
<1>9. ASSUME NEW w \in Workers, PerformRaises(w)
      PROVE  AllCounted'
    BY <1>9 DEF PerformRaises, At, Goto, rowVars, workVars, historyVars, clientVars
<1>10. ASSUME NEW w \in Workers, SuccessHook(w)
      PROVE  AllCounted'
    BY <1>10 DEF SuccessHook, SetFinished, At, Goto, rowVars, workVars, historyVars, clientVars
<1>11. ASSUME NEW w \in Workers, Destroy(w)
      PROVE  AllCounted'
    BY <1>11 DEF Destroy, DestroyRow, Done, At, Goto, rowVars, workVars, historyVars, clientVars
<1>12. ASSUME NEW w \in Workers, Reschedule(w)
      PROVE  AllCounted'
    BY <1>12 DEF Reschedule, LastAttempt, Done, At, Goto, rowVars, workVars, historyVars, clientVars
<1>13. ASSUME NEW w \in Workers, FailureHook(w)
      PROVE  AllCounted'
    BY <1>13 DEF FailureHook, LastAttempt, SetError, At, Goto, rowVars, workVars, historyVars, clientVars
<1>14. ASSUME NEW w \in Workers, Fail(w)
      PROVE  AllCounted'
    BY <1>14 DEF Fail, LastAttempt, Done, At, Goto, rowVars, workVars, historyVars, clientVars
<1>15. ASSUME NEW W \in SUBSET Workers, Crash(W)
      PROVE  AllCounted'
    <2> SUFFICES ASSUME NEW j \in Jobs
                 PROVE  Counted(j)'
        OBVIOUS
    <2>1. UNCHANGED <<attempts, starts, queue>>
        BY <1>15 DEF Crash, rowVars
    <2>2. lost'[j] = lost[j] + Cardinality({w \in W : working[w] = j})
        BY <1>15 DEF Crash
    <2>3. CASE \E w \in W : working[w] = j
        <3>1. lost'[j] = lost[j] + 1
            BY <2>2, <2>3, OneRuns
        <3>2. PICK w \in W : working[w] = j
            BY <2>3
        <3>3. attempts[j] < starts[j] /\ starts[j] <= attempts[j] + lost[j] + 1
            BY <3>2
        <3>4. ~ \E v \in Workers : working'[v] = j
            BY <1>15, <3>2 DEF Crash
        <3> QED BY <2>1, <3>1, <3>3, <3>4
    <2>4. CASE ~ \E w \in W : working[w] = j
        <3>1. lost'[j] = lost[j]
            <4>1. Cardinality({w \in W : working[w] = j}) = 0
                BY <2>4, OneRuns
            <4> QED BY <2>2, <4>1
        <3>2. (\E w \in Workers : working'[w] = j) <=> \E w \in Workers : working[w] = j
            BY <1>15, <2>4 DEF Crash
        <3> QED BY <2>1, <3>1, <3>2
    <2> QED BY <2>3, <2>4
<1> QED BY <1>1, <1>2, <1>3, <1>4, <1>5, <1>6, <1>7, <1>8, <1>9, <1>10, <1>11, <1>12, <1>13, <1>14, <1>15 DEF Next, Run

\* The failure hook comes with the last attempt.
LEMMA ErrorStep ==
    ASSUME JobsAssumption, TypeOK, Exclusive, AllCounted, ErrorHolds, [Next]_vars
    PROVE  ErrorHolds'
<1> USE DEF TypeOK, PCs, JobsAssumption, ErrorHolds
<1>1. CASE UNCHANGED vars
    BY <1>1 DEF vars, rowVars, workVars, historyVars, clientVars
<1>2. ASSUME NEW j \in Jobs, PerformLater(j)
      PROVE  ErrorHolds'
    BY <1>2 DEF PerformLater, At, Goto, rowVars, workVars, historyVars, clientVars
<1>3. ASSUME NEW j \in Jobs, LockExpires(j)
      PROVE  ErrorHolds'
    BY <1>3 DEF LockExpires, At, Goto, rowVars, workVars, historyVars, clientVars
<1>4. ASSUME NEW j \in Jobs, DestroyProgress(j)
      PROVE  ErrorHolds'
    BY <1>4 DEF DestroyProgress, At, Goto, rowVars, workVars, historyVars, clientVars
<1>5. ASSUME NEW j \in Jobs, Poll(j)
      PROVE  ErrorHolds'
    BY <1>5 DEF Poll, At, Goto, rowVars, workVars, historyVars, clientVars
<1>6. ASSUME NEW j \in Jobs, Response(j)
      PROVE  ErrorHolds'
    BY <1>6 DEF Response, ReportsFinished, At, Goto, rowVars, workVars, historyVars, clientVars
<1>7. ASSUME NEW w \in Workers, NEW j \in Jobs, Reserve(w, j)
      PROVE  ErrorHolds'
    BY <1>7 DEF Reserve, Available, At, Goto, rowVars, workVars, historyVars, clientVars
<1>8. ASSUME NEW w \in Workers, PerformReturns(w)
      PROVE  ErrorHolds'
    BY <1>8 DEF PerformReturns, At, Goto, rowVars, workVars, historyVars, clientVars
<1>9. ASSUME NEW w \in Workers, PerformRaises(w)
      PROVE  ErrorHolds'
    BY <1>9 DEF PerformRaises, At, Goto, rowVars, workVars, historyVars, clientVars
<1>10. ASSUME NEW w \in Workers, SuccessHook(w)
      PROVE  ErrorHolds'
    BY <1>10 DEF SuccessHook, SetFinished, At, Goto, rowVars, workVars, historyVars, clientVars
<1>11. ASSUME NEW w \in Workers, Destroy(w)
      PROVE  ErrorHolds'
    BY <1>11 DEF Destroy, DestroyRow, Done, At, Goto, rowVars, workVars, historyVars, clientVars
<1>12. ASSUME NEW w \in Workers, Reschedule(w)
      PROVE  ErrorHolds'
    BY <1>12 DEF Reschedule, LastAttempt, Done, At, Goto, rowVars, workVars, historyVars, clientVars
<1>13. ASSUME NEW w \in Workers, FailureHook(w)
      PROVE  ErrorHolds'
    <2>1. working[w] \in Jobs
        BY <1>13 DEF FailureHook, At
    <2>2. attempts[working[w]] < starts[working[w]]
        BY <2>1 DEF AllCounted, Counted
    <2>3. starts[working[w]] >= MaxAttempts[working[w]]
        BY <1>13, <2>1, <2>2 DEF FailureHook, LastAttempt
    <2> QED BY <1>13, <2>1, <2>3 DEF FailureHook, SetError, rowVars, historyVars, clientVars
<1>14. ASSUME NEW w \in Workers, Fail(w)
      PROVE  ErrorHolds'
    BY <1>14 DEF Fail, LastAttempt, Done, At, Goto, rowVars, workVars, historyVars, clientVars
<1>15. ASSUME NEW W \in SUBSET Workers, Crash(W)
      PROVE  ErrorHolds'
    BY <1>15 DEF Crash, At, Goto, rowVars, workVars, historyVars, clientVars
<1> QED BY <1>1, <1>2, <1>3, <1>4, <1>5, <1>6, <1>7, <1>8, <1>9, <1>10, <1>11, <1>12, <1>13, <1>14, <1>15 DEF Next, Run

IInv == TypeOK /\ Exclusive /\ SuccessHolds /\ AllCounted /\ ErrorHolds

LEMMA InitHolds ==
    ASSUME JobsAssumption, Init
    PROVE  IInv
BY DEF JobsAssumption, Init, IInv, TypeOK, PCs, Exclusive, SuccessHolds, AllCounted, Counted,
       ErrorHolds

THEOREM Invariance == Spec => []IInv
<1>1. IInv /\ [Next]_vars => IInv'
    BY JobsAssumption, TypeStep, SuccessStep, CountStep, ErrorStep DEF IInv
<1> QED BY <1>1, InitHolds, JobsAssumption, PTL DEF Spec

LEMMA InvariantTells ==
    ASSUME JobsAssumption, IInv
    PROVE  ToldTheTruth /\ AttemptsBounded
<1>1. ToldTheTruth
    BY DEF IInv, SuccessHolds, ErrorHolds, ToldTheTruth
<1>2. ASSUME NEW j \in Jobs
      PROVE  starts[j] <= MaxAttempts[j] + lost[j]
    <2>1. Counted(j) /\ starts[j] \in Nat /\ attempts[j] \in Nat /\ lost[j] \in Nat
        BY DEF IInv, AllCounted, TypeOK
    <2>2. MaxAttempts[j] \in Nat
        BY DEF JobsAssumption
    <2>3. CASE queue[j] = "failed"
        <3>1. ~ \E w \in Workers : working[w] = j
            BY <2>3 DEF IInv, Exclusive, JobsAssumption
        <3> QED BY <2>1, <2>2, <2>3, <3>1 DEF Counted
    <2>4. CASE queue[j] # "failed"
        BY <2>1, <2>2, <2>4 DEF Counted
    <2> QED BY <2>3, <2>4
<1> QED BY <1>1, <1>2 DEF AttemptsBounded

-----------------------------------------------------------------------------
(***************************************************************************)
(* The program's jobs are jobs: what the starter does to them is a crash.  *)
(***************************************************************************)
LEMMA StarterCrashes ==
    ASSUME Normally \/ Fault
    PROVE  Next
<1>1. Dying \in SUBSET Workers
    BY DEF Dying
<1>2. Crash(Dying)
    BY DEF Normally, Fault
<1> QED BY <1>1, <1>2 DEF Next

\* Every step of the program is a step of Jobs, so that what is promised of
\* Jobs is promised of the jobs of services that are killed and restarted.
THEOREM ProgramRunsJobs == ProgramSpec => Spec
<1>1. ProgramInit => Init
    BY DEF ProgramInit
<1>2. [ProgramNext]_programVars => [Next]_vars
    <2>1. ASSUME NEW j \in Jobs, Requests(j) \/ Polls(j) \/ Responds(j) \/ Expires(j) \/ Cleans(j)
          PROVE  Next
        BY <2>1 DEF Requests, Polls, Responds, Expires, Cleans, Next
    <2>2. ASSUME NEW w \in Workers, Works(w) \/ \E j \in Jobs : Takes(w, j)
          PROVE  Next
        BY <2>2 DEF Works, Takes, Next
    <2>3. Restart \/ Proceeds \/ GoesWrong => Next
        BY StarterCrashes DEF Restart, Proceeds, GoesWrong
    <2>4. ASSUME NEW s \in Services, Exits(s)
          PROVE  Next
        BY <2>4, StarterCrashes DEF Exits
    <2> QED BY <2>1, <2>2, <2>3, <2>4 DEF ProgramNext, programVars
<1> QED BY <1>1, <1>2, PTL DEF ProgramSpec, Spec

\* ToldTheTruth: what a browser is told of a job is what became of it, however
\* workers die and are started again (TrackableJob's hooks, handleProgress).
THEOREM TruthTold == ProgramSpec => []ToldTheTruth
<1>1. IInv => ToldTheTruth
    BY InvariantTells, JobsAssumption
<1> QED BY <1>1, Invariance, ProgramRunsJobs, PTL

\* AttemptsBounded: only what is lost with a worker is started more often than
\* set_max_attempts says.
THEOREM StartsBounded == ProgramSpec => []AttemptsBounded
<1>1. IInv => AttemptsBounded
    BY InvariantTells, JobsAssumption
<1> QED BY <1>1, Invariance, ProgramRunsJobs, PTL

-----------------------------------------------------------------------------
(***************************************************************************)
(* The starter.                                                            *)
(***************************************************************************)
StarterTypes ==
    /\ starter \in {"off", "tasks", "refused", "up"}
    /\ stage \in Nat
    /\ left \in [Tasks -> Nat]
    /\ service \in [Services -> {"down", "up", "dead"}]
    /\ iso \in [Isos -> {"waiting", "fetching", "dead", "failed", "over"}]
    /\ fetched \subseteq Isos

\* The tasks of the stages before the one that runs have no command before them,
\* and none of this start has failed; nor when everything runs.
StagesDone ==
    /\ starter = "tasks" =>
          errors = {} /\ \A n \in DOMAIN Stages : n < stage => \A t \in Stages[n] : left[t] = 0
    /\ starter = "up" => errors = {} /\ \A t \in Tasks : left[t] = 0

\* Services are up only while the starter is.
ServicesFollow == \A s \in Services : service[s] = "up" => starter = "up"

\* What is over is on the disk, unless a download was cut off.
OverIsFetched ==
    ~cut => /\ \A i \in Isos : iso[i] = "over" => i \in fetched
            /\ isosDone => fetched = Isos

StarterInv == StarterTypes /\ StagesDone /\ ServicesFollow /\ OverIsFetched

\* However many more images are fetched, those that are over stay the same.
LEMMA ReplenishKeeps ==
    ASSUME NEW f \in [Isos -> {"waiting", "fetching", "dead", "failed", "over"}],
           NEW g \in Replenished(f)
    PROVE  /\ g \in [Isos -> {"waiting", "fetching", "dead", "failed", "over"}]
           /\ \A i \in Isos : g[i] = "over" => f[i] = "over"
<1>1. PICK new : g = [i \in Isos |-> IF i \in new THEN "fetching" ELSE f[i]]
    BY DEF Replenished
<1> QED BY <1>1

\* The stages are numbered from 1; nothing runs before the first start.
LEMMA StagesAreTasks == DOMAIN Stages = 1 .. Len(Stages) /\ Len(Stages) \in Nat
BY StarterAssumption

LEMMA StarterStarts == StarterInit => StarterInv
BY DEF StarterInit, StarterInv, StarterTypes, StagesDone, ServicesFollow, OverIsFetched

\* A command that is done brings the next stage when it was the last one of its
\* stage, and the services when that was the last stage.
LEMMA CommandKeeps ==
    ASSUME StarterInv, NEW t \in Tasks, Runs(t), CommandDone(t),
           UNCHANGED <<fetched, isosDone, errors>>, ~cut' => ~cut
    PROVE  StarterInv'
<1>1. /\ left' = [left EXCEPT ![t] = @ - 1]
      /\ left[t] \in Nat /\ left[t] > 0
      /\ left' \in [Tasks -> Nat]
      /\ \A u \in Tasks : left[u] = 0 => left'[u] = 0
    BY DEF CommandDone, Runs, StarterInv, StarterTypes
<1>2. CASE UNCHANGED <<starter, stage, service, iso>>
    <2>1. StarterTypes' /\ ServicesFollow' /\ OverIsFetched'
        BY <1>1, <1>2 DEF StarterInv, StarterTypes, ServicesFollow, OverIsFetched
    <2>2. \A n \in DOMAIN Stages : Stages[n] \subseteq Tasks
        BY DEF Tasks
    <2>3. StagesDone'
        BY <1>1, <1>2, <2>2 DEF StarterInv, StagesDone, Runs
    <2> QED BY <2>1, <2>3 DEF StarterInv
<1>3. CASE starter = "tasks" /\ (\A u \in Stages[stage] : left'[u] = 0) /\ EnterStage(stage + 1)
    <2>1. \A n \in DOMAIN Stages : Stages[n] \subseteq Tasks
        BY DEF Tasks
    <2>2. \A n \in DOMAIN Stages : n < stage + 1 => \A u \in Stages[n] : left'[u] = 0
        BY <1>1, <1>3, <2>1, StagesAreTasks DEF StarterInv, StagesDone, StarterTypes
    <2>3. CASE stage + 1 <= Len(Stages)
        BY <1>1, <1>3, <2>2, <2>3
        DEF EnterStage, StarterInv, StarterTypes, StagesDone, ServicesFollow, OverIsFetched
    <2>4. CASE ~(stage + 1 <= Len(Stages))
        <3>1. \A u \in Tasks : left'[u] = 0
            BY <2>2, <2>4, StagesAreTasks DEF Tasks, StarterInv, StarterTypes
        <3>2. RunEverything /\ stage' = stage + 1
            BY <1>3, <2>4 DEF EnterStage
        <3>3. /\ iso' \in [Isos -> {"waiting", "fetching", "dead", "failed", "over"}]
              /\ \A i \in Isos : iso'[i] = "over" => iso[i] = "over"
            BY <3>2, ReplenishKeeps DEF RunEverything, StarterInv, StarterTypes
        <3>4. StarterTypes' /\ StagesDone' /\ ServicesFollow'
            BY <1>1, <1>3, <3>1, <3>2, <3>3
            DEF RunEverything, StarterInv, StarterTypes, StagesDone, ServicesFollow
        <3>5. OverIsFetched'
            BY <3>3 DEF StarterInv, OverIsFetched
        <3> QED BY <3>4, <3>5 DEF StarterInv
    <2> QED BY <2>3, <2>4
<1> QED BY <1>2, <1>3 DEF CommandDone

\* A download that is over is on the disk, or was cut off; one that failed is not
\* over.
LEMMA DownloadKeeps ==
    ASSUME StarterInv, NEW i \in Isos, IsoFetched(i) \/ IsoKilled(i) \/ IsoError(i)
    PROVE  StarterInv'
<1> DEFINE f == [iso EXCEPT ![i] = "over"]
<1>1. f \in [Isos -> {"waiting", "fetching", "dead", "failed", "over"}]
    BY DEF StarterInv, StarterTypes
<1>2. /\ iso' \in [Isos -> {"waiting", "fetching", "dead", "failed", "over"}]
      /\ \A k \in Isos : iso'[k] = "over" => f[k] = "over"
      /\ isosDone' => isosDone \/ \A k \in Isos : f[k] = "over"
    <2>1. CASE IsoError(i)
        BY <2>1 DEF IsoError, Spend, StarterInv, StarterTypes
    <2>2. CASE IsoFetched(i) \/ IsoKilled(i)
        <3>1. Completed(f)
            BY <2>2 DEF IsoFetched, IsoKilled
        <3> HIDE DEF f
        <3> QED BY <1>1, <3>1, ReplenishKeeps DEF Completed
    <2> QED BY <2>1, <2>2
<1>3. /\ UNCHANGED <<startVars, service, errors>>
      /\ fetched' \subseteq Isos
    BY DEF IsoFetched, IsoKilled, IsoError, StarterInv, StarterTypes
<1>4. StarterTypes' /\ StagesDone' /\ ServicesFollow'
    BY <1>2, <1>3 DEF startVars, StarterInv, StarterTypes, StagesDone, ServicesFollow
<1>5. OverIsFetched'
    <2>1. CASE IsoError(i)
        BY <2>1 DEF IsoError, Spend, StarterInv, StarterTypes, OverIsFetched
    <2>2. CASE IsoFetched(i)
        BY <1>2, <1>3, <2>2 DEF IsoFetched, StarterInv, StarterTypes, OverIsFetched
    <2>3. CASE IsoKilled(i)
        BY <2>3 DEF IsoKilled, OverIsFetched
    <2> QED BY <2>1, <2>2, <2>3
<1> QED BY <1>4, <1>5 DEF StarterInv

\* Every step of the starter, its children and its user.
LEMMA StarterKeeps == StarterInv /\ [StarterNext]_starterVars => StarterInv'
<1> SUFFICES ASSUME StarterInv, [StarterNext]_starterVars PROVE StarterInv'
    OBVIOUS
<1>1. CASE Start
    <2>1. Commands \in [Tasks -> Nat]
        BY StarterAssumption
    <2> QED BY <1>1, <2>1, StagesAreTasks
            DEF Start, isoVars, StarterInv, StarterTypes, StagesDone, ServicesFollow,
                OverIsFetched
<1>2. CASE Stop
    BY <1>2 DEF Stop, StarterInv, StarterTypes, StagesDone, ServicesFollow, OverIsFetched
<1>3. ASSUME NEW s \in Services, ServiceDies(s) PROVE StarterInv'
    BY <1>3 DEF ServiceDies, startVars, isoVars, StarterInv, StarterTypes, StagesDone,
       ServicesFollow, OverIsFetched
<1>4. ASSUME NEW s \in Services, ServiceExits(s) PROVE StarterInv'
    BY <1>4 DEF ServiceExits, Kill, startVars, StarterInv, StarterTypes, StagesDone,
       ServicesFollow, OverIsFetched
<1>5. ASSUME NEW t \in Tasks, TaskExits(t) \/ TaskCut(t) PROVE StarterInv'
    BY <1>5, CommandKeeps DEF TaskExits, TaskCut
<1>6. ASSUME NEW t \in Tasks, TaskError(t) PROVE StarterInv'
    BY <1>6 DEF TaskError, TaskFails, Runs, StarterInv, StarterTypes, StagesDone,
       ServicesFollow, OverIsFetched
<1>7. ASSUME NEW i \in Isos, IsoFetched(i) \/ IsoKilled(i) \/ IsoError(i) PROVE StarterInv'
    BY <1>7, DownloadKeeps
<1>8. CASE UNCHANGED starterVars
    BY <1>8 DEF starterVars, startVars, isoVars, StarterInv, StarterTypes, StagesDone,
       ServicesFollow, OverIsFetched
<1> QED
    BY <1>1, <1>2, <1>3, <1>4, <1>5, <1>6, <1>7, <1>8
    DEF StarterNext, StarterProgress, StarterFaults

\* Every step of the program is one of the starter, or leaves it alone.
THEOREM ProgramRunsStarter == ProgramSpec => StarterSpec
<1>1. ProgramInit => StarterInit
    BY DEF ProgramInit
<1>2. [ProgramNext]_programVars => [StarterNext]_starterVars
    <2>1. ASSUME NEW j \in Jobs, Requests(j) \/ Polls(j) \/ Responds(j) \/ Expires(j) \/ Cleans(j)
          PROVE  UNCHANGED starterVars
        BY <2>1 DEF Requests, Polls, Responds, Expires, Cleans, others
    <2>2. ASSUME NEW w \in Workers, Works(w) \/ \E j \in Jobs : Takes(w, j)
          PROVE  UNCHANGED starterVars
        BY <2>2 DEF Works, Takes, others
    <2>3. Restart \/ Proceeds \/ GoesWrong \/ (\E s \in Services : Exits(s)) => StarterNext
        BY DEF Restart, Proceeds, GoesWrong, Exits, StarterNext
    <2> QED BY <2>1, <2>2, <2>3 DEF ProgramNext, programVars, others
<1> QED BY <1>1, <1>2, PTL DEF ProgramSpec, StarterSpec

\* NothingSkipped: the services run only when every command of every stage has
\* been done without an error (serialTasks, async.parallel), and .isos-done is
\* only written over images that were all fetched (downloadIsos), unless a signal
\* ended a child.
THEOREM StarterSkipsNothing == ProgramSpec => []NothingSkipped
<1>1. StarterInv => NothingSkipped
    BY DEF StarterInv, StagesDone, ServicesFollow, OverIsFetched, NothingSkipped
<1> QED BY <1>1, StarterStarts, StarterKeeps, ProgramRunsStarter, PTL DEF StarterSpec

=============================================================================
