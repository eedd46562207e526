----------------------------- MODULE PowerProofs -----------------------------
(***************************************************************************)
(* What a reported success and a reported failure of a power operation     *)
(* tell of its machine, for any number of machines, jobs and events.       *)
(***************************************************************************)
EXTENDS Power, TLAPS

\* What a job's operations have come to: those answered for, and the one whose
\* page has been redirected.
Answered(j) == call[j] + IF redirected[j] THEN 1 ELSE 0

\* A job that runs has carried out what was answered for, unless a machine was
\* deleted; and no more than that, unless it was run or sent more than once.
AtLeast(j) ==
    "deleted" \notin met[j] /\ action[j] # "restart" =>
        /\ Running(j) => carried[j] >= Answered(j)
        /\ pc[j] = "done" => carried[j] >= Calls(j)

AtMost(j) ==
    met[j] \intersect {"crash", "reset"} = {} =>
        /\ pc[j] = "queued" => carried[j] = 0
        /\ Running(j) => carried[j] <= Answered(j)
        /\ pc[j] \in {"done", "failed"} => carried[j] <= Calls(j)
        /\ pc[j] = "failed" /\ "stopped" \notin met[j] => carried[j] < Calls(j)

\* The machines on a list are there while nothing is deleted, and the active
\* ones are active while nothing stops; then the page has no errors.
ListHolds(j) ==
    /\ pc[j] \in {"lookup", "describe"} /\ "deleted" \notin met[j] =>
          \A m \in seen[j] : dom[m] # "gone"
    /\ pc[j] = "lookup" /\ "stopped" \notin met[j] => \A m \in seen[j] : Active(m)
    /\ Running(j) /\ "stopped" \notin met[j] => ~errors[j]

\* What is asked for comes before the page is redirected.
InOrder(j) ==
    /\ pc[j] \in {"found", "operate"} => ~redirected[j]
    /\ pc[j] \in {"queued", "found"} => call[j] = 0

JobInv(j) == (~Twice => AtLeast(j)) /\ AtMost(j) /\ ListHolds(j) /\ InOrder(j)

IInv == TypeOK /\ \A j \in Jobs : JobInv(j)

-----------------------------------------------------------------------------
\* A button stands for one operation or two.
LEMMA OneOrTwo ==
    ASSUME NEW a \in Actions
    PROVE  Len(Operations(a)) \in {1, 2}
BY DEF Actions, Operations

LEMMA CallsTyped ==
    ASSUME TypeOK, NEW j \in Jobs
    PROVE  Calls(j) \in {1, 2}
<1>1. action[j] \in Actions
    BY DEF TypeOK
<1> QED BY <1>1, OneOrTwo DEF Calls

\* Rows that are there twice stay.
LEMMA TwiceStays ==
    ASSUME TypeOK, [Next]_vars, ~Twice'
    PROVE  ~Twice
<1> SUFFICES ASSUME NEW m \in Machines, rows[m] > 1
             PROVE  rows'[m] > 1
    BY DEF Twice
<1>1. CASE UNCHANGED vars
    BY <1>1 DEF vars
<1>2. ASSUME NEW j \in Jobs, Step(j) \/ Crash(j) \/ Reset(j)
      PROVE  rows'[m] > 1
    <2>1. UNCHANGED rows \/ AddRows(j)
        BY <1>2 DEF Step, FindMachine, AddFound, ListActive, LookUp, Describe, AddListed,
                    Operate, Refuse, Ignore, Crash, Reset
    <2> QED BY <2>1 DEF AddRows, TypeOK
<1>3. ASSUME NEW n \in Machines, GuestOff(n) \/ Delete(n)
      PROVE  rows'[m] > 1
    BY <1>3 DEF GuestOff, Delete, TypeOK
<1> QED BY <1>1, <1>2, <1>3 DEF Next

-----------------------------------------------------------------------------
THEOREM InitIInv == Init => IInv
<1> SUFFICES ASSUME Init PROVE IInv
    OBVIOUS
<1>1. TypeOK
    <2>1. ASSUME NEW j \in Jobs PROVE call[j] < Calls(j)
        <3>1. action[j] \in Actions /\ call[j] = 0
            BY DEF Init
        <3>2. Calls(j) \in {1, 2}
            BY <3>1, OneOrTwo DEF Calls
        <3> QED BY <3>1, <3>2
    <2>2. CallsLeft
        BY <2>1 DEF CallsLeft
    <2> QED BY <2>2, EventsAssumption DEF Init, TypeOK, Places, Kinds
<1>2. ASSUME NEW j \in Jobs PROVE JobInv(j)
    BY <1>2 DEF Init, JobInv, AtLeast, AtMost, ListHolds, InOrder, Running
<1> QED BY <1>1, <1>2 DEF IInv

\* A step that leaves a job, its list's machines and their states alone.
LEMMA Untouched ==
    ASSUME TypeOK, TypeOK', NEW k \in Jobs, JobInv(k),
           ~Twice' => ~Twice,
           pc'[k] = pc[k], call'[k] = call[k], action'[k] = action[k],
           redirected'[k] = redirected[k], seen'[k] = seen[k], errors'[k] = errors[k],
           carried'[k] = carried[k],
           met'[k] = met[k], UNCHANGED dom
    PROVE  JobInv(k)'
BY DEF JobInv, AtLeast, AtMost, ListHolds, InOrder, Running, Answered, Calls, Active

-----------------------------------------------------------------------------
(***************************************************************************)
(* The types.                                                              *)
(***************************************************************************)
LEMMA CallsLeftKept ==
    ASSUME TypeOK, [Next]_vars
    PROVE  CallsLeft'
<1> SUFFICES ASSUME NEW k \in Jobs, ~Ended(k)'
             PROVE  (call[k] < Calls(k))'
    BY DEF CallsLeft
<1> USE DEF Goto, Running, Ended, Calls, jobVars, pageVars, requestVars
<1>1. Calls(k) \in {1, 2} /\ call[k] \in 0 .. 2 /\ (~Ended(k) => call[k] < Calls(k))
    BY CallsTyped DEF TypeOK, CallsLeft
<1>2. call \in [Jobs -> 0 .. 2] /\ pc \in [Jobs -> Places]
    BY DEF TypeOK
<1>3. CASE UNCHANGED vars
    BY <1>1, <1>3 DEF vars
<1>4. ASSUME NEW j \in Jobs, FindMachine(j) \/ AddFound(j) \/ ListActive(j) \/ LookUp(j)
      PROVE  (call[k] < Calls(k))'
    BY <1>1, <1>2, <1>4 DEF FindMachine, AddFound, ListActive, LookUp
<1>5. ASSUME NEW j \in Jobs, Describe(j) \/ AddListed(j) \/ Refuse(j) \/ Ignore(j)
      PROVE  (call[k] < Calls(k))'
    BY <1>1, <1>2, <1>5
       DEF Describe, AddListed, Refuse, Ignore, Listed, Succeeded, Failed
<1>6. ASSUME NEW m \in Machines, GuestOff(m) \/ Delete(m)
      PROVE  (call[k] < Calls(k))'
    BY <1>1, <1>6 DEF GuestOff, Delete
<1>7. ASSUME NEW j \in Jobs, pc[j] = "operate" /\ Operate(j)
      PROVE  (call[k] < Calls(k))'
    BY <1>1, <1>2, <1>7 DEF Operate
<1>8. ASSUME NEW j \in Jobs, Crash(j) \/ Reset(j)
      PROVE  (call[k] < Calls(k))'
    BY <1>1, <1>2, <1>8 DEF Crash, Reset
<1> QED BY <1>3, <1>4, <1>5, <1>6, <1>7, <1>8 DEF Next, Step

LEMMA TypesOfRequests ==
    ASSUME TypeOK, CallsLeft', NEW j \in Jobs,
           \/ FindMachine(j) \/ AddFound(j) \/ ListActive(j) \/ LookUp(j)
           \/ Crash(j) \/ Reset(j)
    PROVE  TypeOK'
<1> USE DEF TypeOK, Goto, domVars, jobVars, historyVars
<1>1. CASE FindMachine(j)
    BY <1>1 DEF FindMachine, Places
<1>2. CASE AddFound(j)
    BY <1>2 DEF AddFound, AddRows, Places
<1>3. CASE ListActive(j)
    BY <1>3 DEF ListActive, Places
<1>4. CASE LookUp(j)
    <2> DEFINE off == {m \in Machines : dom[m] = "off"}
    <2>1. seen[j] \union off \in SUBSET Machines
        OBVIOUS
    <2>2. \/ seen' = [seen EXCEPT ![j] = @ \union off] /\ errors' = errors
          \/ seen' = [seen EXCEPT ![j] = {}] /\ errors' = [errors EXCEPT ![j] = TRUE]
        BY <1>4 DEF LookUp
    <2> HIDE DEF off
    <2>3. seen' \in [Jobs -> SUBSET Machines] /\ errors' \in [Jobs -> BOOLEAN]
        BY <2>1, <2>2
    <2> QED BY <1>4, <2>3 DEF LookUp, Places
<1>5. CASE Crash(j)
    BY <1>5, EventsAssumption DEF Crash, Event, pageVars, Kinds, Places
<1>6. CASE Reset(j)
    BY <1>6, EventsAssumption DEF Reset, Event, Kinds, Places
<1> QED BY <1>1, <1>2, <1>3, <1>4, <1>5, <1>6

LEMMA TypesOfAnswers ==
    ASSUME TypeOK, CallsLeft', NEW j \in Jobs,
           Describe(j) \/ AddListed(j) \/ Refuse(j) \/ Ignore(j)
    PROVE  TypeOK'
<1> DEFINE Answers == /\ pc' \in [Jobs -> Places]
                      /\ call' \in [Jobs -> 0 .. 2]
                      /\ redirected' \in [Jobs -> BOOLEAN]
                      /\ errors' \in [Jobs -> BOOLEAN]
                      /\ resent' \in [Jobs -> BOOLEAN]
<1>1. Answers
    <2>1. Calls(j) \in {1, 2} /\ (~Ended(j) => call[j] < Calls(j))
        BY CallsTyped DEF TypeOK, CallsLeft
    <2>2. ~Ended(j)
        BY DEF Describe, AddListed, Refuse, Ignore, Listed, Succeeded, Failed, Goto, Ended
    <2>3. call[j] + 1 \in 0 .. 2
        BY <2>1, <2>2 DEF TypeOK
    <2>4. ASSUME NEW p \in Places, Succeeded(j, p)
          PROVE  Answers
        BY <2>3, <2>4 DEF Succeeded, Goto, TypeOK, Places, Answers
    <2>5. ASSUME NEW p \in Places, NEW q \in Places, Goto(j, p, q),
                 UNCHANGED requestVars
          PROVE  Answers
        BY <2>5 DEF requestVars, Goto, TypeOK, Places, Answers
    <2>6. CASE Describe(j)
        BY <2>4, <2>5, <2>6 DEF Describe, Listed, Failed, Places
    <2>7. CASE AddListed(j)
        BY <2>4, <2>5, <2>7 DEF AddListed, Listed, Failed, Places
    <2>8. CASE Refuse(j) \/ Ignore(j)
        BY <2>4, <2>5, <2>8 DEF Refuse, Ignore, Failed, Places, jobVars, pageVars, requestVars
    <2> QED BY <2>6, <2>7, <2>8
<1>2. missing' \in [Jobs -> SUBSET Machines] /\ rows' \in [Machines -> Nat]
    <2>1. {m \in seen[j] : rows[m] = 0} \in SUBSET Machines
        BY DEF TypeOK
    <2>2. CASE Describe(j)
        BY <2>1, <2>2 DEF Describe, TypeOK
    <2>3. CASE AddListed(j)
        BY <2>3 DEF AddListed, AddRows, TypeOK
    <2>4. CASE Refuse(j) \/ Ignore(j)
        BY <2>4 DEF Refuse, Ignore, pageVars, TypeOK
    <2> QED BY <2>2, <2>3, <2>4
<1>3. UNCHANGED <<domVars, target, action, found, seen, historyVars, events>>
    BY DEF Describe, AddListed, Refuse, Ignore, jobVars, pageVars
<1> QED BY <1>1, <1>2, <1>3 DEF TypeOK, domVars, historyVars

LEMMA TypesOfOperations ==
    ASSUME TypeOK, CallsLeft', NEW j \in Jobs, Operate(j)
    PROVE  TypeOK'
<1>1. dom' \in [Machines -> {"off", "on", "paused", "gone"}] /\ asked' \subseteq Machines
    BY DEF Operate, Carry, TypeOK
<1>2. met' \in [Jobs -> SUBSET Kinds]
    BY DEF Operate, TypeOK, Kinds
<1>3. /\ pc' \in [Jobs -> Places]
      /\ carried' \in [Jobs -> Nat]
      /\ redirected' \in [Jobs -> BOOLEAN]
      /\ errors' \in [Jobs -> BOOLEAN]
      /\ UNCHANGED <<rows, target, action, found, call, seen, missing, resent, events>>
    BY DEF Operate, Goto, Places, TypeOK
<1> QED BY <1>1, <1>2, <1>3 DEF TypeOK

LEMMA TypesOfEvents ==
    ASSUME TypeOK, CallsLeft', NEW m \in Machines, GuestOff(m) \/ Delete(m)
    PROVE  TypeOK'
<1>1. met' \in [Jobs -> SUBSET Kinds]
    BY DEF GuestOff, Delete, Meet, Kinds, TypeOK
<1>2. events' \in 0 .. MaxEvents
    BY EventsAssumption DEF GuestOff, Delete, Event, TypeOK
<1> QED BY <1>1, <1>2 DEF GuestOff, Delete, TypeOK, jobVars, pageVars

LEMMA TypesKept ==
    ASSUME TypeOK, [Next]_vars
    PROVE  TypeOK'
<1>1. CallsLeft'
    BY CallsLeftKept
<1>2. CASE UNCHANGED vars
    BY <1>1, <1>2 DEF TypeOK, vars, domVars, jobVars, pageVars, historyVars
<1>3. ASSUME NEW j \in Jobs, Step(j) \/ Crash(j) \/ Reset(j)
      PROVE  TypeOK'
    BY <1>1, <1>3, TypesOfRequests, TypesOfAnswers, TypesOfOperations DEF Step
<1>4. ASSUME NEW m \in Machines, GuestOff(m) \/ Delete(m)
      PROVE  TypeOK'
    BY <1>1, <1>4, TypesOfEvents
<1> QED BY <1>2, <1>3, <1>4 DEF Next

-----------------------------------------------------------------------------
(***************************************************************************)
(* What is known of a job, and the steps of another.                       *)
(***************************************************************************)
LEMMA OtherSteps ==
    ASSUME TypeOK, TypeOK', ~Twice' => ~Twice,
           NEW j \in Jobs, NEW k \in Jobs, k # j, JobInv(k),
           \/ FindMachine(j) \/ AddFound(j) \/ ListActive(j) \/ LookUp(j)
           \/ Describe(j) \/ AddListed(j) \/ Refuse(j) \/ Ignore(j)
           \/ Crash(j) \/ Reset(j)
    PROVE  JobInv(k)'
<1> USE DEF Goto, domVars, jobVars, historyVars, pageVars, requestVars, TypeOK
<1>4. pc'[k] = pc[k]
    <2>1. \E p, q : Goto(j, p, q)
        BY DEF FindMachine, AddFound, ListActive, LookUp, Describe, AddListed, Refuse, Ignore,
               Listed, Succeeded, Failed, Crash, Reset
    <2> QED BY <2>1
<1>5. met'[k] = met[k]
    BY DEF FindMachine, AddFound, ListActive, LookUp, Describe, AddListed, Refuse, Ignore,
           Crash, Reset
<1>1. pc'[k] = pc[k] /\ seen'[k] = seen[k] /\ met'[k] = met[k]
    <2>1. CASE ListActive(j) \/ LookUp(j)
        BY <2>1, <1>4, <1>5 DEF ListActive, LookUp
    <2>2. CASE ~ListActive(j) /\ ~LookUp(j)
        BY <2>2, <1>4, <1>5 DEF FindMachine, AddFound, Describe, AddListed, Refuse, Ignore,
               Crash, Reset
    <2> QED BY <2>1, <2>2
<1>2. call'[k] = call[k] /\ redirected'[k] = redirected[k] /\ errors'[k] = errors[k]
    BY DEF FindMachine, AddFound, ListActive, LookUp, Describe, AddListed, Refuse, Ignore,
           Listed, Succeeded, Failed, Crash, Reset
<1>3. UNCHANGED <<dom, action, carried>>
    BY DEF FindMachine, AddFound, ListActive, LookUp, Describe, AddListed, Refuse, Ignore,
           Crash, Reset
<1> QED BY <1>1, <1>2, <1>3, Untouched

\* An operation leaves an active machine active unless it stops it, which is met
\* with by all the jobs that run; it makes no machine go away.
LEMMA OtherOperations ==
    ASSUME TypeOK, TypeOK', ~Twice' => ~Twice,
           NEW j \in Jobs, NEW k \in Jobs, k # j, JobInv(k), Operate(j)
    PROVE  JobInv(k)'
<1> DEFINE o == Operations(action[j])[call[j] + 1]
<1>1. /\ pc'[k] = pc[k] /\ seen'[k] = seen[k] /\ call'[k] = call[k]
      /\ redirected'[k] = redirected[k] /\ errors'[k] = errors[k]
      /\ carried'[k] = carried[k] /\ action'[k] = action[k]
    BY DEF Operate, Goto, TypeOK
<1>2. /\ met[k] \subseteq met'[k]
      /\ met'[k] \subseteq met[k] \union {"stopped", "touched"}
      /\ Running(k) /\ o = "destroy" => "stopped" \in met'[k]
      /\ ~Running(k) => met'[k] = met[k]
    BY DEF Operate
<1>3. \A m \in Machines : dom[m] # "gone" => dom'[m] # "gone"
    BY DEF Operate, Carry, TypeOK
<1>4. o # "destroy" => \A m \in Machines : Active(m) => Active(m)'
    <2> SUFFICES ASSUME o # "destroy", NEW m \in Machines, Active(m)
                 PROVE  Active(m)'
        OBVIOUS
    <2>1. dom' = [dom EXCEPT ![target[j]] =
                    CASE o = "start" -> "on"
                      [] o = "destroy" -> "off"
                      [] o = "suspend" -> "paused"
                      [] o = "resume" -> "on"
                      [] OTHER -> @]
        BY DEF Operate, Carry
    <2> HIDE DEF o
    <2> QED BY <2>1 DEF Active, TypeOK
<1>5. seen[k] \subseteq Machines
    BY DEF TypeOK
<1> HIDE DEF o
<1>6. AtLeast(k) => AtLeast(k)'
    BY <1>1, <1>2 DEF AtLeast, Running, Answered, Calls
<1>7. AtMost(k)'
    BY <1>1, <1>2 DEF JobInv, AtMost, Running, Answered, Calls
<1>8. ListHolds(k)'
    BY <1>1, <1>2, <1>3, <1>4, <1>5 DEF JobInv, ListHolds, Running
<1>9. InOrder(k)'
    BY <1>1 DEF JobInv, InOrder
<1> QED BY <1>6, <1>7, <1>8, <1>9 DEF JobInv

LEMMA EventsMet ==
    ASSUME TypeOK, TypeOK', ~Twice' => ~Twice,
           NEW n \in Machines, NEW k \in Jobs, JobInv(k), GuestOff(n) \/ Delete(n)
    PROVE  JobInv(k)'
<1>1. /\ pc'[k] = pc[k] /\ seen'[k] = seen[k] /\ call'[k] = call[k]
      /\ redirected'[k] = redirected[k] /\ errors'[k] = errors[k]
      /\ carried'[k] = carried[k] /\ action'[k] = action[k]
    BY DEF GuestOff, Delete, jobVars, pageVars
<1>2. /\ met[k] \subseteq met'[k]
      /\ met'[k] \subseteq met[k] \union {"stopped", "deleted"}
      /\ Running(k) /\ GuestOff(n) => "stopped" \in met'[k]
      /\ Running(k) /\ Delete(n) => "deleted" \in met'[k]
      /\ ~Running(k) => met'[k] = met[k]
    BY DEF GuestOff, Delete, Meet
<1>3. GuestOff(n) => \A m \in Machines : dom[m] # "gone" => dom'[m] # "gone"
    BY DEF GuestOff, TypeOK
<1>4. Delete(n) => \A m \in Machines : Active(m) => Active(m)'
    BY DEF Delete, Active, TypeOK
<1>5. seen[k] \subseteq Machines
    BY DEF TypeOK
<1>6. AtLeast(k) => AtLeast(k)'
    BY <1>1, <1>2 DEF AtLeast, Running, Answered, Calls
<1>7. AtMost(k)'
    BY <1>1, <1>2 DEF JobInv, AtMost, Running, Answered, Calls
<1>8. ListHolds(k)'
    BY <1>1, <1>2, <1>3, <1>4, <1>5 DEF JobInv, ListHolds, Running
<1>9. InOrder(k)'
    BY <1>1 DEF JobInv, InOrder
<1> QED BY <1>6, <1>7, <1>8, <1>9 DEF JobInv

-----------------------------------------------------------------------------
(***************************************************************************)
(* Its own steps: first how a request is answered.                         *)
(***************************************************************************)
LEMMA Success ==
    ASSUME TypeOK, TypeOK', ~Twice' => ~Twice,
           NEW j \in Jobs, JobInv(j), NEW p, Succeeded(j, p), Running(j),
           UNCHANGED <<action, carried, met>>,
           ~Twice => redirected[j] \/ "deleted" \in met[j] \/ action[j] = "restart"
    PROVE  JobInv(j)'
<1>1. /\ Calls(j) \in {1, 2} /\ call[j] < Calls(j) /\ call[j] \in Nat
      /\ carried[j] \in Nat /\ Calls(j)' = Calls(j)
    BY CallsTyped DEF TypeOK, CallsLeft, Calls, Running, Ended
<1>2. /\ call'[j] = call[j] + 1 /\ redirected'[j] = FALSE /\ errors'[j] = FALSE
      /\ pc'[j] = IF call[j] + 1 < Calls(j) THEN "list" ELSE "done"
    BY DEF Succeeded, Goto, TypeOK, Calls
<1>3. redirected[j] \in BOOLEAN /\ Answered(j)' = call[j] + 1
    BY <1>2 DEF TypeOK, Answered
<1>4. carried'[j] = carried[j] /\ action'[j] = action[j] /\ met'[j] = met[j]
    OBVIOUS
<1>5. ~Twice' => AtLeast(j)'
    BY <1>1, <1>2, <1>3, <1>4 DEF JobInv, AtLeast, Running, Answered
<1>6. AtMost(j)'
    BY <1>1, <1>2, <1>3, <1>4 DEF JobInv, AtMost, Running, Answered
<1>7. ListHolds(j)' /\ InOrder(j)'
    BY <1>2 DEF ListHolds, InOrder
<1> QED BY <1>5, <1>6, <1>7 DEF JobInv

LEMMA Failure ==
    ASSUME TypeOK, TypeOK',
           NEW j \in Jobs, JobInv(j), NEW p, Failed(j, p), Running(j),
           UNCHANGED <<action, call, redirected, carried, met>>,
           "stopped" \notin met[j] => ~redirected[j]
    PROVE  JobInv(j)'
<1>1. /\ Calls(j) \in {1, 2} /\ call[j] < Calls(j) /\ call[j] \in Nat
      /\ carried[j] \in Nat /\ Calls(j)' = Calls(j)
    <2>1. Calls(j) \in {1, 2} /\ Calls(j)' = Calls(j)
        BY CallsTyped DEF Calls
    <2>2. CallsLeft /\ ~Ended(j) /\ call[j] \in Nat /\ carried[j] \in Nat
        BY DEF TypeOK, Running, Ended
    <2> QED BY <2>1, <2>2 DEF CallsLeft
<1>2. pc'[j] = "failed"
    BY DEF Failed, Goto, TypeOK
<1>3. AtLeast(j)' /\ ListHolds(j)' /\ InOrder(j)'
    BY <1>2 DEF AtLeast, ListHolds, InOrder, Running
<1>4. AtMost(j)'
    BY <1>1, <1>2 DEF JobInv, AtMost, Running, Answered
<1> QED BY <1>3, <1>4 DEF JobInv

\* The page goes on, to a place where nothing is known of its list.
LEMMA GoesOn ==
    ASSUME TypeOK, TypeOK', ~Twice' => ~Twice,
           NEW j \in Jobs, JobInv(j), Running(j), NEW p, NEW q \in {"list", "save", "operate"},
           Goto(j, p, q), q = "operate" => ~redirected[j],
           UNCHANGED <<action, call, redirected, errors, carried, met>>
    PROVE  JobInv(j)'
<1>1. pc'[j] = q
    BY DEF Goto, TypeOK
<1> QED BY <1>1 DEF JobInv, AtLeast, AtMost, ListHolds, InOrder, Running, Answered, Calls

LEMMA OnceListed ==
    ASSUME TypeOK, TypeOK', ~Twice' => ~Twice,
           NEW j \in Jobs, JobInv(j), Running(j), NEW p, Listed(j, p),
           UNCHANGED <<action, carried, met>>
    PROVE  JobInv(j)'
<1>1. CASE redirected[j] /\ ~errors[j] /\ Succeeded(j, p)
    BY <1>1, Success
<1>2. CASE redirected[j] /\ errors[j] /\ Failed(j, p) /\ UNCHANGED requestVars
    BY <1>2, Failure DEF requestVars, JobInv, ListHolds
<1>3. CASE ~redirected[j] /\ Goto(j, p, "operate") /\ UNCHANGED requestVars
    BY <1>3, GoesOn DEF requestVars
<1> QED BY <1>1, <1>2, <1>3 DEF Listed

-----------------------------------------------------------------------------
\* Then each step.  A list that cannot be described tells of a machine that was
\* deleted, or of one whose row is there twice.
LEMMA ListSteps ==
    ASSUME TypeOK, TypeOK', ~Twice' => ~Twice, NEW j \in Jobs, JobInv(j),
           ListActive(j) \/ LookUp(j) \/ Describe(j) \/ AddListed(j)
    PROVE  JobInv(j)'
<1>1. CASE ListActive(j)
    <2>1. /\ pc[j] = "list" /\ pc'[j] = "lookup"
          /\ seen'[j] = {m \in Machines : Active(m)}
          /\ UNCHANGED <<dom, action, call, redirected, errors, carried, met>>
        BY <1>1 DEF ListActive, Goto, domVars, jobVars, historyVars, TypeOK
    <2>2. AtLeast(j) => AtLeast(j)'
        BY <2>1 DEF AtLeast, Running, Answered, Calls
    <2>3. AtMost(j)'
        BY <2>1 DEF JobInv, AtMost, Running, Answered, Calls
    <2>4. ListHolds(j)' /\ InOrder(j)'
        BY <2>1 DEF JobInv, ListHolds, InOrder, Running, Active
    <2> QED BY <2>2, <2>3, <2>4 DEF JobInv
<1>2. CASE LookUp(j)
    <2>1. /\ pc[j] = "lookup" /\ pc'[j] = "describe"
          /\ UNCHANGED <<dom, action, call, redirected, carried, met>>
        BY <1>2 DEF LookUp, Goto, domVars, jobVars, historyVars, TypeOK
    <2>2. ListHolds(j)'
        <3>1. CASE \A m \in seen[j] : Active(m)
            <4>1. errors' = errors /\ seen'[j] = seen[j] \union {m \in Machines : dom[m] = "off"}
                BY <1>2, <3>1 DEF LookUp, TypeOK
            <4>2. \A m \in seen'[j] : dom'[m] # "gone"
                BY <2>1, <3>1, <4>1 DEF Active
            <4> QED BY <2>1, <4>1, <4>2 DEF ListHolds, JobInv, Running
        <3>2. CASE ~(\A m \in seen[j] : Active(m))
            <4>1. errors'[j] = TRUE /\ seen'[j] = {}
                BY <1>2, <3>2 DEF LookUp, TypeOK
            <4>2. "stopped" \in met[j]
                BY <2>1, <3>2 DEF JobInv, ListHolds
            <4> QED BY <2>1, <4>1, <4>2 DEF ListHolds
        <3> QED BY <3>1, <3>2
    <2>3. AtLeast(j) => AtLeast(j)'
        BY <2>1 DEF AtLeast, Running, Answered, Calls
    <2>4. AtMost(j)' /\ InOrder(j)'
        BY <2>1 DEF JobInv, AtMost, InOrder, Running, Answered, Calls
    <2> QED BY <2>2, <2>3, <2>4 DEF JobInv
<1>3. CASE Describe(j)
    <2>1. Running(j) /\ UNCHANGED <<action, carried, met, rows>>
        BY <1>3 DEF Describe, Running, historyVars
    <2>2. CASE Indescribable(j) /\ Succeeded(j, "describe")
        <3>1. ~Twice => "deleted" \in met[j]
            BY <1>3, <2>2 DEF Describe, Indescribable, Twice, JobInv, ListHolds, TypeOK
        <3> QED BY <2>1, <2>2, <3>1, Success
    <2>3. CASE Listed(j, "describe")
        BY <2>1, <2>3, OnceListed
    <2>4. CASE Goto(j, "describe", "save") /\ UNCHANGED requestVars
        BY <2>1, <2>4, GoesOn DEF requestVars
    <2> QED BY <1>3, <2>2, <2>3, <2>4 DEF Describe
<1>4. CASE AddListed(j)
    BY <1>4, OnceListed DEF AddListed, Running, historyVars
<1> QED BY <1>1, <1>2, <1>3, <1>4

LEMMA RequestSteps ==
    ASSUME TypeOK, TypeOK', ~Twice' => ~Twice, NEW j \in Jobs, JobInv(j),
           FindMachine(j) \/ AddFound(j) \/ Crash(j) \/ Reset(j)
    PROVE  JobInv(j)'
<1> USE DEF domVars, jobVars, historyVars, pageVars
<1>1. /\ UNCHANGED <<action, carried>>
      /\ carried[j] \in Nat /\ call[j] \in 0 .. 2 /\ redirected[j] \in BOOLEAN
    BY DEF FindMachine, AddFound, Crash, Reset, TypeOK
<1>2. CASE FindMachine(j)
    <2>1. /\ pc[j] = "queued" /\ pc'[j] \in {"found", "list"}
          /\ redirected'[j] = FALSE /\ errors'[j] = FALSE
          /\ call' = call /\ met' = met
        BY <1>2 DEF FindMachine, Goto, TypeOK
    <2>2. call[j] = 0
        BY <2>1 DEF JobInv, InOrder
    <2> QED BY <1>1, <2>1, <2>2 DEF JobInv, AtLeast, AtMost, ListHolds, InOrder, Running, Answered
<1>3. CASE AddFound(j)
    <2>1. /\ pc[j] = "found" /\ pc'[j] = "list"
          /\ UNCHANGED <<call, met, redirected, errors>>
        BY <1>3 DEF AddFound, Goto, TypeOK
    <2> QED BY <1>1, <2>1 DEF JobInv, AtLeast, AtMost, ListHolds, InOrder, Running, Answered
<1>4. CASE Crash(j)
    <2>1. /\ pc'[j] = "queued" /\ call'[j] = 0 /\ met'[j] = met[j] \union {"crash"}
        BY <1>4 DEF Crash, Goto, TypeOK
    <2> QED BY <2>1 DEF JobInv, AtLeast, AtMost, ListHolds, InOrder, Running
<1>5. CASE Reset(j)
    <2>1. /\ Running(j)
          /\ pc'[j] = IF pc[j] = "found" THEN "queued" ELSE "list"
          /\ redirected'[j] = FALSE /\ errors'[j] = FALSE
          /\ call' = call /\ met'[j] = met[j] \union {"reset"}
        BY <1>5 DEF Reset, Goto, TypeOK
    <2> QED BY <1>1, <2>1 DEF JobInv, AtLeast, AtMost, ListHolds, InOrder, Running, Answered
<1> QED BY <1>2, <1>3, <1>4, <1>5

LEMMA OperationSteps ==
    ASSUME TypeOK, TypeOK', ~Twice' => ~Twice, NEW j \in Jobs, JobInv(j),
           pc[j] = "operate", Operate(j) \/ Refuse(j) \/ Ignore(j)
    PROVE  JobInv(j)'
<1>1. Running(j) /\ ~redirected[j] /\ carried[j] \in Nat /\ call[j] \in 0 .. 2
    BY DEF Running, JobInv, InOrder, TypeOK
<1>2. CASE Operate(j)
    <2>1. /\ pc'[j] = "list" /\ redirected'[j] = TRUE /\ errors'[j] = FALSE
          /\ call' = call /\ action' = action /\ met'[j] = met[j]
          /\ carried'[j] = carried[j] + 1
        BY <1>2 DEF Operate, Goto, TypeOK
    <2> QED BY <1>1, <2>1 DEF JobInv, AtLeast, AtMost, ListHolds, InOrder, Running, Answered
<1>3. CASE Refuse(j)
    BY <1>1, <1>3, Failure DEF Refuse, jobVars, pageVars, historyVars
<1>4. CASE Ignore(j)
    <2>1. UNCHANGED <<action, carried, met>>
        BY <1>4 DEF Ignore, historyVars
    <2>2. CASE Failed(j, "operate") /\ UNCHANGED requestVars
        BY <1>1, <2>1, <2>2, Failure DEF requestVars
    <2>3. CASE Succeeded(j, "operate")
        <3>1. action[j] = "restart"
            <4>1. action[j] \in Actions /\ Calls(j) \in {1, 2} /\ ~Ended(j)
                BY CallsTyped DEF TypeOK, Ended
            <4>2. call[j] < Calls(j)
                BY <4>1 DEF TypeOK, CallsLeft
            <4>3. call[j] \in {0, 1} /\ call[j] + 1 <= Calls(j)
                BY <1>1, <4>1, <4>2
            <4>4. Operations(action[j])[call[j] + 1] = "restart"
                BY <1>4 DEF Ignore
            <4> QED BY <4>1, <4>3, <4>4 DEF Operations, Actions, Calls
        <3> QED BY <1>1, <2>1, <2>3, <3>1, Success
    <2> QED BY <1>4, <2>2, <2>3 DEF Ignore
<1> QED BY <1>2, <1>3, <1>4

-----------------------------------------------------------------------------
THEOREM StepIInv == IInv /\ [Next]_vars => IInv'
<1> SUFFICES ASSUME IInv, [Next]_vars
             PROVE  IInv'
    OBVIOUS
<1>1. TypeOK /\ TypeOK' /\ (~Twice' => ~Twice)
    BY TypesKept, TwiceStays DEF IInv
<1> SUFFICES ASSUME NEW k \in Jobs
             PROVE  JobInv(k)'
    BY <1>1 DEF IInv
<1>2. JobInv(k)
    BY DEF IInv
<1>3. CASE UNCHANGED vars
    BY <1>1, <1>2, <1>3, Untouched
       DEF vars, domVars, jobVars, pageVars, historyVars
<1>4. ASSUME NEW j \in Jobs, Step(j) \/ Crash(j) \/ Reset(j), j = k
      PROVE  JobInv(k)'
    BY <1>1, <1>2, <1>4, ListSteps, RequestSteps, OperationSteps DEF Step
<1>5. ASSUME NEW j \in Jobs, Step(j) \/ Crash(j) \/ Reset(j), j # k
      PROVE  JobInv(k)'
    BY <1>1, <1>2, <1>5, OtherSteps, OtherOperations DEF Step
<1>6. ASSUME NEW m \in Machines, GuestOff(m) \/ Delete(m)
      PROVE  JobInv(k)'
    BY <1>1, <1>2, <1>6, EventsMet
<1> QED BY <1>3, <1>4, <1>5, <1>6 DEF Next

\* The types hold in every reachable state.
THEOREM TypeCorrect == Spec => []TypeOK
<1>1. Init => IInv
    BY InitIInv
<1>2. IInv /\ [Next]_vars => IInv'
    BY StepIInv
<1>3. IInv => TypeOK
    BY DEF IInv
<1> QED BY <1>1, <1>2, <1>3, PTL DEF Spec

\* A reported success is a machine operated on, however many machines and jobs
\* there are and whatever happens, except for the deletion of a machine.
THEOREM SuccessTold == Spec => []SuccessIsCarriedOut
<1>1. Init => IInv
    BY InitIInv
<1>2. IInv /\ [Next]_vars => IInv'
    BY StepIInv
<1>3. IInv => SuccessIsCarriedOut
    BY DEF IInv, JobInv, AtLeast, SuccessIsCarriedOut
<1> QED BY <1>1, <1>2, <1>3, PTL DEF Spec

\* A reported failure is a machine that was not, or not altogether.
THEOREM FailureTold == Spec => []FailureIsNotCarriedOut
<1>1. Init => IInv
    BY InitIInv
<1>2. IInv /\ [Next]_vars => IInv'
    BY StepIInv
<1>3. IInv => FailureIsNotCarriedOut
    BY DEF IInv, JobInv, AtMost, FailureIsNotCarriedOut
<1> QED BY <1>1, <1>2, <1>3, PTL DEF Spec

\* One click is one operation.
THEOREM OnceTold == Spec => []AtMostOnce
<1>1. Init => IInv
    BY InitIInv
<1>2. IInv /\ [Next]_vars => IInv'
    BY StepIInv
<1>3. IInv => AtMostOnce
    <2> SUFFICES ASSUME IInv, NEW j \in Jobs, met[j] \intersect {"crash", "reset"} = {}
                 PROVE  carried[j] <= Calls(j)
        BY DEF AtMostOnce
    <2>1. /\ Calls(j) \in {1, 2} /\ carried[j] \in Nat /\ call[j] \in Nat
          /\ ~Ended(j) => call[j] < Calls(j)
        BY CallsTyped DEF IInv, TypeOK, CallsLeft
    <2>2. AtMost(j)
        BY DEF IInv, JobInv
    <2> QED BY <2>1, <2>2 DEF AtMost, Answered, Running, Ended
<1> QED BY <1>1, <1>2, <1>3, PTL DEF Spec

-----------------------------------------------------------------------------
(***************************************************************************)
(* A hard reset: its second operation leaves the machine on, and whoever   *)
(* changes that is met with.                                               *)
(***************************************************************************)
StartedAgain(j) ==
    /\ action[j] = "force_restart"
    /\ Running(j) /\ call[j] = 1 /\ redirected[j]
    /\ met[j] \intersect {"stopped", "touched"} = {}
    => dom[target[j]] = "on"

ResetInv == IInv /\ \A j \in Jobs : StartedAgain(j)

\* The machine of a reset is switched off only by what the job meets with.
LEMMA KeptOn ==
    ASSUME TypeOK, NEW k \in Jobs, Running(k), dom[target[k]] = "on",
           \/ \E j \in Jobs : j # k /\ Operate(j)
           \/ \E m \in Machines : GuestOff(m) \/ Delete(m)
    PROVE  dom'[target[k]] = "on" \/ met'[k] \intersect {"stopped", "touched"} # {}
<1>1. ASSUME NEW j \in Jobs, j # k, Operate(j)
      PROVE  dom'[target[k]] = "on" \/ met'[k] \intersect {"stopped", "touched"} # {}
    <2>1. CASE target[j] = target[k]
        BY <1>1, <2>1 DEF Operate
    <2>2. CASE target[j] # target[k]
        BY <1>1, <2>2 DEF Operate, Carry, TypeOK
    <2> QED BY <2>1, <2>2
<1>2. ASSUME NEW m \in Machines, GuestOff(m)
      PROVE  dom'[target[k]] = "on" \/ met'[k] \intersect {"stopped", "touched"} # {}
    BY <1>2 DEF GuestOff, Meet
<1>3. ASSUME NEW m \in Machines, Delete(m)
      PROVE  dom'[target[k]] = "on"
    BY <1>3 DEF Delete, TypeOK
<1> QED BY <1>1, <1>2, <1>3

\* What else a step can do: a job is redirected by its own operation only, and
\* nothing but an operation or an event changes a machine.
LEMMA RedirectedBefore ==
    ASSUME TypeOK, [Next]_vars, NEW k \in Jobs,
           Running(k)', call'[k] = 1, redirected'[k], ~Operate(k)
    PROVE  /\ Running(k) /\ call[k] = 1 /\ redirected[k]
           /\ target' = target /\ action' = action /\ met[k] \subseteq met'[k]
           /\ \/ dom' = dom
              \/ \E j \in Jobs : j # k /\ Operate(j)
              \/ \E m \in Machines : GuestOff(m) \/ Delete(m)
<1> USE DEF Goto, Running, domVars, jobVars, historyVars, pageVars, requestVars, TypeOK
<1>1. CASE UNCHANGED vars
    BY <1>1 DEF vars
<1>2. ASSUME NEW j \in Jobs,
             FindMachine(j) \/ AddFound(j) \/ ListActive(j) \/ LookUp(j) \/ Refuse(j)
               \/ Crash(j) \/ Reset(j)
      PROVE  /\ Running(k) /\ call[k] = 1 /\ redirected[k] /\ dom' = dom
             /\ target' = target /\ action' = action /\ met[k] \subseteq met'[k]
    BY <1>2 DEF FindMachine, AddFound, ListActive, LookUp, Refuse, Failed, Crash, Reset
<1>3. ASSUME NEW j \in Jobs, Describe(j) \/ AddListed(j) \/ (pc[j] = "operate" /\ Ignore(j))
      PROVE  /\ Running(k) /\ call[k] = 1 /\ redirected[k] /\ dom' = dom
             /\ target' = target /\ action' = action /\ met[k] \subseteq met'[k]
    <2>1. UNCHANGED <<dom, target, action, met>> /\ Running(j)
        BY <1>3 DEF Describe, AddListed, Ignore
    <2>2. \/ \E p : Succeeded(j, p)
          \/ (\E p, q : Goto(j, p, q)) /\ UNCHANGED <<call, redirected>>
        BY <1>3 DEF Describe, AddListed, Ignore, Listed, Failed
    <2> QED BY <2>1, <2>2 DEF Succeeded
<1>4. ASSUME NEW j \in Jobs, Operate(j), pc[j] = "operate", j # k
      PROVE  /\ Running(k) /\ call[k] = 1 /\ redirected[k]
             /\ target' = target /\ action' = action /\ met[k] \subseteq met'[k]
    BY <1>4 DEF Operate
<1>5. ASSUME NEW m \in Machines, GuestOff(m) \/ Delete(m)
      PROVE  /\ Running(k) /\ call[k] = 1 /\ redirected[k]
             /\ target' = target /\ action' = action /\ met[k] \subseteq met'[k]
    BY <1>5 DEF GuestOff, Delete, Meet
<1> QED BY <1>1, <1>2, <1>3, <1>4, <1>5 DEF Next, Step

LEMMA StartedAgainKept ==
    ASSUME ResetInv, [Next]_vars, NEW k \in Jobs
    PROVE  StartedAgain(k)'
<1>1. TypeOK /\ InOrder(k) /\ StartedAgain(k)
    BY DEF ResetInv, IInv, JobInv
<1> SUFFICES ASSUME (/\ action[k] = "force_restart"
                     /\ Running(k) /\ call[k] = 1 /\ redirected[k]
                     /\ met[k] \intersect {"stopped", "touched"} = {})'
             PROVE  dom'[target'[k]] = "on"
    BY DEF StartedAgain
<1>2. CASE Operate(k)
    <2>1. call[k] = 1 /\ action[k] = "force_restart" /\ target' = target
        BY <1>2 DEF Operate
    <2>2. Operations(action[k])[call[k] + 1] = "start"
        BY <2>1 DEF Operations
    <2>3. target[k] \in Machines /\ dom \in [Machines -> {"off", "on", "paused", "gone"}]
        BY <1>1 DEF TypeOK
    <2> QED BY <1>2, <2>1, <2>2, <2>3 DEF Operate, Carry
<1>3. CASE ~Operate(k)
    <2>1. /\ Running(k) /\ call[k] = 1 /\ redirected[k]
          /\ target' = target /\ action' = action /\ met[k] \subseteq met'[k]
          /\ \/ dom' = dom
             \/ \E j \in Jobs : j # k /\ Operate(j)
             \/ \E m \in Machines : GuestOff(m) \/ Delete(m)
        BY <1>1, <1>3, RedirectedBefore
    <2>2. dom[target[k]] = "on"
        BY <1>1, <2>1 DEF StartedAgain
    <2> QED BY <1>1, <2>1, <2>2, KeptOn
<1> QED BY <1>2, <1>3

\* A job comes to its end with an answer: after its last operation was redirected,
\* or with a list that cannot be described.
LEMMA EndsRedirected ==
    ASSUME IInv, ~Twice, Next, NEW k \in Jobs,
           action[k] = "force_restart", pc[k] # "done", pc'[k] = "done",
           "deleted" \notin met[k]
    PROVE  Running(k) /\ call[k] = 1 /\ redirected[k]
<1>1. TypeOK /\ ListHolds(k)
    BY DEF IInv, JobInv
<1>2. Describe(k) \/ AddListed(k) \/ (pc[k] = "operate" /\ Ignore(k))
    <2>1. ASSUME NEW j \in Jobs,
                 FindMachine(j) \/ AddFound(j) \/ ListActive(j) \/ LookUp(j) \/ Operate(j)
                   \/ Refuse(j) \/ Crash(j) \/ Reset(j)
          PROVE  FALSE
        BY <1>1, <2>1 DEF FindMachine, AddFound, ListActive, LookUp, Operate, Refuse, Failed,
                          Crash, Reset, Goto, TypeOK
    <2>2. ASSUME NEW m \in Machines, GuestOff(m) \/ Delete(m)
          PROVE  FALSE
        BY <2>2 DEF GuestOff, Delete
    <2>3. ASSUME NEW j \in Jobs, j # k,
                 Describe(j) \/ AddListed(j) \/ (pc[j] = "operate" /\ Ignore(j))
          PROVE  FALSE
        BY <1>1, <2>3 DEF Describe, AddListed, Ignore, Listed, Succeeded, Failed, Goto, TypeOK
    <2> QED BY <2>1, <2>2, <2>3 DEF Next, Step
<1>3. Running(k) /\ Calls(k) = 2 /\ call[k] \in {0, 1}
    <2>1. Running(k)
        BY <1>2 DEF Describe, AddListed, Running
    <2>2. Calls(k) = 2
        BY DEF Calls, Operations
    <2>3. call[k] < Calls(k) /\ call[k] \in 0 .. 2
        BY <1>1, <2>1 DEF TypeOK, CallsLeft, Ended, Running
    <2> QED BY <2>1, <2>2, <2>3
<1>4. ASSUME NEW p, Succeeded(k, p)
      PROVE  call[k] = 1
    BY <1>1, <1>3, <1>4 DEF Succeeded, Goto, Calls, TypeOK
<1>5. \E p : Succeeded(k, p) /\ redirected[k]
    <2>1. CASE pc[k] = "operate" /\ Ignore(k)
        <3>1. Operations(action[k])[call[k] + 1] = "restart"
            BY <2>1 DEF Ignore
        <3> QED BY <1>3, <3>1 DEF Operations
    <2>2. CASE Describe(k)
        <3>1. ~Indescribable(k)
            BY <1>1, <2>2 DEF Describe, Indescribable, ListHolds, Twice, TypeOK
        <3> QED BY <1>1, <2>2, <3>1 DEF Describe, Listed, Failed, Goto, TypeOK
    <2>3. CASE AddListed(k)
        BY <1>1, <2>3 DEF AddListed, Listed, Failed, Goto, TypeOK
    <2> QED BY <1>2, <2>1, <2>2, <2>3
<1> QED BY <1>3, <1>4, <1>5

\* A successful hard reset leaves its machine on, for any number of machines,
\* jobs and events: what carries out `start' is the last to touch it, or the job
\* has met with what was.
THEOREM HardResetDone == Spec => HardResetEndsOn
<1>1. Init => ResetInv
    <2> SUFFICES ASSUME Init PROVE ResetInv
        OBVIOUS
    <2>1. IInv
        BY InitIInv
    <2> QED BY <2>1 DEF ResetInv, StartedAgain, Init, Running
<1>2. ResetInv /\ [Next]_vars => ResetInv'
    BY StepIInv, StartedAgainKept DEF ResetInv
<1>3. ResetInv /\ [Next]_vars =>
        [ ~Twice => \A j \in Jobs :
            /\ action[j] = "force_restart"
            /\ pc[j] # "done" /\ pc'[j] = "done"
            /\ met[j] \intersect {"deleted", "stopped", "touched"} = {}
            => dom[target[j]] = "on" ]_vars
    <2> SUFFICES ASSUME ResetInv, Next, ~Twice, NEW j \in Jobs,
                        action[j] = "force_restart", pc[j] # "done", pc'[j] = "done",
                        met[j] \intersect {"deleted", "stopped", "touched"} = {}
                 PROVE  dom[target[j]] = "on"
        OBVIOUS
    <2>1. Running(j) /\ call[j] = 1 /\ redirected[j]
        BY EndsRedirected DEF ResetInv
    <2> QED BY <2>1 DEF ResetInv, StartedAgain
<1> QED BY <1>1, <1>2, <1>3, PTL DEF Spec, HardResetEndsOn

=============================================================================
