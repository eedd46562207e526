-------------------------- MODULE ConnectionsProofs --------------------------
(***************************************************************************)
(* Proofs about the connection manager, for any number of request threads, *)
(* credentials, objects and handles: the threads share one object per      *)
(* credentials, and no call leaves the table lock held.                    *)
(***************************************************************************)
EXTENDS Connections, TLAPS

Read1 == [mode |-> "read", depth |-> 1]
Write1 == [mode |-> "write", depth |-> 1]
Write2 == [mode |-> "write", depth |-> 2]

\* What a thread may hold of the table lock at each point of get_connection.
HoldsAt(p) ==
    CASE p = "search" -> {Read1, Write2}
      [] p \in {"create", "release"} -> {Write1}
      [] p \in {"acquireRead", "open", "register"} -> {Lock!Idle, Write1}
      [] OTHER -> {Lock!Idle}

Types == /\ held \in [Threads -> {Lock!Idle, Read1, Write1, Write2}]
         /\ pc \in [Threads -> PCs]
         /\ objects \in 0..MaxObjects
         /\ table \subseteq 1..objects
         /\ cred \in [Objects -> Credentials \union {None}]
         /\ obj \in [Threads -> Objects \union {None}]
         /\ wanted \in [Threads -> Credentials \union {None}]

LockDiscipline == \A t \in Threads : held[t] \in HoldsAt(pc[t])

\* The write lock excludes everybody else.
Exclusive ==
    \A t, u \in Threads :
        held[t].mode = "write" /\ u # t => held[u] = Lock!Idle

\* The credentials have no object in the table.
Missing(c) == \A o \in table : cred[o] # c

\* The second search still counts when the new object is created and when it
\* is inserted, because the thread has kept the write lock.
SearchCounts ==
    \A t \in Threads :
        /\ pc[t] = "create" => Missing(wanted[t])
        /\ pc[t] \in {"open", "register"} /\ UnderWrite(t) =>
              /\ obj[t] \in 1..objects
              /\ cred[obj[t]] = wanted[t]
              /\ Missing(wanted[t])

Inv == Types /\ LockDiscipline /\ Exclusive /\ SearchCounts /\ UniqueObject

-----------------------------------------------------------------------------
LEMMA LockValues ==
  /\ Lock!Idle # Read1 /\ Lock!Idle # Write1 /\ Lock!Idle # Write2
  /\ Read1 # Write1 /\ Read1 # Write2 /\ Write1 # Write2
  /\ Lock!Idle.mode = "none" /\ Read1.mode = "read"
  /\ Write1.mode = "write" /\ Write2.mode = "write"
  BY DEF Lock!Idle, Read1, Write1, Write2

\* Taking the lock for reading: a first read lock, or one nested in the write
\* lock.
LEMMA LockRead ==
  ASSUME Types, Exclusive, NEW t \in Threads, Lock!Read(t),
         held[t] \in {Lock!Idle, Write1}
  PROVE  \/ /\ held[t] = Lock!Idle
            /\ \A u \in Threads : held[u].mode # "write"
            /\ held' = [held EXCEPT ![t] = Read1]
         \/ /\ held[t] = Write1
            /\ held' = [held EXCEPT ![t] = Write2]
  BY LockValues DEF Lock!Read, Lock!Hold, Lock!Idle, Read1, Write1, Write2, Types

LEMMA LockWrite ==
  ASSUME Types, NEW t \in Threads, Lock!Write(t), held[t] = Lock!Idle
  PROVE  /\ \A u \in Threads : held[u] = Lock!Idle
         /\ held' = [held EXCEPT ![t] = Write1]
  BY DEF Lock!Write, Lock!Hold, Lock!Idle, Read1, Write1, Write2, Types

LEMMA LockRelease ==
  ASSUME Types, NEW t \in Threads, Lock!Release(t)
  PROVE  held' = [held EXCEPT ![t] = IF held[t] = Write2 THEN Write1 ELSE Lock!Idle]
  <1>1. held[t] \in {Read1, Write1, Write2}
    BY DEF Lock!Release, Types, Lock!Idle
  <1>2. CASE held[t] = Write2
    <2>1. held[t].depth = 2 /\ held[t].mode = "write"
      BY <1>2 DEF Write2
    <2> QED
      BY <1>2, <2>1 DEF Lock!Release, Write1
  <1>3. CASE held[t] \in {Read1, Write1}
    <2>1. held[t].depth = 1 /\ held[t] # Write2
      BY <1>3, LockValues DEF Read1, Write1
    <2> QED
      BY <2>1 DEF Lock!Release
  <1> QED
    BY <1>1, <1>2, <1>3

\* Releasing never breaks the exclusion.
LEMMA ReleaseExclusive ==
  ASSUME Types, Exclusive, NEW t \in Threads, Lock!Release(t)
  PROVE  /\ Exclusive'
         /\ held' \in [Threads -> {Lock!Idle, Read1, Write1, Write2}]
  BY LockRelease, LockValues DEF Types, Exclusive

-----------------------------------------------------------------------------
LEMMA InitInv == Init => Inv
  BY ConnectionsAssumption
  DEF Init, Lock!Init, Inv, Types, LockDiscipline, HoldsAt, Exclusive,
      SearchCounts, UniqueObject, PCs, Objects, Missing, Lock!Idle, Objects

\* A step that leaves the table, the objects and the lock alone, and takes its
\* thread to a point where it must hold nothing.
LEMMA QuietStep ==
  ASSUME Inv, NEW t \in Threads, NEW p \in PCs, NEW w \in Credentials \union {None},
         NEW b \in Objects \union {None},
         held[t] = Lock!Idle, Lock!Idle \in HoldsAt(p), p # "create",
         pc' = [pc EXCEPT ![t] = p],
         wanted' = [wanted EXCEPT ![t] = w],
         obj' = [obj EXCEPT ![t] = b],
         UNCHANGED <<held, table, objects, cred>>
  PROVE  Inv'
  <1>1. Types'
    BY DEF Inv, Types
  <1>2. LockDiscipline'
    BY DEF Inv, Types, LockDiscipline
  <1>3. Exclusive' /\ UniqueObject'
    BY DEF Inv, Exclusive, UniqueObject
  <1>4. SearchCounts'
    BY LockValues DEF Inv, Types, SearchCounts, Missing, UnderWrite
  <1> QED
    BY <1>1, <1>2, <1>3, <1>4 DEF Inv

\* The unlocked parts of get_connection.
LEMMA UnlockedStep ==
  ASSUME Inv, NEW t \in Threads,
         \/ \E c \in Credentials : Call(t, c)
         \/ EnterConnect(t) \/ TestNotNone(t) \/ TestAlive(t) \/ Return(t)
  PROVE  Inv'
  <1>1. held[t] = Lock!Idle
    BY DEF Inv, LockDiscipline, HoldsAt, Call, Goto, EnterConnect, TestNotNone,
           TestAlive, Return, Types, PCs
  <1>2. PICK p \in PCs : Lock!Idle \in HoldsAt(p) /\ p # "create"
                         /\ pc' = [pc EXCEPT ![t] = p]
    BY DEF Inv, Types, HoldsAt, PCs, Call, Goto, EnterConnect, TestNotNone,
           TestAlive, Return, Finish, NotConnected
  <1>3. UNCHANGED <<held, table, objects, cred>>
    BY DEF Call, EnterConnect, TestNotNone, TestAlive, Return, lockVars, objectVars
  <1>4. PICK w \in Credentials \union {None}, b \in Objects \union {None} :
             wanted' = [wanted EXCEPT ![t] = w] /\ obj' = [obj EXCEPT ![t] = b]
    <2>1. CASE \E c \in Credentials : Call(t, c)
      BY <2>1 DEF Call
    <2>2. CASE UNCHANGED <<wanted, obj>>
      <3>1. wanted' = [wanted EXCEPT ![t] = wanted[t]] /\ obj' = [obj EXCEPT ![t] = obj[t]]
        BY <2>2 DEF Inv, Types
      <3> QED
        BY <3>1 DEF Inv, Types
    <2> QED
      BY <2>1, <2>2 DEF EnterConnect, TestNotNone, TestAlive, Return, callVars
  <1> QED
    BY <1>1, <1>2, <1>3, <1>4, QuietStep

-----------------------------------------------------------------------------
(* The steps that work on the table lock. *)

LEMMA AcquireReadStep ==
  ASSUME Inv, NEW t \in Threads, AcquireRead(t)
  PROVE  Inv'
  <1>1. held[t] \in {Lock!Idle, Write1} /\ pc[t] = "acquireRead"
    BY DEF Inv, LockDiscipline, HoldsAt, AcquireRead, Goto
  <1>2. pc' = [pc EXCEPT ![t] = "search"]
    BY DEF AcquireRead, Goto
  <1>3. UNCHANGED <<table, objects, cred, obj, wanted>>
    BY DEF AcquireRead, objectVars, callVars
  <1>4. \/ /\ held[t] = Lock!Idle
           /\ \A u \in Threads : held[u].mode # "write"
           /\ held' = [held EXCEPT ![t] = Read1]
        \/ /\ held[t] = Write1
           /\ held' = [held EXCEPT ![t] = Write2]
    BY <1>1, LockRead DEF AcquireRead, Inv
  <1>5. Types'
    BY <1>2, <1>3, <1>4 DEF Inv, Types, PCs
  <1>6. LockDiscipline'
    BY <1>2, <1>4 DEF Inv, Types, LockDiscipline, HoldsAt
  <1>7. Exclusive'
    BY <1>4, LockValues DEF Inv, Types, Exclusive
  <1>8. SearchCounts' /\ UniqueObject'
    <2>1. \A u \in Threads : u # t => held'[u] = held[u] /\ pc'[u] = pc[u]
      BY <1>2, <1>4 DEF Inv, Types
    <2>2. pc'[t] = "search"
      BY <1>2 DEF Inv, Types
    <2> QED
      BY <1>3, <2>1, <2>2 DEF Inv, Types, SearchCounts, UniqueObject, UnderWrite, Missing
  <1> QED
    BY <1>5, <1>6, <1>7, <1>8 DEF Inv

\* The search that finds nothing under the write lock is the one that counts.
LEMMA SearchStep ==
  ASSUME Inv, NEW t \in Threads, Search(t)
  PROVE  Inv'
  <1>1. pc[t] = "search" /\ held[t] \in {Read1, Write2}
    BY DEF Inv, LockDiscipline, HoldsAt, Search
  <1>2. held' = [held EXCEPT ![t] = IF held[t] = Write2 THEN Write1 ELSE Lock!Idle]
    BY LockRelease DEF Search, LeaveSearch, Inv
  <1>3. UNCHANGED <<table, objects, cred, wanted>>
    BY DEF Search, objectVars
  <1>4. \/ /\ Missing(wanted[t])
           /\ pc' = [pc EXCEPT ![t] = IF held[t] = Write2 THEN "create" ELSE "acquireWrite"]
           /\ obj' = obj
        \/ \E o \in table :
              /\ obj' = [obj EXCEPT ![t] = o]
              /\ pc' = [pc EXCEPT ![t] = IF held[t] = Write2 THEN "release"
                                         ELSE "connected?"]
    <2>1. UnderWrite(t) <=> held[t] = Write2
      BY <1>1, LockValues DEF UnderWrite
    <2> QED
      BY <2>1 DEF Search, Found, Matches, Missing
  <1>5. Types'
    <2>1. \A o \in table : o \in Objects
      BY ConnectionsAssumption DEF Inv, Types, Objects
    <2> QED
      BY <1>2, <1>3, <1>4, <2>1 DEF Inv, Types, PCs
  <1>6. LockDiscipline'
    BY <1>1, <1>2, <1>4, LockValues DEF Inv, Types, LockDiscipline, HoldsAt
  <1>7. Exclusive'
    BY ReleaseExclusive DEF Search, LeaveSearch, Inv
  <1>8. SearchCounts'
    <2>1. \A u \in Threads : u # t => /\ held'[u] = held[u]
                                     /\ pc'[u] = pc[u]
                                     /\ obj'[u] = obj[u]
      BY <1>2, <1>4 DEF Inv, Types
    <2>2. pc'[t] = "create" => Missing(wanted[t])
      BY <1>4 DEF Inv, Types
    <2>3. pc'[t] \notin {"open", "register"}
      BY <1>4 DEF Inv, Types
    <2> QED
      BY <1>3, <2>1, <2>2, <2>3 DEF Inv, SearchCounts, UnderWrite, Missing
  <1>9. UniqueObject'
    BY <1>3 DEF Inv, UniqueObject
  <1> QED
    BY <1>5, <1>6, <1>7, <1>8, <1>9 DEF Inv

LEMMA AcquireWriteStep ==
  ASSUME Inv, NEW t \in Threads, AcquireWrite(t)
  PROVE  Inv'
  <1>1. held[t] = Lock!Idle
    BY DEF Inv, LockDiscipline, HoldsAt, AcquireWrite, Goto
  <1>2. pc' = [pc EXCEPT ![t] = "acquireRead"]
    BY DEF AcquireWrite, Goto, AfterWrite
  <1>3. UNCHANGED <<table, objects, cred, obj, wanted>>
    BY DEF AcquireWrite, objectVars, callVars
  <1>4. /\ \A u \in Threads : held[u] = Lock!Idle
        /\ held' = [held EXCEPT ![t] = Write1]
    BY <1>1, LockWrite DEF AcquireWrite, Inv
  <1>5. Types'
    BY <1>2, <1>3, <1>4 DEF Inv, Types, PCs
  <1>6. LockDiscipline'
    BY <1>2, <1>4 DEF Inv, Types, LockDiscipline, HoldsAt
  <1>7. Exclusive'
    BY <1>4, LockValues DEF Inv, Types, Exclusive
  <1>8. SearchCounts' /\ UniqueObject'
    <2>1. \A u \in Threads : u # t => held'[u] = held[u] /\ pc'[u] = pc[u]
      BY <1>2, <1>4 DEF Inv, Types
    <2>2. pc'[t] = "acquireRead"
      BY <1>2 DEF Inv, Types
    <2> QED
      BY <1>3, <2>1, <2>2 DEF Inv, Types, SearchCounts, UniqueObject, UnderWrite, Missing
  <1> QED
    BY <1>5, <1>6, <1>7, <1>8 DEF Inv

\* The write lock is given back, after the insertion or after ValueError.
LEMMA ReleaseStep ==
  ASSUME Inv, NEW t \in Threads, ReleaseWrite(t) \/ CreateFails(t)
  PROVE  Inv'
  <1>1. held[t] = Write1
    BY DEF Inv, LockDiscipline, HoldsAt, ReleaseWrite, CreateFails, Goto
  <1>2. held' = [held EXCEPT ![t] = Lock!Idle]
    <2>1. Lock!Release(t)
      BY DEF ReleaseWrite, CreateFails, Finally
    <2> QED
      BY <1>1, <2>1, LockRelease, LockValues DEF Inv
  <1>3. UNCHANGED <<table, objects, cred, obj, wanted>>
    BY DEF ReleaseWrite, CreateFails, objectVars, callVars
  <1>4. PICK p \in {"connected2?", "idle"} : pc' = [pc EXCEPT ![t] = p]
    BY DEF ReleaseWrite, CreateFails, Goto, Finish
  <1>5. Types'
    BY <1>2, <1>3, <1>4 DEF Inv, Types, PCs
  <1>6. LockDiscipline'
    BY <1>2, <1>4 DEF Inv, Types, LockDiscipline, HoldsAt
  <1>7. Exclusive'
    BY <1>2, LockValues DEF Inv, Types, Exclusive
  <1>8. SearchCounts' /\ UniqueObject'
    <2>1. \A u \in Threads : u # t => held'[u] = held[u] /\ pc'[u] = pc[u]
      BY <1>2, <1>4 DEF Inv, Types
    <2>2. pc'[t] \in {"connected2?", "idle"}
      BY <1>4 DEF Inv, Types
    <2> QED
      BY <1>3, <2>1, <2>2 DEF Inv, Types, SearchCounts, UniqueObject, UnderWrite, Missing
  <1> QED
    BY <1>5, <1>6, <1>7, <1>8 DEF Inv

-----------------------------------------------------------------------------
(* The steps of connect() and of the hypervisor. *)

LEMMA CreateStep ==
  ASSUME Inv, NEW t \in Threads, Create(t)
  PROVE  Inv'
  <1> DEFINE o == objects + 1
  <1>1. /\ held[t] = Write1 /\ pc[t] = "create" /\ held' = held
        /\ o \in Objects /\ o \notin table
        /\ wanted[t] \in Credentials \union {None}
    BY ConnectionsAssumption
    DEF Inv, Types, LockDiscipline, HoldsAt, Create, Goto, lockVars, Objects
  <1>2. /\ pc' = [pc EXCEPT ![t] = "open"]
        /\ cred' = [cred EXCEPT ![o] = wanted[t]]
        /\ obj' = [obj EXCEPT ![t] = o]
        /\ objects' = o
        /\ UNCHANGED <<table, wanted>>
    BY DEF Create, Goto
  <1>3. \A p \in table : p \in Objects /\ cred'[p] = cred[p]
    BY <1>1, <1>2, ConnectionsAssumption DEF Inv, Types, Objects
  <1>4. Types'
    <2>1. o \in 0..MaxObjects /\ table \subseteq 1..o
      BY <1>1, ConnectionsAssumption DEF Inv, Types, Objects
    <2> QED
      BY <1>1, <1>2, <2>1 DEF Inv, Types, PCs
  <1>5. LockDiscipline' /\ Exclusive'
    BY <1>1, <1>2 DEF Inv, Types, LockDiscipline, HoldsAt, Exclusive
  <1>6. UniqueObject'
    BY <1>2, <1>3 DEF Inv, UniqueObject
  <1>7. Missing(wanted[t])'
    BY <1>1, <1>2, <1>3 DEF Inv, SearchCounts, Missing
  <1>8. SearchCounts'
    <2>1. \A u \in Threads : u # t => /\ held[u] = Lock!Idle
                                     /\ pc'[u] = pc[u]
                                     /\ pc[u] # "create"
                                     /\ ~UnderWrite(u)'
      BY <1>1, <1>2, LockValues
      DEF Inv, Types, Exclusive, LockDiscipline, HoldsAt, UnderWrite
    <2>2. /\ pc'[t] = "open" /\ obj'[t] = o /\ cred'[o] = wanted'[t] /\ o \in 1..objects'
      BY <1>1, <1>2, ConnectionsAssumption DEF Inv, Types, Objects
    <2> QED
      BY <1>7, <2>1, <2>2 DEF SearchCounts, UnderWrite
  <1> QED
    BY <1>4, <1>5, <1>6, <1>8 DEF Inv

\* connect() returns: a new object enters the table, whose only object for its
\* credentials it is; a reconnected one is in the table already.
LEMMA LeaveStep ==
  ASSUME Inv, NEW t \in Threads, pc[t] \in {"open", "register"}, Leave(t)
  PROVE  Inv'
  <1>1. /\ held[t] \in {Lock!Idle, Write1} /\ held' = held
        /\ UNCHANGED <<objects, cred, obj, wanted>>
    BY DEF Inv, Types, LockDiscipline, HoldsAt, Leave, lockVars, callVars
  <1>2. CASE UnderWrite(t)
    <2>1. /\ held[t] = Write1
          /\ pc' = [pc EXCEPT ![t] = "release"]
          /\ table' = table \union {obj[t]}
          /\ obj[t] \in 1..objects
          /\ cred[obj[t]] = wanted[t]
          /\ Missing(wanted[t])
      BY <1>1, <1>2, LockValues DEF Leave, UnderWrite, Inv, SearchCounts
    <2>2. Types' /\ LockDiscipline' /\ Exclusive'
      BY <1>1, <2>1 DEF Inv, Types, PCs, LockDiscipline, HoldsAt, Exclusive
    <2>3. UniqueObject'
      BY <1>1, <2>1 DEF Inv, UniqueObject, Missing
    <2>4. SearchCounts'
      <3>1. \A u \in Threads : u # t => pc'[u] # "create" /\ ~UnderWrite(u)'
        BY <1>1, <2>1, LockValues
        DEF Inv, Types, Exclusive, LockDiscipline, HoldsAt, UnderWrite
      <3>2. pc'[t] = "release"
        BY <2>1 DEF Inv, Types
      <3> QED
        BY <3>1, <3>2 DEF SearchCounts
    <2> QED
      BY <2>2, <2>3, <2>4 DEF Inv
  <1>3. CASE ~UnderWrite(t)
    <2>1. held[t] = Lock!Idle /\ pc' = [pc EXCEPT ![t] = "connected2?"] /\ table' = table
      BY <1>1, <1>3, LockValues DEF Leave, UnderWrite
    <2>2. /\ wanted' = [wanted EXCEPT ![t] = wanted[t]]
          /\ obj' = [obj EXCEPT ![t] = obj[t]]
          /\ wanted[t] \in Credentials \union {None}
          /\ obj[t] \in Objects \union {None}
      BY <1>1 DEF Inv, Types
    <2>3. "connected2?" \in PCs /\ Lock!Idle \in HoldsAt("connected2?")
      BY DEF PCs, HoldsAt
    <2> QED
      BY <1>1, <2>1, <2>2, <2>3, QuietStep
  <1> QED
    BY <1>2, <1>3

LEMMA OpenStep ==
  ASSUME Inv, NEW t \in Threads, Open(t)
  PROVE  Inv'
  <1>1. /\ pc[t] = "open" /\ pc' = [pc EXCEPT ![t] = "register"]
        /\ UNCHANGED <<held, table, objects, cred, obj, wanted>>
    BY DEF Open, Goto, lockVars, objectVars, callVars
  <1>2. Types' /\ LockDiscipline' /\ Exclusive' /\ UniqueObject'
    BY <1>1 DEF Inv, Types, PCs, LockDiscipline, HoldsAt, Exclusive, UniqueObject
  <1>3. SearchCounts'
    BY <1>1 DEF Inv, Types, SearchCounts, UnderWrite, Missing
  <1> QED
    BY <1>2, <1>3 DEF Inv

\* What the hypervisor and the event loop do, none of which is in the
\* invariant.
LEMMA FrameStep ==
  ASSUME Inv, UNCHANGED <<held, table, objects, cred, obj, wanted, pc>>
  PROVE  Inv'
  BY DEF Inv, Types, LockDiscipline, Exclusive, UniqueObject, SearchCounts,
         UnderWrite, Missing

LEMMA StepInv == Inv /\ [Next]_vars => Inv'
  <1> SUFFICES ASSUME Inv, [Next]_vars
               PROVE  Inv'
    OBVIOUS
  <1>1. ASSUME NEW t \in Threads, NEW c \in Credentials, Call(t, c)
        PROVE  Inv'
    BY <1>1, UnlockedStep
  <1>2. ASSUME NEW t \in Threads, Step(t)
        PROVE  Inv'
    <2>1. CASE OpenFails(t) \/ Register(t)
      BY <2>1, LeaveStep DEF OpenFails, Register
    <2> QED
      BY <1>2, <2>1, AcquireReadStep, SearchStep, AcquireWriteStep, CreateStep,
         ReleaseStep, OpenStep, UnlockedStep DEF Step
  <1>3. CASE (\E h \in Handles : LinkDown(h)) \/ EventLoop \/ UNCHANGED vars
    BY <1>3, FrameStep DEF EventLoop, LinkDown, CloseCallback, vars, lockVars,
                           objectVars, callVars
  <1> QED
    BY <1>1, <1>2, <1>3 DEF Next

LEMMA Invariance == Spec => []Inv
  BY InitInv, StepInv, PTL DEF Spec

-----------------------------------------------------------------------------
\* get_connection's second search under the write lock makes the threads share
\* one connection object per credentials.
THEOREM OneObject == Spec => []UniqueObject
  BY Invariance, PTL DEF Inv

\* The finally clauses of get_connection and _search_connection: a call that
\* has returned or raised holds no lock.
THEOREM LockGivenBack == Spec => []NoLockLeftHeld
  <1>1. Inv => NoLockLeftHeld
    BY DEF Inv, LockDiscipline, HoldsAt, NoLockLeftHeld
  <1> QED
    BY <1>1, Invariance, PTL

-----------------------------------------------------------------------------
\* The thread is inside connect(), with the object's own lock.
Inside(t) == pc[t] \in {"open", "register"}

Chosen == {"connected?", "isAlive?", "connect", "open", "register", "release",
           "connected2?", "isAlive2?", "return"}

LinkTypes ==
    /\ opened \in 0..MaxHandles
    /\ alive \subseteq 1..opened
    /\ handle \in [Objects -> Handles \union {None}]
    /\ \A o \in Objects : handle[o] # None => handle[o] <= opened
    /\ \A o \in Objects : o > objects => handle[o] = None
    /\ stateLock \in [Objects -> Threads \union {None}]

\* A thread that has chosen an object has one that was created.
ChosenExists == \A t \in Threads : pc[t] \in Chosen => obj[t] \in 1..objects

\* One thread at a time is inside an object's connect() ...
OneInside == \A t \in Threads : Inside(t) => stateLock[obj[t]] = t

\* ... and what it found out there, that the link is down, still holds when it
\* opens one.
StillDown == \A t \in Threads : pc[t] = "open" => handle[obj[t]] \notin alive

LinkInv == LinkTypes /\ ChosenExists /\ OneInside /\ StillDown

LEMMA CreatedIsObject ==
  ASSUME Types
  PROVE  1..objects \subseteq Objects
  BY ConnectionsAssumption DEF Types, Objects

LEMMA NoneIsNoHandle ==
  ASSUME LinkTypes
  PROVE  None \notin alive
  <1>1. 1..opened \subseteq 1..MaxHandles
    BY ConnectionsAssumption DEF LinkTypes
  <1> QED
    BY <1>1, ConnectionsAssumption DEF LinkTypes

LEMMA InitLink == Init => LinkInv
  BY ConnectionsAssumption
  DEF Init, LinkInv, LinkTypes, ChosenExists, OneInside, StillDown, Inside,
      Chosen, Objects, Handles

\* Steps outside connect(), which leave the links alone.
LEMMA OutsideStep ==
  ASSUME Types, LinkInv, NEW t \in Threads, NEW p, NEW o,
         pc' = [pc EXCEPT ![t] = p], p \notin {"open", "register"},
         obj' = [obj EXCEPT ![t] = o], p \in Chosen => o \in 1..objects,
         UNCHANGED <<objects, handle, stateLock, opened, alive>>
  PROVE  LinkInv'
  <1>1. LinkTypes'
    BY DEF LinkInv, LinkTypes
  <1>2. ChosenExists'
    BY DEF LinkInv, ChosenExists, Types
  <1>3. OneInside' /\ StillDown'
    BY DEF LinkInv, OneInside, StillDown, Inside, Types
  <1> QED
    BY <1>1, <1>2, <1>3 DEF LinkInv

\* The same where the local variable stays as it is.
LEMMA MoveStep ==
  ASSUME Types, LinkInv, NEW t \in Threads, NEW p,
         pc' = [pc EXCEPT ![t] = p], p \notin {"open", "register"},
         p \in Chosen => pc[t] \in Chosen,
         UNCHANGED <<obj, objects, handle, stateLock, opened, alive>>
  PROVE  LinkInv'
  <1>1. obj' = [obj EXCEPT ![t] = obj[t]]
    BY DEF Types
  <1>2. p \in Chosen => obj[t] \in 1..objects
    BY DEF LinkInv, ChosenExists
  <1> QED
    BY <1>1, <1>2, OutsideStep

LEMMA SearchLink ==
  ASSUME Types, LinkInv, NEW t \in Threads, Search(t)
  PROVE  LinkInv'
  <1>1. UNCHANGED <<objects, handle, stateLock, opened, alive>>
    BY DEF Search, objectVars, linkVars
  <1>2. CASE Found(wanted[t]) = {} /\ UNCHANGED obj
    <2>1. PICK p \in {"create", "acquireWrite"} : pc' = [pc EXCEPT ![t] = p]
      BY <1>2 DEF Search, Found
    <2> QED
      BY <1>1, <1>2, <2>1, MoveStep DEF Chosen
  <1>3. CASE \E o \in Found(wanted[t]) : obj' = [obj EXCEPT ![t] = o]
    <2>1. PICK o \in table : obj' = [obj EXCEPT ![t] = o]
      BY <1>3 DEF Found
    <2>2. o \in 1..objects
      BY DEF Types
    <2>3. PICK p \in {"release", "connected?", "create", "acquireWrite"} :
             pc' = [pc EXCEPT ![t] = p]
      BY DEF Search
    <2> QED
      BY <1>1, <2>1, <2>2, <2>3, OutsideStep
  <1> QED
    BY <1>2, <1>3 DEF Search

\* The new object has no link yet, and nobody else has chosen it.
LEMMA CreateLink ==
  ASSUME Types, LinkInv, NEW t \in Threads, Create(t)
  PROVE  LinkInv'
  <1> DEFINE o == objects + 1
  <1>1. /\ pc' = [pc EXCEPT ![t] = "open"]
        /\ obj' = [obj EXCEPT ![t] = o]
        /\ objects' = o
        /\ stateLock' = [stateLock EXCEPT ![o] = t]
        /\ UNCHANGED <<handle, opened, alive>>
    BY DEF Create, Goto, linkVars
  <1>2. o \in Objects /\ o \in 1..o /\ 1..objects \subseteq 1..o /\ o \notin 1..objects
    BY ConnectionsAssumption DEF Types, Create, Objects
  <1>3. handle[o] = None
    BY <1>2, ConnectionsAssumption DEF LinkInv, LinkTypes, Types
  <1>4. LinkTypes'
    <2>1. \A q \in Objects : q > o => q > objects
      BY ConnectionsAssumption DEF Types, Objects
    <2> QED
      BY <1>1, <2>1 DEF LinkInv, LinkTypes
  <1> HIDE DEF o
  <1>5. ChosenExists'
    BY <1>1, <1>2 DEF LinkInv, ChosenExists, Types
  <1>6. \A u \in Threads : u # t => pc'[u] = pc[u] /\ obj'[u] = obj[u]
    BY <1>1 DEF Types
  <1>7. \A u \in Threads : u # t /\ Inside(u) => obj[u] \in Objects /\ obj[u] # o
    BY <1>2, CreatedIsObject DEF LinkInv, ChosenExists, Inside, Chosen
  <1>8. pc'[t] = "open" /\ obj'[t] = o /\ stateLock'[o] = t
    BY <1>1, <1>2 DEF Types, LinkInv, LinkTypes
  <1>9. OneInside'
    BY <1>1, <1>6, <1>7, <1>8 DEF LinkInv, LinkTypes, OneInside, Inside
  <1>10. StillDown'
    BY <1>1, <1>3, <1>6, <1>8, NoneIsNoHandle DEF LinkInv, StillDown
  <1> QED
    BY <1>4, <1>5, <1>9, <1>10 DEF LinkInv

\* Inside, the link is found down again, or there is nothing to do.
LEMMA EnterLink ==
  ASSUME Types, LinkInv, NEW t \in Threads, EnterConnect(t)
  PROVE  LinkInv'
  <1> DEFINE o == obj[t]
  <1>1. /\ pc[t] = "connect" /\ stateLock[o] = None
        /\ UNCHANGED <<obj, objects, handle, opened, alive>>
    BY DEF EnterConnect, objectVars, linkVars, callVars
  <1>2. o \in 1..objects /\ o \in Objects
    BY <1>1, CreatedIsObject DEF LinkInv, ChosenExists, Chosen
  <1>3. CASE MustOpen(o)
    <2>1. /\ pc' = [pc EXCEPT ![t] = "open"]
          /\ stateLock' = [stateLock EXCEPT ![o] = t]
      BY <1>3 DEF EnterConnect
    <2>2. handle[o] \notin alive
      BY <1>3, NoneIsNoHandle DEF MustOpen, Connected, LinkInv
    <2>3. LinkTypes'
      BY <1>1, <2>1 DEF LinkInv, LinkTypes
    <2>4. ChosenExists'
      BY <1>1, <1>2, <2>1 DEF LinkInv, ChosenExists, Types
    <2>5. \A u \in Threads : Inside(u) => obj[u] # o
      BY <1>1, ConnectionsAssumption DEF LinkInv, OneInside
    <2>6. OneInside'
      <3>1. ASSUME NEW u \in Threads, Inside(u)'
            PROVE  stateLock'[obj'[u]] = u
        <4>1. CASE u = t
          BY <1>1, <1>2, <2>1, <4>1 DEF LinkInv, LinkTypes
        <4>2. CASE u # t
          <5>1. Inside(u)
            BY <2>1, <3>1, <4>2 DEF Inside, Types
          <5>2. obj[u] \in Objects /\ obj[u] # o
            BY <5>1, <2>5, CreatedIsObject DEF LinkInv, ChosenExists, Chosen, Inside
          <5> QED
            BY <1>1, <2>1, <5>1, <5>2 DEF LinkInv, LinkTypes, OneInside
        <4> QED
          BY <4>1, <4>2
      <3> QED
        BY <3>1 DEF OneInside
    <2>7. StillDown'
      BY <1>1, <2>1, <2>2 DEF LinkInv, StillDown, Types
    <2> QED
      BY <2>3, <2>4, <2>6, <2>7 DEF LinkInv
  <1>4. CASE ~MustOpen(o)
    <2>1. pc' = [pc EXCEPT ![t] = "connected2?"] /\ UNCHANGED stateLock
      BY <1>4 DEF EnterConnect
    <2> QED
      BY <1>1, <2>1, MoveStep DEF Chosen
  <1> QED
    BY <1>3, <1>4

\* The new handle is nobody else's.
LEMMA OpenLink ==
  ASSUME Types, LinkInv, NEW t \in Threads, Open(t)
  PROVE  LinkInv'
  <1> DEFINE o == obj[t]
             h == opened + 1
  <1>1. /\ pc[t] = "open" /\ pc' = [pc EXCEPT ![t] = "register"]
        /\ opened' = h
        /\ alive' = alive \union {h}
        /\ handle' = [handle EXCEPT ![o] = h]
        /\ UNCHANGED <<obj, objects, stateLock>>
    BY DEF Open, Goto, objectVars, callVars
  <1>2. o \in 1..objects /\ o \in Objects
    BY <1>1, CreatedIsObject DEF LinkInv, ChosenExists, Chosen
  <1>3. h \in Handles /\ h \in 0..MaxHandles /\ 1..opened \subseteq 1..h /\ h \in 1..h
    BY ConnectionsAssumption DEF Open, LinkInv, LinkTypes, Handles
  <1>4. \A p \in Objects : handle[p] # h
    BY ConnectionsAssumption DEF LinkInv, LinkTypes, Handles, Open
  <1>5. LinkTypes'
    <2>1. alive' \subseteq 1..h
      BY <1>1, <1>3 DEF LinkInv, LinkTypes
    <2>2. handle' \in [Objects -> Handles \union {None}]
      BY <1>1, <1>3 DEF LinkInv, LinkTypes
    <2>3. \A p \in Objects : handle'[p] # None => handle'[p] <= h
      BY <1>1, <1>3, ConnectionsAssumption DEF LinkInv, LinkTypes, Handles
    <2>4. \A p \in Objects : p > objects => handle'[p] = None
      BY <1>1, <1>2, ConnectionsAssumption DEF LinkInv, LinkTypes, Types, Objects
    <2> QED
      BY <1>1, <1>3, <2>1, <2>2, <2>3, <2>4 DEF LinkInv, LinkTypes
  <1> HIDE DEF h
  <1>6. ChosenExists' /\ OneInside'
    BY <1>1 DEF LinkInv, ChosenExists, OneInside, Inside, Chosen, Types
  <1>7. StillDown'
    <2>1. ASSUME NEW u \in Threads, pc'[u] = "open"
          PROVE  handle'[obj'[u]] \notin alive'
      <3>1. u # t /\ pc[u] = "open"
        BY <1>1, <2>1 DEF Types
      <3>2. obj[u] \in Objects /\ obj[u] # o
        BY <1>1, <3>1, CreatedIsObject
        DEF LinkInv, OneInside, ChosenExists, Inside, Chosen
      <3>3. handle'[obj[u]] = handle[obj[u]]
        BY <1>1, <3>2 DEF LinkInv, LinkTypes
      <3> QED
        BY <1>1, <1>4, <3>1, <3>2, <3>3 DEF LinkInv, StillDown
    <2> QED
      BY <2>1 DEF StillDown
  <1> QED
    BY <1>5, <1>6, <1>7 DEF LinkInv

\* connect() ends, with the handle it has opened or without one.
LEMMA LeaveLink ==
  ASSUME Types, LinkInv, NEW t \in Threads, Inside(t), Leave(t),
         handle' = handle \/ handle' = [handle EXCEPT ![obj[t]] = None],
         UNCHANGED <<opened, alive>>
  PROVE  LinkInv'
  <1> DEFINE o == obj[t]
  <1>1. PICK p \in {"release", "connected2?"} : pc' = [pc EXCEPT ![t] = p]
    BY DEF Leave
  <1>2. stateLock' = [stateLock EXCEPT ![o] = None] /\ UNCHANGED <<objects, obj>>
    BY DEF Leave, callVars
  <1>3. o \in 1..objects /\ o \in Objects
    BY CreatedIsObject DEF LinkInv, ChosenExists, Chosen, Inside
  <1>4. \A q \in Objects : handle'[q] \in {handle[q], None}
    BY DEF LinkInv, LinkTypes
  <1>5. LinkTypes'
    <2>1. handle' \in [Objects -> Handles \union {None}]
      BY DEF LinkInv, LinkTypes
    <2> QED
      BY <1>2, <1>4, <2>1 DEF LinkInv, LinkTypes
  <1>6. ChosenExists'
    BY <1>1, <1>2, <1>3 DEF LinkInv, ChosenExists, Types
  <1>7. \A u \in Threads : Inside(u)' => u # t /\ pc'[u] = pc[u] /\ Inside(u)
    BY <1>1 DEF Inside, Types
  <1>8. \A u \in Threads : Inside(u)' => obj[u] \in Objects /\ obj[u] # o
    BY <1>7, CreatedIsObject DEF LinkInv, OneInside, ChosenExists, Inside, Chosen
  <1>9. OneInside'
    BY <1>2, <1>7, <1>8 DEF LinkInv, LinkTypes, OneInside
  <1>10. StillDown'
    BY <1>2, <1>4, <1>7, <1>8, NoneIsNoHandle DEF LinkInv, StillDown, Inside
  <1> QED
    BY <1>5, <1>6, <1>9, <1>10 DEF LinkInv

\* A link breaks, or a callback forgets one: neither brings one up.
LEMMA BreakLink ==
  ASSUME Types, LinkInv, UNCHANGED <<obj, objects, opened, pc, stateLock>>,
         alive' \subseteq alive,
         handle' = handle \/ \E o \in Objects : handle' = [handle EXCEPT ![o] = None]
  PROVE  LinkInv'
  <1>1. \A q \in Objects : handle'[q] \in {handle[q], None}
    BY DEF LinkInv, LinkTypes
  <1>2. handle' \in [Objects -> Handles \union {None}]
    BY DEF LinkInv, LinkTypes
  <1>3. LinkTypes'
    BY <1>1, <1>2 DEF LinkInv, LinkTypes
  <1>4. ChosenExists' /\ OneInside'
    BY DEF LinkInv, ChosenExists, OneInside, Inside
  <1>5. \A t \in Threads : pc[t] = "open" => obj[t] \in Objects
    BY CreatedIsObject DEF LinkInv, ChosenExists, Chosen
  <1>6. StillDown'
    BY <1>1, <1>5, NoneIsNoHandle DEF LinkInv, StillDown
  <1> QED
    BY <1>3, <1>4, <1>6 DEF LinkInv

LEMMA LinkStep == Types /\ LinkInv /\ [Next]_vars => LinkInv'
  <1> SUFFICES ASSUME Types, LinkInv, [Next]_vars
               PROVE  LinkInv'
    OBVIOUS
  <1>1. ASSUME NEW t \in Threads, NEW c \in Credentials, Call(t, c)
        PROVE  LinkInv'
    <2>1. /\ pc' = [pc EXCEPT ![t] = "acquireRead"]
          /\ obj' = [obj EXCEPT ![t] = None]
          /\ UNCHANGED <<objects, handle, stateLock, opened, alive>>
      BY <1>1 DEF Call, Goto, objectVars, linkVars
    <2>2. "acquireRead" \notin Chosen \union {"open", "register"}
      BY DEF Chosen
    <2> QED
      BY <2>1, <2>2, OutsideStep
  <1>2. ASSUME NEW t \in Threads,
               AcquireRead(t) \/ AcquireWrite(t) \/ CreateFails(t) \/ ReleaseWrite(t)
        PROVE  LinkInv'
    <2>1. UNCHANGED <<obj, objects, handle, stateLock, opened, alive>>
      BY <1>2 DEF AcquireRead, AcquireWrite, CreateFails, ReleaseWrite,
                  objectVars, linkVars, callVars
    <2>2. \/ pc' = [pc EXCEPT ![t] = "search"]
          \/ pc' = [pc EXCEPT ![t] = "acquireRead"]
          \/ pc' = [pc EXCEPT ![t] = "idle"]
          \/ pc[t] = "release" /\ pc' = [pc EXCEPT ![t] = "connected2?"]
      BY <1>2 DEF AcquireRead, AcquireWrite, CreateFails, ReleaseWrite, Goto,
                  Finish, AfterWrite
    <2> QED
      BY <2>1, <2>2, MoveStep DEF Chosen
  <1>3. ASSUME NEW t \in Threads, TestNotNone(t) \/ TestAlive(t) \/ Return(t)
        PROVE  LinkInv'
    <2>1. UNCHANGED <<obj, objects, handle, stateLock, opened, alive>>
      BY <1>3 DEF TestNotNone, TestAlive, Return, objectVars, linkVars
    <2>2. pc[t] \in {"connected?", "isAlive?", "connected2?", "isAlive2?", "return"}
      BY <1>3 DEF TestNotNone, TestAlive, Return
    <2>3. PICK p \in {"connect", "idle", "isAlive?", "isAlive2?", "connected2?", "return"} :
             pc' = [pc EXCEPT ![t] = p]
      BY <1>3 DEF TestNotNone, TestAlive, Return, NotConnected, Finish, Types
    <2> QED
      BY <2>1, <2>2, <2>3, MoveStep DEF Chosen
  <1>4. ASSUME NEW t \in Threads, OpenFails(t) \/ Register(t)
        PROVE  LinkInv'
    <2>1. Inside(t) /\ Leave(t) /\ UNCHANGED <<opened, alive>>
      BY <1>4 DEF OpenFails, Register, Inside, linkVars
    <2>2. handle' = handle \/ handle' = [handle EXCEPT ![obj[t]] = None]
      BY <1>4 DEF OpenFails, Register
    <2> QED
      BY <2>1, <2>2, LeaveLink
  <1>5. ASSUME NEW h \in Handles, LinkDown(h)
        PROVE  LinkInv'
    BY <1>5, BreakLink DEF LinkDown, objectVars, callVars
  <1>6. ASSUME NEW o \in Objects, NEW h \in Handles, CloseCallback(o, h)
        PROVE  LinkInv'
    BY <1>6, BreakLink DEF CloseCallback, objectVars, callVars
  <1>7. CASE UNCHANGED vars
    BY <1>7, BreakLink DEF vars
  <1> QED
    BY <1>1, <1>2, <1>3, <1>4, <1>5, <1>6, <1>7, SearchLink, CreateLink,
       EnterLink, OpenLink DEF Next, Step, EventLoop

\* connect()'s test under connection_state_lock ("recheck if we have a
\* connection"): the threads that find a link down open one link between them.
THEOREM LiveNotReplaced == Spec => ReconnectOnce
  <1>1. Types /\ LinkInv /\ [Next]_vars =>
          [\A o \in Objects : handle[o] \in alive => handle'[o] \in {handle[o], None}]_vars
    <2> SUFFICES ASSUME Types, LinkInv, Next, NEW o \in Objects, handle[o] \in alive
                 PROVE  handle'[o] \in {handle[o], None}
      OBVIOUS
    <2>1. ASSUME NEW t \in Threads, Open(t)
          PROVE  handle'[o] = handle[o]
      <3>1. pc[t] = "open" /\ handle' = [handle EXCEPT ![obj[t]] = opened + 1]
        BY <2>1 DEF Open, Goto
      <3>2. obj[t] # o
        BY <3>1 DEF LinkInv, StillDown
      <3> QED
        BY <3>1, <3>2 DEF LinkInv, LinkTypes
    <2>2. ASSUME NEW t \in Threads, OpenFails(t)
          PROVE  handle'[o] \in {handle[o], None}
      BY <2>2 DEF OpenFails, LinkInv, LinkTypes
    <2>3. ASSUME NEW p \in Objects, NEW h \in Handles, CloseCallback(p, h)
          PROVE  handle'[o] \in {handle[o], None}
      BY <2>3 DEF CloseCallback, LinkInv, LinkTypes
    <2>4. ASSUME NEW t \in Threads, Step(t)
          PROVE  handle'[o] \in {handle[o], None}
      BY <2>1, <2>2, <2>4 DEF Step, AcquireRead, Search, AcquireWrite, Create,
         CreateFails, ReleaseWrite, EnterConnect, Register, TestNotNone, TestAlive, Return
    <2>5. CASE (\E t \in Threads, c \in Credentials : Call(t, c))
               \/ \E h \in Handles : LinkDown(h)
      BY <2>5 DEF Call, LinkDown
    <2> QED
      BY <2>3, <2>4, <2>5 DEF Next, EventLoop
  <1>2. Inv => Types
    BY DEF Inv
  <1> QED
    BY <1>1, <1>2, InitLink, LinkStep, Invariance, PTL DEF Spec, ReconnectOnce
=============================================================================
