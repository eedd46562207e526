------------------------------- MODULE RWLock -------------------------------
(***************************************************************************)
(* ReadWriteLock of backend/vrtManager/rwlock.py, the re-entrant,          *)
(* writer-preferring lock that guards the table of libvirt connections.    *)
(*                                                                         *)
(* Every method holds the condition's mutex from its first line to its     *)
(* return or to its wait(), so that stretch is one action.  A call that    *)
(* cannot be served joins `asleep', the condition's wait set; notifyAll    *)
(* empties it, and a thread that is in a call and not asleep runs the      *)
(* method's while loop once more.                                          *)
(*                                                                         *)
(* A step that raises ValueError (an upgrade that is denied, the release   *)
(* of a lock that is not held) changes nothing and is left out.            *)
(*                                                                         *)
(* An operator whose name ends in _Word is a mutation of the operator      *)
(* without that suffix; no action uses it.  It is there to show that the   *)
(* properties would notice such a mistake.                                 *)
(***************************************************************************)
EXTENDS Naturals, Sequences, SequencesExt

CONSTANTS Threads,   \* the threads that use the lock
          NoThread,  \* the value None of __writer
          MaxDepth,  \* bound: how deep a thread nests its acquisitions
          Timeouts   \* may callers pass a timeout?

ASSUME RWLockAssumption ==
    /\ NoThread \notin Threads
    /\ MaxDepth \in Nat
    /\ Timeouts \in BOOLEAN

VARIABLES writer,             \* the thread holding the write lock, or NoThread
          writercount,        \* nesting depth of the writer
          upgradewritercount, \* read depth of the reader that is upgrading
          pendingwriters,     \* FIFO queue of the writers that are not readers
          readers,            \* nesting depth of each reader (0: not a key)
          call,               \* what each thread is blocked in, or "none"
          timed,              \* the blocked threads that passed a timeout
          asleep              \* the condition's wait set

vars == <<writer, writercount, upgradewritercount, pendingwriters, readers,
          call, timed, asleep>>

locked == <<writer, writercount, upgradewritercount, pendingwriters, readers>>

Readers == {t \in Threads : readers[t] > 0}

WriterWaiting == upgradewritercount > 0 \/ pendingwriters # <<>>

Init ==
    /\ writer = NoThread
    /\ writercount = 0
    /\ upgradewritercount = 0
    /\ pendingwriters = <<>>
    /\ readers = [t \in Threads |-> 0]
    /\ call = [t \in Threads |-> "none"]
    /\ timed = {}
    /\ asleep = {}

(***************************************************************************)
(* Entering, waiting in and leaving a blocking call.                       *)
(***************************************************************************)
Sleep(t, kind) ==
    /\ call' = [call EXCEPT ![t] = kind]
    /\ asleep' = asleep \union {t}

Return(t) ==
    /\ call' = [call EXCEPT ![t] = "none"]
    /\ timed' = timed \ {t}
    /\ asleep' = asleep \ {t}

\* A call starts with or without a timeout; the choice lasts until it returns.
ChooseTimeout(t) ==
    \/ timed' = timed
    \/ Timeouts /\ timed' = timed \union {t}

\* A blocked thread runs its loop again after a notifyAll or a timeout.
Awake(t) == t \notin asleep \/ t \in timed

NotifyAll_Never == UNCHANGED asleep

NotifyAll_One == \/ asleep = {} /\ asleep' = {}
                 \/ \E t \in asleep : asleep' = asleep \ {t}

NotifyAll == asleep' = {}

(***************************************************************************)
(* acquireRead                                                             *)
(***************************************************************************)
CanRead_NoPreference(t) == writer = NoThread

CanRead(t) == writer = NoThread /\ (WriterWaiting => t \in Readers)

GrantRead(t) ==
    /\ CanRead(t)
    /\ readers' = [readers EXCEPT ![t] = @ + 1]
    /\ UNCHANGED <<writer, writercount, upgradewritercount, pendingwriters>>

\* "If we are the writer, grant a new read lock, always."
\* acquireWrite treats a thread that is the writer in the same way.
Nest(t) ==
    /\ writer = t
    /\ writercount < MaxDepth
    /\ writercount' = writercount + 1
    /\ UNCHANGED <<writer, upgradewritercount, pendingwriters, readers,
                   call, timed, asleep>>

AcquireRead(t) ==
    /\ call[t] = "none"
    /\ readers[t] < MaxDepth
    /\ writer # t
    /\ \/ GrantRead(t) /\ UNCHANGED <<call, timed, asleep>>
       \/ /\ ~CanRead(t)
          /\ Sleep(t, "read")
          /\ ChooseTimeout(t)
          /\ UNCHANGED locked

RetryRead(t) ==
    /\ call[t] = "read"
    /\ Awake(t)
    /\ \/ GrantRead(t) /\ Return(t)
       \/ ~CanRead(t) /\ Sleep(t, "read") /\ UNCHANGED <<locked, timed>>

\* RuntimeError "Acquiring read lock timed out"
TimeoutRead(t) ==
    /\ call[t] = "read"
    /\ t \in timed
    /\ ~CanRead(t)
    /\ Return(t)
    /\ UNCHANGED locked

(***************************************************************************)
(* acquireWrite by a thread that holds nothing: the FIFO queue.  `queue'   *)
(* is __pendingwriters with t in it.                                       *)
(***************************************************************************)
Free == Readers = {} /\ writer = NoThread

CanWrite_IgnoresUpgrade(t, queue) == Free /\ Head(queue) = t

CanWrite(t, queue) ==
    /\ Free
    /\ upgradewritercount = 0
    /\ Head(queue) = t

GrantWrite(t, queue) ==
    /\ CanWrite(t, queue)
    /\ writer' = t
    /\ writercount' = 1
    /\ pendingwriters' = Tail(queue)
    /\ UNCHANGED <<upgradewritercount, readers>>

AcquireWrite(t) ==
    LET queue == Append(pendingwriters, t)
    IN  /\ call[t] = "none"
        /\ writer # t
        /\ t \notin Readers
        /\ \/ GrantWrite(t, queue) /\ UNCHANGED <<call, timed, asleep>>
           \/ /\ ~CanWrite(t, queue)
              /\ pendingwriters' = queue
              /\ Sleep(t, "write")
              /\ ChooseTimeout(t)
              /\ UNCHANGED <<writer, writercount, upgradewritercount, readers>>

RetryWrite(t) ==
    /\ call[t] = "write"
    /\ Awake(t)
    /\ \/ GrantWrite(t, pendingwriters) /\ Return(t)
       \/ /\ ~CanWrite(t, pendingwriters)
          /\ Sleep(t, "write")
          /\ UNCHANGED <<locked, timed>>

LeaveQueue_Head(t) == pendingwriters' = Tail(pendingwriters)

LeaveQueue(t) ==
    \E i \in DOMAIN pendingwriters :
        /\ pendingwriters[i] = t
        /\ pendingwriters' = RemoveAt(pendingwriters, i)

\* The writer leaves the queue; nobody is notified.
TimeoutWrite(t) ==
    /\ call[t] = "write"
    /\ t \in timed
    /\ ~CanWrite(t, pendingwriters)
    /\ LeaveQueue(t)
    /\ Return(t)
    /\ UNCHANGED <<writer, writercount, upgradewritercount, readers>>

(***************************************************************************)
(* acquireWrite by a reader: the upgrade.  A second upgrade is denied.     *)
(***************************************************************************)
UpgradeAllowed == upgradewritercount = 0

AcquireUpgrade(t) ==
    /\ call[t] = "none"
    /\ t \in Readers
    /\ readers[t] < MaxDepth
    /\ UpgradeAllowed
    /\ readers' = [readers EXCEPT ![t] = 0]
    /\ \/ /\ Readers = {t}
          /\ writer = NoThread
          /\ writer' = t
          /\ writercount' = readers[t] + 1
          /\ UNCHANGED <<upgradewritercount, pendingwriters, call, timed, asleep>>
       \/ /\ ~(Readers = {t} /\ writer = NoThread)
          /\ upgradewritercount' = readers[t]
          /\ Sleep(t, "upgrade")
          /\ ChooseTimeout(t)
          /\ UNCHANGED <<writer, writercount, pendingwriters>>

RetryUpgrade(t) ==
    /\ call[t] = "upgrade"
    /\ Awake(t)
    /\ \/ /\ Free
          /\ writer' = t
          /\ writercount' = upgradewritercount + 1
          /\ upgradewritercount' = 0
          /\ Return(t)
          /\ UNCHANGED <<pendingwriters, readers>>
       \/ ~Free /\ Sleep(t, "upgrade") /\ UNCHANGED <<locked, timed>>

\* The upgrading thread is a reader again; nobody is notified.
TimeoutUpgrade(t) ==
    /\ call[t] = "upgrade"
    /\ t \in timed
    /\ ~Free
    /\ readers' = [readers EXCEPT ![t] = upgradewritercount]
    /\ upgradewritercount' = 0
    /\ Return(t)
    /\ UNCHANGED <<writer, writercount, pendingwriters>>

(***************************************************************************)
(* release                                                                 *)
(***************************************************************************)
ReleaseWrite(t) ==
    /\ call[t] = "none"
    /\ writer = t
    /\ writercount' = writercount - 1
    /\ IF writercount = 1
         THEN writer' = NoThread /\ NotifyAll
         ELSE UNCHANGED <<writer, asleep>>
    /\ UNCHANGED <<upgradewritercount, pendingwriters, readers, call, timed>>

IsReader(t) == t \in Readers

ReleaseRead(t) ==
    /\ call[t] = "none"
    /\ writer # t
    /\ IsReader(t)
    /\ readers' = [readers EXCEPT ![t] = @ - 1]
    /\ IF Readers = {t} /\ readers[t] = 1 THEN NotifyAll ELSE UNCHANGED asleep
    /\ UNCHANGED <<writer, writercount, upgradewritercount, pendingwriters,
                   call, timed>>

(***************************************************************************)
(* The specification.  A thread whose loop can run does run (the mutex is  *)
(* held briefly), and every holder releases: the callers in connection.py  *)
(* release in a finally block.  A holder may nest again in between, so its *)
(* last release needs strong fairness.                                     *)
(***************************************************************************)
Retry(t) == RetryRead(t) \/ RetryWrite(t) \/ RetryUpgrade(t)

Timeout(t) == TimeoutRead(t) \/ TimeoutWrite(t) \/ TimeoutUpgrade(t)

Acquire(t) == AcquireRead(t) \/ Nest(t) \/ AcquireWrite(t) \/ AcquireUpgrade(t)

Release(t) == ReleaseRead(t) \/ ReleaseWrite(t)

Next == \E t \in Threads : Acquire(t) \/ Retry(t) \/ Timeout(t) \/ Release(t)

Spec == Init /\ [][Next]_vars

LastRelease(t) ==
    \/ readers[t] = 1 /\ ReleaseRead(t)
    \/ writercount = 1 /\ ReleaseWrite(t)

Fairness == \A t \in Threads : /\ WF_vars(Retry(t))
                               /\ WF_vars(Release(t))
                               /\ SF_vars(LastRelease(t))

FairSpec == Spec /\ Fairness

-----------------------------------------------------------------------------
TypeOK ==
    /\ writer \in Threads \union {NoThread}
    /\ writercount \in Nat
    /\ upgradewritercount \in Nat
    /\ pendingwriters \in Seq(Threads)
    /\ readers \in [Threads -> Nat]
    /\ call \in [Threads -> {"none", "read", "write", "upgrade"}]
    /\ timed \subseteq Threads
    /\ asleep \subseteq Threads

Upgrading(t) == call[t] = "upgrade"

\* Mutual exclusion: while a thread holds the write lock nobody else holds a
\* read lock, and a thread that waits for an upgrade still counts as a reader
\* (rwlock.py: "satisfied without giving up the read locks first").
MutualExclusion ==
    writer # NoThread =>
        /\ Readers = {}
        /\ \A t \in Threads : ~Upgrading(t)

\* At most one thread upgrades, and the read depth it gave to the upgrade slot
\* is kept there for as long as it waits (two upgrades would wait for each
\* other forever, and a lost depth would unlock too early).
SingleUpgrade ==
    /\ \A t, u \in Threads : Upgrading(t) /\ Upgrading(u) => t = u
    /\ upgradewritercount > 0 <=> \E t \in Threads : Upgrading(t)

\* The queue holds exactly the blocked writers, each of them once, however
\* grants and timeouts interleave: a leftover entry at its head would block
\* every later writer.
QueueIsBlockedWriters ==
    /\ ToSet(pendingwriters) = {t \in Threads : call[t] = "write"}
    /\ IsInjective(pendingwriters)

\* No lost wake-up, for writers: a writer that sleeps un-notified really has to
\* wait, because some thread holds the lock or goes before it.
WritersSleepForAReason ==
    \A t \in asleep :
        /\ call[t] = "write" => ~CanWrite(t, pendingwriters)
        /\ call[t] = "upgrade" => ~Free

\* No lost wake-up, for readers: a reader that sleeps un-notified could not be
\* granted the lock.  The comment in acquireWrite that a writer's leaving needs
\* no signal ("No need to signal anyone of this change") claims it.
ReadersSleepForAReason ==
    \A t \in asleep : call[t] = "read" => ~CanRead(t)

\* Nothing else makes it false: as long as no writer gives up, no reader misses
\* its wake-up.  (connection.py never passes a timeout.)
OnlyTimeoutsLoseWakeups ==
    [][\/ ~ReadersSleepForAReason
       \/ ReadersSleepForAReason'
       \/ \E t \in Threads : TimeoutWrite(t) \/ TimeoutUpgrade(t)]_vars

\* Writers are preferred: a thread that asked for the write lock without a
\* timeout gets it, whatever the readers do and whoever else gives up, provided
\* that every holder releases.
WriterGranted ==
    \A t \in Threads :
        call[t] \in {"write", "upgrade"} /\ t \notin timed ~> writer = t

\* The abstract lock this class promises to be.  A thread waiting for an
\* upgrade still holds its read locks.
Holding(t) ==
    IF writer = t THEN [mode |-> "write", depth |-> writercount]
    ELSE IF Upgrading(t) THEN [mode |-> "read", depth |-> upgradewritercount]
    ELSE [mode |-> IF readers[t] > 0 THEN "read" ELSE "none",
          depth |-> readers[t]]

Abstract == INSTANCE SharedExclusiveLock
            WITH held <- [t \in Threads |-> Holding(t)]

\* The class implements the abstract shared/exclusive lock.
ImplementsLock == Abstract!Spec
=============================================================================
