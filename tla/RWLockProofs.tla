---------------------------- MODULE RWLockProofs ----------------------------
(***************************************************************************)
(* Proofs about ReadWriteLock for any set of threads: the type invariant,  *)
(* mutual exclusion, the single upgrade, the writers' queue, and that the  *)
(* class implements the abstract shared/exclusive lock.                    *)
(***************************************************************************)
EXTENDS RWLock, SequenceTheorems, TLAPS

\* The writer's nesting depth is counted exactly while there is a writer.
WriterDepth == writer # NoThread <=> writercount > 0

\* A blocked thread is not the writer, and it is not among the readers: a
\* reader is always served by acquireRead, an upgrade gives its entry up.
BlockedHoldNothing ==
    \A t \in Threads : call[t] # "none" => writer # t /\ readers[t] = 0

\* Mutual exclusion is inductive together with these.
Inv == /\ TypeOK
       /\ MutualExclusion
       /\ SingleUpgrade
       /\ WriterDepth
       /\ BlockedHoldNothing
       /\ QueueIsBlockedWriters

-----------------------------------------------------------------------------
(* Three facts about queues without duplicates. *)

\* Appending a thread that is not in the queue.
LEMMA AppendQueue ==
  ASSUME NEW S, NEW q \in Seq(S), IsInjective(q), NEW t \in S, t \notin ToSet(q)
  PROVE  /\ Append(q, t) \in Seq(S)
         /\ Append(q, t) # <<>>
         /\ IsInjective(Append(q, t))
         /\ ToSet(Append(q, t)) = ToSet(q) \union {t}
  <1> DEFINE a == Append(q, t)
  <1>1. /\ a \in Seq(S)
        /\ a # <<>>
        /\ Len(a) = Len(q) + 1
        /\ \A i \in 1..Len(q) : a[i] = q[i]
        /\ a[Len(q) + 1] = t
    BY AppendProperties
  <1>2. DOMAIN a = 1..(Len(q) + 1) /\ DOMAIN q = 1..Len(q) /\ Len(q) \in Nat
    BY <1>1, LenProperties
  <1> HIDE DEF a
  <1>3. IsInjective(a)
    BY <1>1, <1>2 DEF IsInjective, ToSet
  <1>4. ToSet(a) = ToSet(q) \union {t}
    BY <1>1, <1>2 DEF ToSet
  <1> QED
    BY <1>1, <1>3, <1>4 DEF a

\* Removing the head of the queue.
LEMMA TailQueue ==
  ASSUME NEW S, NEW q \in Seq(S), IsInjective(q), q # <<>>
  PROVE  /\ Tail(q) \in Seq(S)
         /\ IsInjective(Tail(q))
         /\ ToSet(Tail(q)) = ToSet(q) \ {Head(q)}
  <1> DEFINE r == Tail(q)
  <1>1. /\ r \in Seq(S)
        /\ Len(r) = Len(q) - 1
        /\ \A i \in 1..Len(r) : r[i] = q[i + 1]
    BY HeadTailProperties
  <1>2. /\ DOMAIN r = 1..(Len(q) - 1)
        /\ DOMAIN q = 1..Len(q)
        /\ Len(q) \in Nat \ {0}
    BY <1>1, LenProperties, EmptySeq
  <1>3. Head(q) = q[1]
    OBVIOUS
  <1> HIDE DEF r
  <1>4. IsInjective(r)
    BY <1>1, <1>2 DEF IsInjective
  <1>5. ToSet(r) = ToSet(q) \ {Head(q)}
    <2>1. \A i \in 2..Len(q) : q[i] = r[i - 1] /\ i - 1 \in DOMAIN r
      BY <1>1, <1>2
    <2>2. ToSet(q) \ {Head(q)} \subseteq ToSet(r)
      <3>1. \A i \in DOMAIN q : q[i] # q[1] => i \in 2..Len(q)
        BY <1>2
      <3> QED
        BY <1>3, <2>1, <3>1 DEF ToSet
    <2>3. \A i \in DOMAIN r : i + 1 \in DOMAIN q /\ r[i] = q[i + 1] /\ q[i + 1] # q[1]
      BY <1>1, <1>2 DEF IsInjective
    <2>4. ToSet(r) \subseteq ToSet(q) \ {Head(q)}
      BY <1>3, <2>3 DEF ToSet
    <2> QED
      BY <2>2, <2>4
  <1> QED
    BY <1>1, <1>4, <1>5 DEF r

\* Removing an entry somewhere in the queue.
LEMMA RemoveQueue ==
  ASSUME NEW S, NEW q \in Seq(S), IsInjective(q), NEW i \in DOMAIN q
  PROVE  /\ RemoveAt(q, i) \in Seq(S)
         /\ IsInjective(RemoveAt(q, i))
         /\ ToSet(RemoveAt(q, i)) = ToSet(q) \ {q[i]}
         /\ i # 1 => Head(RemoveAt(q, i)) = Head(q)
  <1> DEFINE left == SubSeq(q, 1, i - 1)
             right == SubSeq(q, i + 1, Len(q))
             r == left \o right
  <1>1. DOMAIN q = 1..Len(q) /\ Len(q) \in Nat /\ i \in 1..Len(q)
    BY LenProperties
  <1>2. /\ left \in Seq(S)
        /\ Len(left) = i - 1
        /\ \A j \in 1..(i - 1) : left[j] = q[j]
    BY <1>1, ElementOfSeq, SubSeqProperties
  <1>3. /\ right \in Seq(S)
        /\ Len(right) = Len(q) - i
        /\ \A j \in 1..(Len(q) - i) : right[j] = q[i + j]
    <2>1. \A j \in (i + 1)..Len(q) : q[j] \in S
      BY <1>1, ElementOfSeq
    <2>2. /\ SubSeq(q, i + 1, Len(q)) \in Seq(S)
          /\ Len(SubSeq(q, i + 1, Len(q))) =
               IF i + 1 <= Len(q) THEN Len(q) - (i + 1) + 1 ELSE 0
          /\ \A j \in 1..(Len(q) - (i + 1) + 1) :
               SubSeq(q, i + 1, Len(q))[j] = q[i + 1 + j - 1]
      BY <1>1, <2>1, SubSeqProperties
    <2> QED
      BY <1>1, <2>2
  <1> HIDE DEF left, right
  <1>4. /\ r \in Seq(S)
        /\ Len(r) = Len(q) - 1
        /\ DOMAIN r = 1..(Len(q) - 1)
        /\ \A j \in 1..(Len(q) - 1) : r[j] = IF j < i THEN q[j] ELSE q[j + 1]
    <2>1. /\ r \in Seq(S)
          /\ Len(r) = Len(left) + Len(right)
          /\ \A j \in 1..(Len(left) + Len(right)) :
               r[j] = IF j <= Len(left) THEN left[j] ELSE right[j - Len(left)]
      BY <1>2, <1>3, ConcatProperties
    <2>2. DOMAIN r = 1..Len(r)
      BY <2>1, LenProperties
    <2> HIDE DEF r
    <2>3. \A j \in 1..(Len(q) - 1) : r[j] = IF j < i THEN q[j] ELSE q[j + 1]
      <3> SUFFICES ASSUME NEW j \in 1..(Len(q) - 1)
                   PROVE  r[j] = IF j < i THEN q[j] ELSE q[j + 1]
        OBVIOUS
      <3>1. CASE j < i
        BY <1>1, <1>2, <1>3, <2>1, <3>1
      <3>2. CASE ~(j < i)
        <4>1. r[j] = right[j - (i - 1)]
          BY <1>1, <1>2, <1>3, <2>1, <3>2
        <4>2. j - (i - 1) \in 1..(Len(q) - i) /\ i + (j - (i - 1)) = j + 1
          BY <1>1, <3>2
        <4>3. right[j - (i - 1)] = q[i + (j - (i - 1))]
          BY <1>3, <4>2
        <4> QED
          BY <3>2, <4>1, <4>2, <4>3
      <3> QED
        BY <3>1, <3>2
    <2> QED
      BY <1>1, <1>2, <1>3, <2>1, <2>2, <2>3
  <1>5. r = RemoveAt(q, i)
    BY DEF RemoveAt, left, right
  <1> HIDE DEF r
  <1>6. IsInjective(r)
    BY <1>1, <1>4 DEF IsInjective
  <1>7. ToSet(r) = ToSet(q) \ {q[i]}
    <2>1. \A j \in 1..Len(q) : j # i =>
             \E k \in DOMAIN r : r[k] = q[j]
      <3> SUFFICES ASSUME NEW j \in 1..Len(q), j # i
                   PROVE  \E k \in DOMAIN r : r[k] = q[j]
        OBVIOUS
      <3>1. CASE j < i
        BY <1>1, <1>4, <3>1
      <3>2. CASE j > i
        <4>1. j - 1 \in DOMAIN r /\ r[j - 1] = q[j]
          BY <1>1, <1>4, <3>2
        <4> QED
          BY <4>1
      <3> QED
        BY <1>1, <3>1, <3>2
    <2>2. \A k \in DOMAIN r : \E j \in 1..Len(q) : j # i /\ r[k] = q[j]
      BY <1>1, <1>4
    <2> QED
      BY <1>1, <2>1, <2>2 DEF ToSet, IsInjective
  <1>8. i # 1 => Head(r) = Head(q)
    BY <1>1, <1>4
  <1> QED
    BY <1>4, <1>5, <1>6, <1>7, <1>8
-----------------------------------------------------------------------------
\* Init establishes the invariant.
LEMMA InitInv == Init => Inv
  BY RWLockAssumption
  DEF Init, Inv, TypeOK, MutualExclusion, SingleUpgrade, WriterDepth,
      BlockedHoldNothing, QueueIsBlockedWriters, Readers, Upgrading, ToSet,
      IsInjective

\* A blocked writer is in the queue, which is therefore not empty.
LEMMA BlockedWriterQueued ==
  ASSUME Inv, NEW t \in Threads
  PROVE  /\ call[t] = "write" <=> t \in ToSet(pendingwriters)
         /\ call[t] = "write" => pendingwriters # <<>>
  BY DEF Inv, QueueIsBlockedWriters, ToSet

\* What the steps of acquireWrite and its timeout do to the queue.
LEMMA AcquireWriteQueue ==
  ASSUME Inv, NEW t \in Threads, AcquireWrite(t)
  PROVE  /\ pendingwriters' \in Seq(Threads)
         /\ IsInjective(pendingwriters')
         /\ ToSet(pendingwriters') = IF call'[t] = "write"
                                     THEN ToSet(pendingwriters) \union {t}
                                     ELSE ToSet(pendingwriters)
  <1> DEFINE q == Append(pendingwriters, t)
  <1>1. t \notin ToSet(pendingwriters)
    BY BlockedWriterQueued DEF AcquireWrite
  <1>2. /\ q \in Seq(Threads)
        /\ q # <<>>
        /\ IsInjective(q)
        /\ ToSet(q) = ToSet(pendingwriters) \union {t}
    BY <1>1, AppendQueue DEF Inv, TypeOK, QueueIsBlockedWriters
  <1> HIDE DEF q
  <1>3. /\ Tail(q) \in Seq(Threads)
        /\ IsInjective(Tail(q))
        /\ ToSet(Tail(q)) = ToSet(q) \ {Head(q)}
    BY <1>2, TailQueue
  <1>4. \/ /\ Head(q) = t
           /\ pendingwriters' = Tail(q)
           /\ call' = call
        \/ /\ pendingwriters' = q
           /\ call' = [call EXCEPT ![t] = "write"]
    BY DEF AcquireWrite, GrantWrite, CanWrite, Sleep, q
  <1>5. call[t] = "none" /\ call \in [Threads -> {"none", "read", "write", "upgrade"}]
    BY DEF AcquireWrite, Inv, TypeOK
  <1> QED
    BY <1>1, <1>2, <1>3, <1>4, <1>5

LEMMA RetryWriteQueue ==
  ASSUME Inv, NEW t \in Threads, RetryWrite(t)
  PROVE  /\ pendingwriters' \in Seq(Threads)
         /\ IsInjective(pendingwriters')
         /\ ToSet(pendingwriters') = IF call'[t] = "write"
                                     THEN ToSet(pendingwriters)
                                     ELSE ToSet(pendingwriters) \ {t}
  <1>1. pendingwriters # <<>> /\ call[t] = "write"
    BY BlockedWriterQueued DEF RetryWrite
  <1>2. /\ Tail(pendingwriters) \in Seq(Threads)
        /\ IsInjective(Tail(pendingwriters))
        /\ ToSet(Tail(pendingwriters)) = ToSet(pendingwriters) \ {Head(pendingwriters)}
    BY <1>1, TailQueue DEF Inv, TypeOK, QueueIsBlockedWriters
  <1> QED
    BY <1>1, <1>2 DEF RetryWrite, GrantWrite, CanWrite, Sleep, Return, locked,
                      Inv, TypeOK, QueueIsBlockedWriters

LEMMA TimeoutWriteQueue ==
  ASSUME Inv, NEW t \in Threads, TimeoutWrite(t)
  PROVE  /\ pendingwriters' \in Seq(Threads)
         /\ IsInjective(pendingwriters')
         /\ ToSet(pendingwriters') = ToSet(pendingwriters) \ {t}
  BY RemoveQueue DEF TimeoutWrite, LeaveQueue, Inv, TypeOK, QueueIsBlockedWriters

-----------------------------------------------------------------------------
\* The steps that leave the queue alone, and do not change who is blocked in
\* acquireWrite's queue.
LEMMA QueueFrame ==
  ASSUME Inv, UNCHANGED pendingwriters,
         \A t \in Threads : call'[t] = "write" <=> call[t] = "write"
  PROVE  QueueIsBlockedWriters' /\ pendingwriters' \in Seq(Threads)
  BY DEF Inv, TypeOK, QueueIsBlockedWriters, ToSet, IsInjective

\* acquireRead preserves the invariant.
LEMMA ReadStep ==
  ASSUME Inv, NEW t \in Threads, AcquireRead(t) \/ RetryRead(t) \/ TimeoutRead(t)
  PROVE  Inv'
  <1> USE RWLockAssumption DEF AcquireRead, RetryRead, TimeoutRead, GrantRead,
          CanRead, Sleep, Return, locked
  <1>1. TypeOK'
    BY DEF Inv, TypeOK, ChooseTimeout
  <1>2. \A u \in Threads : /\ call'[u] = "write" <=> call[u] = "write"
                           /\ call'[u] = "upgrade" <=> call[u] = "upgrade"
    BY DEF Inv, TypeOK
  <1>3. MutualExclusion' /\ SingleUpgrade' /\ WriterDepth'
    BY <1>2 DEF Inv, TypeOK, MutualExclusion, SingleUpgrade, WriterDepth,
                Readers, Upgrading
  <1>4. BlockedHoldNothing'
    BY DEF Inv, TypeOK, MutualExclusion, BlockedHoldNothing, Readers
  <1>5. QueueIsBlockedWriters'
    BY <1>2, QueueFrame
  <1> QED
    BY <1>1, <1>3, <1>4, <1>5 DEF Inv

\* acquireWrite of a thread that holds nothing preserves the invariant.
LEMMA WriteStep ==
  ASSUME Inv, NEW t \in Threads, AcquireWrite(t) \/ RetryWrite(t) \/ TimeoutWrite(t)
  PROVE  Inv'
  <1>1. /\ pendingwriters' \in Seq(Threads)
        /\ IsInjective(pendingwriters')
    BY AcquireWriteQueue, RetryWriteQueue, TimeoutWriteQueue
  <1>2. TypeOK'
    BY <1>1 DEF AcquireWrite, RetryWrite, TimeoutWrite, GrantWrite, Sleep, Return,
                ChooseTimeout, locked, Inv, TypeOK
  <1>3. \A u \in Threads : /\ call'[u] = "upgrade" <=> call[u] = "upgrade"
                           /\ u # t => call'[u] = call[u]
    BY DEF AcquireWrite, RetryWrite, TimeoutWrite, Sleep, Return, Inv, TypeOK
  <1>4. readers' = readers /\ upgradewritercount' = upgradewritercount
    BY DEF AcquireWrite, RetryWrite, TimeoutWrite, GrantWrite, locked
  <1>5. \/ /\ Free
           /\ upgradewritercount = 0
           /\ writer' = t
           /\ writercount' = 1
           /\ call'[t] = "none"
        \/ writer' = writer /\ writercount' = writercount
    BY DEF AcquireWrite, RetryWrite, TimeoutWrite, GrantWrite, CanWrite, Return,
           locked, Inv, TypeOK
  <1>6. MutualExclusion' /\ SingleUpgrade' /\ WriterDepth'
    BY <1>3, <1>4, <1>5, RWLockAssumption
    DEF Inv, TypeOK, MutualExclusion, SingleUpgrade, WriterDepth, Free,
        Readers, Upgrading
  <1>7. BlockedHoldNothing'
    <2>1. call'[t] # "none" => writer' # t /\ readers[t] = 0
      BY <1>5 DEF AcquireWrite, RetryWrite, TimeoutWrite, Return, Readers,
                  Inv, TypeOK, BlockedHoldNothing
    <2> QED
      BY <1>3, <1>4, <1>5, <2>1 DEF Inv, BlockedHoldNothing
  <1>8. ToSet(pendingwriters') = {u \in Threads : call'[u] = "write"}
    <2>1. ToSet(pendingwriters) = {u \in Threads : call[u] = "write"}
      BY DEF Inv, QueueIsBlockedWriters
    <2>2. CASE AcquireWrite(t)
      <3>1. call[t] = "none" /\ call'[t] \in {"none", "write"}
        BY <2>2 DEF AcquireWrite, Sleep, Inv, TypeOK
      <3> QED
        BY <1>3, <2>1, <2>2, <3>1, AcquireWriteQueue
    <2>3. CASE RetryWrite(t)
      <3>1. call[t] = "write"
        BY <2>3 DEF RetryWrite
      <3> QED
        BY <1>3, <2>1, <2>3, <3>1, RetryWriteQueue
    <2>4. CASE TimeoutWrite(t)
      <3>1. call'[t] = "none"
        BY <2>4 DEF TimeoutWrite, Return, Inv, TypeOK
      <3> QED
        BY <1>3, <2>1, <2>4, <3>1, TimeoutWriteQueue
    <2> QED
      BY <2>2, <2>3, <2>4
  <1>9. QueueIsBlockedWriters'
    BY <1>1, <1>8 DEF QueueIsBlockedWriters, ToSet, IsInjective
  <1> QED
    BY <1>2, <1>6, <1>7, <1>9 DEF Inv

\* The upgrade of a reader preserves the invariant.
LEMMA UpgradeStep ==
  ASSUME Inv, NEW t \in Threads,
         AcquireUpgrade(t) \/ RetryUpgrade(t) \/ TimeoutUpgrade(t)
  PROVE  Inv'
  <1> USE RWLockAssumption DEF AcquireUpgrade, RetryUpgrade, TimeoutUpgrade,
          UpgradeAllowed, Free, Sleep, Return, locked
  <1>1. TypeOK'
    BY DEF Inv, TypeOK, ChooseTimeout
  <1>2. \A u \in Threads : /\ call'[u] = "write" <=> call[u] = "write"
                           /\ u # t => call'[u] = call[u]
    BY DEF Inv, TypeOK
  <1>3. CASE AcquireUpgrade(t)
    <2>1. MutualExclusion' /\ SingleUpgrade'
      BY <1>2, <1>3 DEF Inv, TypeOK, MutualExclusion, SingleUpgrade, Readers, Upgrading
    <2>2. WriterDepth' /\ BlockedHoldNothing'
      BY <1>3 DEF Inv, TypeOK, MutualExclusion, WriterDepth, BlockedHoldNothing, Readers
    <2> QED
      BY <1>1, <1>2, <2>1, <2>2, <1>3, QueueFrame DEF Inv
  <1>4. CASE RetryUpgrade(t)
    <2>1. MutualExclusion' /\ SingleUpgrade'
      BY <1>2, <1>4 DEF Inv, TypeOK, MutualExclusion, SingleUpgrade, Readers, Upgrading
    <2>2. WriterDepth' /\ BlockedHoldNothing'
      BY <1>4 DEF Inv, TypeOK, MutualExclusion, WriterDepth, BlockedHoldNothing, Readers
    <2> QED
      BY <1>1, <1>2, <2>1, <2>2, <1>4, QueueFrame DEF Inv
  <1>5. CASE TimeoutUpgrade(t)
    <2>1. MutualExclusion' /\ SingleUpgrade'
      BY <1>2, <1>5 DEF Inv, TypeOK, MutualExclusion, SingleUpgrade, Readers, Upgrading
    <2>2. WriterDepth' /\ BlockedHoldNothing'
      BY <1>5 DEF Inv, TypeOK, MutualExclusion, WriterDepth, BlockedHoldNothing, Readers
    <2> QED
      BY <1>1, <1>2, <2>1, <2>2, <1>5, QueueFrame DEF Inv
  <1> QED
    BY <1>3, <1>4, <1>5

\* Nesting and release preserve the invariant.
LEMMA ReleaseStep ==
  ASSUME Inv, NEW t \in Threads, Nest(t) \/ ReleaseRead(t) \/ ReleaseWrite(t)
  PROVE  Inv'
  <1> USE RWLockAssumption DEF Nest, ReleaseRead, ReleaseWrite, IsReader, NotifyAll
  <1>1. TypeOK'
    BY DEF Inv, TypeOK, WriterDepth, Readers
  <1>2. call' = call /\ pendingwriters' = pendingwriters
    OBVIOUS
  <1>3. MutualExclusion' /\ SingleUpgrade'
    BY <1>2 DEF Inv, TypeOK, MutualExclusion, SingleUpgrade, Readers, Upgrading
  <1>4. WriterDepth' /\ BlockedHoldNothing'
    BY <1>2 DEF Inv, TypeOK, WriterDepth, BlockedHoldNothing
  <1> QED
    BY <1>1, <1>2, <1>3, <1>4, QueueFrame DEF Inv

\* The invariant is inductive.
LEMMA StepInv == Inv /\ [Next]_vars => Inv'
  <1> SUFFICES ASSUME Inv, [Next]_vars
               PROVE  Inv'
    OBVIOUS
  <1>1. ASSUME NEW t \in Threads, Acquire(t)
        PROVE  Inv'
    BY <1>1, ReadStep, WriteStep, UpgradeStep, ReleaseStep DEF Acquire
  <1>2. ASSUME NEW t \in Threads, Retry(t) \/ Timeout(t)
        PROVE  Inv'
    BY <1>2, ReadStep, WriteStep, UpgradeStep DEF Retry, Timeout
  <1>3. ASSUME NEW t \in Threads, Release(t)
        PROVE  Inv'
    BY <1>3, ReleaseStep DEF Release
  <1>4. CASE UNCHANGED vars
    BY <1>4 DEF vars, Inv, TypeOK, MutualExclusion, SingleUpgrade, WriterDepth,
                BlockedHoldNothing, QueueIsBlockedWriters, Readers, Upgrading,
                ToSet, IsInjective
  <1> QED
    BY <1>1, <1>2, <1>3, <1>4 DEF Next

LEMMA Invariance == Spec => []Inv
  BY InitInv, StepInv, PTL DEF Spec

-----------------------------------------------------------------------------
\* The variables keep their types (the reader and writer depths never go
\* below zero, whatever release() is called with).
THEOREM TypeCorrect == Spec => []TypeOK
  BY Invariance, PTL DEF Inv

\* acquireRead and acquireWrite exclude each other: no reader, and no thread
\* that waits for its upgrade, while a thread holds the write lock.
THEOREM MutuallyExclusive == Spec => []MutualExclusion
  BY Invariance, PTL DEF Inv

\* acquireWrite lets one reader upgrade at a time.
THEOREM UpgradesAlone == Spec => []SingleUpgrade
  BY Invariance, PTL DEF Inv

\* __pendingwriters is exactly the blocked writers, without duplicates.
THEOREM QueueCorrect == Spec => []QueueIsBlockedWriters
  BY Invariance, PTL DEF Inv

-----------------------------------------------------------------------------
(* No lost wake-ups.  WritersSleepForAReason is inductive together with Inv, *)
(* and what ReadersSleepForAReason lacks is a signal of the two timeouts.    *)

\* A writer that waits behind another one, or for somebody, goes on waiting when
\* a blocked writer leaves the queue without having had the lock.
LEMMA TimeoutKeepsHead ==
  ASSUME Inv, NEW t \in Threads, TimeoutWrite(t), Free, upgradewritercount = 0
  PROVE  Head(pendingwriters') = Head(pendingwriters)
  <1>1. Head(pendingwriters) # t
    BY DEF TimeoutWrite, CanWrite
  <1>2. PICK i \in DOMAIN pendingwriters :
           /\ pendingwriters[i] = t
           /\ pendingwriters' = RemoveAt(pendingwriters, i)
    BY DEF TimeoutWrite, LeaveQueue
  <1>3. i # 1
    BY <1>1, <1>2
  <1> QED
    BY <1>2, <1>3, RemoveQueue DEF Inv, TypeOK, QueueIsBlockedWriters

\* A grant leaves a holder, so that whoever sleeps has a reason to.
LEMMA HeldIsAReason ==
  ASSUME ~Free'
  PROVE  WritersSleepForAReason'
  BY DEF WritersSleepForAReason, CanWrite

\* acquireRead: a reader that is granted is a holder, one that is not changes
\* nothing for the writers.
LEMMA ReadWakes ==
  ASSUME Inv, WritersSleepForAReason, NEW t \in Threads,
         AcquireRead(t) \/ RetryRead(t) \/ TimeoutRead(t)
  PROVE  WritersSleepForAReason'
  <1>1. CASE GrantRead(t)
    <2>1. readers'[t] > 0
      BY <1>1 DEF GrantRead, Inv, TypeOK
    <2> QED
      BY <2>1, HeldIsAReason DEF Free, Readers
  <1>2. CASE ~GrantRead(t)
    <2>1. UNCHANGED locked
      BY <1>2 DEF AcquireRead, RetryRead, TimeoutRead
    <2>2. \A u \in Threads : /\ u # t => (u \in asleep' <=> u \in asleep)
                             /\ u # t => call'[u] = call[u]
                             /\ u = t => call'[u] \in {"none", "read"}
      BY <1>2 DEF AcquireRead, RetryRead, TimeoutRead, Sleep, Return, Inv, TypeOK
    <2>3. asleep' \subseteq Threads
      BY <1>2 DEF AcquireRead, RetryRead, TimeoutRead, Sleep, Return, Inv, TypeOK
    <2> QED
      BY <2>1, <2>2, <2>3
      DEF WritersSleepForAReason, CanWrite, Free, Readers, locked
  <1> QED
    BY <1>1, <1>2

\* acquireWrite: a writer that waits has found that it must; one that gives up
\* was not the reason another one waits for, unless something else was.
LEMMA WriteWakes ==
  ASSUME Inv, WritersSleepForAReason, NEW t \in Threads,
         AcquireWrite(t) \/ RetryWrite(t) \/ TimeoutWrite(t)
  PROVE  WritersSleepForAReason'
  <1>1. \/ writer' = t
        \/ UNCHANGED <<writer, upgradewritercount, readers>>
    BY DEF AcquireWrite, RetryWrite, TimeoutWrite, GrantWrite, locked
  <1>2. CASE writer' = t
    BY <1>2, HeldIsAReason, RWLockAssumption DEF Free
  <1>3. CASE UNCHANGED <<writer, upgradewritercount, readers>> /\ writer # t
    <2>1. Free' <=> Free
      BY <1>3 DEF Free, Readers
    <2> SUFFICES ASSUME Free, NEW u \in asleep'
                 PROVE  /\ call'[u] = "write" /\ upgradewritercount = 0
                             => Head(pendingwriters') # u
                        /\ call'[u] # "upgrade"
      BY <1>3, <2>1 DEF WritersSleepForAReason, CanWrite
    <2>2. u \in Threads /\ call \in [Threads -> {"none", "read", "write", "upgrade"}]
      BY DEF AcquireWrite, RetryWrite, TimeoutWrite, Sleep, Return, Inv, TypeOK
    <2>3. IF u = t THEN call'[u] # "upgrade"
                   ELSE u \in asleep /\ call'[u] = call[u]
      BY <2>2 DEF AcquireWrite, RetryWrite, TimeoutWrite, Sleep, Return
    <2>4. call'[u] # "upgrade"
      BY <2>3 DEF WritersSleepForAReason
    <2>5. u # t /\ call[u] = "write" /\ upgradewritercount = 0
            => Head(pendingwriters) # u
      BY <2>3 DEF WritersSleepForAReason, CanWrite
    <2>6. CASE AcquireWrite(t)
      <3>1. /\ pendingwriters' = Append(pendingwriters, t)
            /\ upgradewritercount = 0 => Head(pendingwriters') # t
        BY <1>3, <2>6 DEF AcquireWrite, GrantWrite, CanWrite
      <3>2. /\ pendingwriters \in Seq(Threads)
            /\ upgradewritercount = 0 => pendingwriters # <<>>
        BY <3>1 DEF Inv, TypeOK
      <3>3. upgradewritercount = 0 => Head(pendingwriters') = Head(pendingwriters)
        BY <3>1, <3>2
      <3> QED
        BY <2>3, <2>4, <2>5, <3>1, <3>3
    <2>7. CASE RetryWrite(t)
      <3>1. /\ pendingwriters' = pendingwriters
            /\ upgradewritercount = 0 => Head(pendingwriters) # t
        BY <1>3, <2>7 DEF RetryWrite, GrantWrite, CanWrite, locked
      <3> QED
        BY <2>3, <2>4, <2>5, <3>1
    <2>8. CASE TimeoutWrite(t)
      <3>1. /\ u # t
            /\ upgradewritercount = 0 => Head(pendingwriters') = Head(pendingwriters)
        BY <2>8, TimeoutKeepsHead DEF TimeoutWrite, Return
      <3> QED
        BY <2>3, <2>4, <2>5, <3>1
    <2> QED
      BY <2>6, <2>7, <2>8
  <1> QED
    BY <1>1, <1>2, <1>3

\* The upgrade: whatever it comes to, the thread holds something, or somebody
\* else does.
LEMMA UpgradeWakes ==
  ASSUME Inv, WritersSleepForAReason, NEW t \in Threads,
         AcquireUpgrade(t) \/ RetryUpgrade(t) \/ TimeoutUpgrade(t)
  PROVE  WritersSleepForAReason'
  <1>1. CASE writer' = t
    BY <1>1, HeldIsAReason, RWLockAssumption DEF Free
  <1>2. CASE AcquireUpgrade(t) /\ writer' # t
    <2>1. PICK u \in Threads : u # t /\ readers[u] > 0
      BY <1>2 DEF AcquireUpgrade, Readers, Inv, MutualExclusion
    <2>2. readers'[u] > 0
      BY <1>2, <2>1 DEF AcquireUpgrade, Inv, TypeOK
    <2> QED
      BY <2>2, HeldIsAReason DEF Free, Readers
  <1>3. CASE RetryUpgrade(t) /\ writer' # t
    <2>1. ~Free /\ UNCHANGED locked
      BY <1>3 DEF RetryUpgrade
    <2> QED
      BY <2>1, HeldIsAReason DEF Free, Readers, locked
  <1>4. CASE TimeoutUpgrade(t)
    <2>1. upgradewritercount > 0
      BY <1>4 DEF TimeoutUpgrade, Inv, SingleUpgrade, Upgrading
    <2>2. readers'[t] > 0
      BY <1>4, <2>1 DEF TimeoutUpgrade, Inv, TypeOK
    <2> QED
      BY <2>2, HeldIsAReason DEF Free, Readers
  <1> QED
    BY <1>1, <1>2, <1>3, <1>4

\* release: the last one wakes everybody, any other leaves a holder.
LEMMA ReleaseWakes ==
  ASSUME Inv, WritersSleepForAReason, NEW t \in Threads,
         Nest(t) \/ ReleaseRead(t) \/ ReleaseWrite(t)
  PROVE  WritersSleepForAReason' /\ (asleep' = {} \/ ~Free')
  <1>1. asleep' = {} \/ ~Free'
    <2>1. CASE Nest(t)
      BY <2>1, RWLockAssumption DEF Nest, Free
    <2>2. CASE ReleaseRead(t)
      <3>1. CASE Readers = {t} /\ readers[t] = 1
        BY <2>2, <3>1 DEF ReleaseRead, NotifyAll
      <3>2. CASE readers[t] # 1
        <4>1. readers'[t] > 0
          BY <2>2, <3>2 DEF ReleaseRead, IsReader, Readers, Inv, TypeOK
        <4> QED
          BY <4>1 DEF Free, Readers
      <3>3. CASE Readers # {t}
        <4>1. PICK u \in Threads : u # t /\ readers[u] > 0
          BY <2>2, <3>3 DEF ReleaseRead, IsReader, Readers
        <4>2. readers'[u] > 0
          BY <2>2, <4>1 DEF ReleaseRead, Inv, TypeOK
        <4> QED
          BY <4>2 DEF Free, Readers
      <3> QED
        BY <3>1, <3>2, <3>3
    <2>3. CASE ReleaseWrite(t)
      BY <2>3, RWLockAssumption DEF ReleaseWrite, NotifyAll, Free
    <2> QED
      BY <2>1, <2>2, <2>3
  <1> QED
    BY <1>1, HeldIsAReason DEF WritersSleepForAReason

\* Every step that lets a writer in wakes it.
LEMMA WakesStep ==
  ASSUME Inv, WritersSleepForAReason, [Next]_vars
  PROVE  WritersSleepForAReason'
  <1>1. ASSUME NEW t \in Threads, Acquire(t) \/ Retry(t) \/ Timeout(t) \/ Release(t)
        PROVE  WritersSleepForAReason'
    BY <1>1, ReadWakes, WriteWakes, UpgradeWakes, ReleaseWakes
    DEF Acquire, Retry, Timeout, Release
  <1>2. CASE UNCHANGED vars
    BY <1>2 DEF vars, WritersSleepForAReason, CanWrite, Free, Readers
  <1> QED
    BY <1>1, <1>2 DEF Next

\* A writer that sleeps in acquireWrite has to: no release and no timeout leaves
\* one asleep that could be served.
THEOREM WritersAreWoken == Spec => []WritersSleepForAReason
  <1>1. Init => WritersSleepForAReason
    BY DEF Init, WritersSleepForAReason
  <1> QED
    BY <1>1, WakesStep, Invariance, PTL DEF Spec

\* Readers are woken by whatever lets them in but the timeouts of writers.
LEMMA ReadersWoken ==
  ASSUME Inv, ReadersSleepForAReason, NEW t \in Threads,
         Acquire(t) \/ Retry(t) \/ TimeoutRead(t) \/ Release(t)
  PROVE  ReadersSleepForAReason'
  <1> SUFFICES ASSUME NEW u \in asleep', call'[u] = "read"
               PROVE  ~CanRead(u)'
    BY DEF ReadersSleepForAReason
  <1> USE RWLockAssumption
  <1>1. u \in Threads
    BY DEF Acquire, Retry, Release, AcquireRead, Nest, AcquireWrite, AcquireUpgrade,
       RetryRead, RetryWrite, RetryUpgrade, TimeoutRead, ReleaseRead, ReleaseWrite,
       Sleep, Return, NotifyAll, Inv, TypeOK
  <1>2. call'[u] # "none" => writer' # u /\ readers'[u] = 0
    <2>1. Inv'
      BY StepInv DEF Next, Timeout
    <2> QED
      BY <1>1, <2>1 DEF Inv, BlockedHoldNothing
  <1>3. u \notin Readers'
    BY <1>2 DEF Readers
  <1>4. ASSUME u # t PROVE u \in asleep /\ call[u] = "read"
    BY <1>1, <1>4 DEF Acquire, Retry, Release, AcquireRead, Nest, AcquireWrite,
       AcquireUpgrade, RetryRead, RetryWrite, RetryUpgrade, TimeoutRead, ReleaseRead,
       ReleaseWrite, Sleep, Return, NotifyAll, Inv, TypeOK
  <1>5. u # t => writer # NoThread \/ WriterWaiting
    BY <1>4 DEF ReadersSleepForAReason, CanRead
  <1> SUFFICES writer' # NoThread \/ WriterWaiting'
    BY <1>3 DEF CanRead
  <1>6. CASE AcquireRead(t) \/ RetryRead(t) \/ TimeoutRead(t)
    <2>1. UNCHANGED <<writer, upgradewritercount, pendingwriters>>
      BY <1>6 DEF AcquireRead, RetryRead, TimeoutRead, GrantRead, locked
    <2>2. CASE u = t
      BY <1>3, <1>6, <2>1, <2>2 DEF AcquireRead, RetryRead, TimeoutRead, GrantRead,
         CanRead, Return, WriterWaiting, locked, Readers, Inv, TypeOK
    <2> QED
      BY <1>5, <2>1, <2>2 DEF WriterWaiting
  <1>7. CASE AcquireWrite(t) \/ RetryWrite(t)
    <2>1. writer' = t \/ pendingwriters' # <<>>
      BY <1>7, BlockedWriterQueued DEF AcquireWrite, RetryWrite, GrantWrite, locked, Inv,
         TypeOK
    <2> QED
      BY <2>1 DEF WriterWaiting
  <1>8. CASE AcquireUpgrade(t) \/ RetryUpgrade(t)
    <2>1. writer' = t \/ upgradewritercount' > 0
      BY <1>8 DEF AcquireUpgrade, RetryUpgrade, Readers, locked, Inv, SingleUpgrade,
         Upgrading
    <2> QED
      BY <2>1 DEF WriterWaiting
  <1>9. CASE Nest(t)
    BY <1>9 DEF Nest
  <1>10. CASE ReleaseRead(t) \/ ReleaseWrite(t)
    <2>1. u # t
      BY <1>10 DEF ReleaseRead, ReleaseWrite
    <2>2. writer' = writer
      BY <1>10 DEF ReleaseRead, ReleaseWrite, NotifyAll
    <2> QED
      BY <1>5, <1>10, <2>1, <2>2 DEF ReleaseRead, ReleaseWrite, WriterWaiting
  <1> QED
    BY <1>6, <1>7, <1>8, <1>9, <1>10 DEF Acquire, Retry, Release

\* The two timeouts of writers are all that leaves a reader asleep that could be
\* served (connection.py passes none).
THEOREM ReadersAreWoken == Spec => OnlyTimeoutsLoseWakeups
  <1>1. ASSUME Inv, [Next]_vars
        PROVE  [\/ ~ReadersSleepForAReason
                \/ ReadersSleepForAReason'
                \/ \E t \in Threads : TimeoutWrite(t) \/ TimeoutUpgrade(t)]_vars
    BY <1>1, ReadersWoken DEF Next, Timeout
  <1> QED
    BY <1>1, Invariance, PTL DEF Spec, OnlyTimeoutsLoseWakeups

-----------------------------------------------------------------------------
(* Refinement: what each thread holds, and how a step changes it. *)

Held == [t \in Threads |-> Holding(t)]

\* While a thread has the write lock nobody else has anything; readers and
\* the upgrading thread have a read lock.
LEMMA HeldModes ==
  ASSUME Inv, NEW t \in Threads
  PROVE  /\ writer = t => Held[t] = [mode |-> "write", depth |-> writercount]
         /\ Upgrading(t) => Held[t] = [mode |-> "read", depth |-> upgradewritercount]
         /\ t \in Readers => Held[t] = [mode |-> "read", depth |-> readers[t]]
         /\ writer # t /\ ~Upgrading(t) /\ t \notin Readers =>
              Held[t] = Abstract!Idle
         /\ writer # t => Held[t].mode # "write"
  BY RWLockAssumption
  DEF Held, Holding, Inv, TypeOK, MutualExclusion, BlockedHoldNothing, Upgrading,
      Readers, Abstract!Idle

\* A step of thread t changes what t holds, and nothing else.
LEMMA HeldChange ==
  ASSUME NEW t \in Threads,
         \A u \in Threads \ {t} : Holding(u)' = Holding(u)
  PROVE  Held' = [Held EXCEPT ![t] = Holding(t)']
  BY DEF Held

\* The two abstract actions in terms of Held.
LEMMA AbstractWrite ==
  ASSUME NEW t \in Threads,
         \A u \in Threads \ {t} : Held[u].mode = "none",
         Held' = [Held EXCEPT ![t] = [mode |-> "write", depth |-> Held[t].depth + 1]]
  PROVE  Abstract!Write(t)
  BY DEF Abstract!Write, Abstract!Hold, Held

LEMMA AbstractRelease ==
  ASSUME NEW t \in Threads, NEW m \in {"read", "write"}, NEW d,
         Held[t] = [mode |-> m, depth |-> d],
         Held' = [Held EXCEPT ![t] =
                    IF d = 1 THEN Abstract!Idle ELSE [mode |-> m, depth |-> d - 1]]
  PROVE  Abstract!Release(t)
  <1>1. Held[t].mode # "none"
    OBVIOUS
  <1>2. Held' = [Held EXCEPT ![t] =
                   IF Held[t].depth = 1 THEN Abstract!Idle
                   ELSE [mode |-> Held[t].mode, depth |-> Held[t].depth - 1]]
    OBVIOUS
  <1> QED
    BY <1>1, <1>2 DEF Abstract!Release, Held

\* Blocking, sleeping again and giving up leave everybody's locks alone; a
\* grant is a Read or a Write of the abstract lock.
LEMMA ReadRefines ==
  ASSUME Inv, Inv', NEW t \in Threads,
         AcquireRead(t) \/ RetryRead(t) \/ TimeoutRead(t)
  PROVE  Abstract!Read(t) \/ Held' = Held
  <1>1. \A u \in Threads : Upgrading(u)' <=> Upgrading(u)
    BY DEF AcquireRead, RetryRead, TimeoutRead, Sleep, Return, Upgrading, Inv, TypeOK
  <1>2. CASE GrantRead(t)
    <2>1. writer = NoThread /\ ~Upgrading(t)
      BY <1>2 DEF GrantRead, CanRead, AcquireRead, RetryRead, TimeoutRead, Upgrading
    <2>2. Holding(t)' = [mode |-> "read", depth |-> Held[t].depth + 1]
      BY <1>1, <1>2, <2>1, RWLockAssumption
      DEF GrantRead, Holding, Held, Inv, TypeOK
    <2>3. \A u \in Threads \ {t} : Holding(u)' = Holding(u)
      BY <1>1, <1>2 DEF GrantRead, Holding, Inv, TypeOK
    <2>4. \A u \in Threads : Held[u].mode # "write"
      BY <2>1, HeldModes, RWLockAssumption
    <2> QED
      BY <2>2, <2>3, <2>4, HeldChange DEF Abstract!Read, Abstract!Hold, Held
  <1>3. CASE UNCHANGED locked
    BY <1>1, <1>3 DEF locked, Held, Holding
  <1> QED
    BY <1>2, <1>3 DEF AcquireRead, RetryRead, TimeoutRead

LEMMA WriteRefines ==
  ASSUME Inv, Inv', NEW t \in Threads,
         AcquireWrite(t) \/ RetryWrite(t) \/ TimeoutWrite(t)
  PROVE  Abstract!Write(t) \/ Held' = Held
  <1>1. \A u \in Threads : Upgrading(u)' <=> Upgrading(u)
    BY DEF AcquireWrite, RetryWrite, TimeoutWrite, Sleep, Return, Upgrading, Inv, TypeOK
  <1>2. readers' = readers /\ upgradewritercount' = upgradewritercount
    BY DEF AcquireWrite, RetryWrite, TimeoutWrite, GrantWrite, locked
  <1>3. CASE Free /\ upgradewritercount = 0 /\ writer' = t /\ writercount' = 1
    <2>1. \A u \in Threads : Held[u] = Abstract!Idle
      BY <1>3, HeldModes, RWLockAssumption DEF Free, Inv, SingleUpgrade
    <2>2. \A u \in Threads \ {t} : Holding(u)' = Holding(u)
      BY <1>1, <1>2, <1>3, RWLockAssumption DEF Holding, Free
    <2>3. Holding(t)' = [mode |-> "write", depth |-> 1]
      BY <1>3 DEF Holding
    <2> QED
      BY <2>1, <2>2, <2>3, HeldChange
      DEF Abstract!Write, Abstract!Hold, Abstract!Idle, Held
  <1>4. CASE writer' = writer /\ writercount' = writercount
    BY <1>1, <1>2, <1>4 DEF Held, Holding
  <1> QED
    BY <1>3, <1>4 DEF AcquireWrite, RetryWrite, TimeoutWrite, GrantWrite, CanWrite, locked

\* An upgrade that waits, or gives up, keeps its read lock; when it is granted
\* the depth counts on from there.
LEMMA UpgradeRefines ==
  ASSUME Inv, Inv', NEW t \in Threads,
         AcquireUpgrade(t) \/ RetryUpgrade(t) \/ TimeoutUpgrade(t)
  PROVE  Abstract!Write(t) \/ Held' = Held
  <1> USE RWLockAssumption DEF AcquireUpgrade, RetryUpgrade, TimeoutUpgrade,
          UpgradeAllowed, Free, Sleep, Return, locked
  <1>1. \A u \in Threads \ {t} : Upgrading(u)' <=> Upgrading(u)
    BY DEF Upgrading, Inv, TypeOK
  <1>2. \A u \in Threads \ {t} : readers'[u] = readers[u]
    BY DEF Inv, TypeOK
  <1>3. \A u \in Threads \ {t} : Holding(u)' = Holding(u)
    BY <1>1, <1>2 DEF Holding, Inv, TypeOK, MutualExclusion, SingleUpgrade,
                      Readers, Upgrading
  <1>4. Held' = [Held EXCEPT ![t] = Holding(t)']
    BY <1>3, HeldChange
  <1>5. CASE writer' = t
    <2>1. /\ writer = NoThread
          /\ \A u \in Threads \ {t} : u \notin Readers /\ ~Upgrading(u)
      BY <1>5 DEF Inv, TypeOK, SingleUpgrade, BlockedHoldNothing, Upgrading, Readers
    <2>2. \A u \in Threads \ {t} : Held[u].mode = "none"
      <3>1. \A u \in Threads \ {t} : writer # u
        BY <2>1
      <3>2. \A u \in Threads \ {t} : Held[u] = Abstract!Idle
        BY <2>1, <3>1, HeldModes
      <3> QED
        BY <3>2 DEF Abstract!Idle
    <2>3. Holding(t)' = [mode |-> "write", depth |-> Held[t].depth + 1]
      BY <1>5, <2>1 DEF Holding, Held, Inv, TypeOK, Upgrading, BlockedHoldNothing
    <2> QED
      BY <1>4, <2>2, <2>3, AbstractWrite
  <1>6. CASE writer' # t
    <2>1. Holding(t)' = Holding(t)
      BY <1>6 DEF Holding, Inv, TypeOK, MutualExclusion, SingleUpgrade, Upgrading,
                  BlockedHoldNothing, Readers
    <2> QED
      BY <1>4, <2>1 DEF Held
  <1> QED
    BY <1>5, <1>6

LEMMA ReleaseRefines ==
  ASSUME Inv, Inv', NEW t \in Threads, Nest(t) \/ Release(t)
  PROVE  Abstract!Read(t) \/ Abstract!Release(t)
  <1> USE RWLockAssumption DEF Nest, Release, ReleaseRead, ReleaseWrite, IsReader
  <1>1. call' = call
    OBVIOUS
  <1>2. \A u \in Threads \ {t} : Holding(u)' = Holding(u)
    BY <1>1 DEF Holding, Inv, TypeOK, MutualExclusion, Readers, Upgrading
  <1>3. Held' = [Held EXCEPT ![t] = Holding(t)']
    BY <1>2, HeldChange
  <1>4. CASE Nest(t)
    <2>1. Holding(t)' = [mode |-> "write", depth |-> Held[t].depth + 1]
      BY <1>4 DEF Holding, Held
    <2> QED
      BY <1>3, <1>4, <2>1, HeldModes DEF Abstract!Read, Abstract!Hold, Held
  <1>5. CASE ReleaseWrite(t)
    <2>1. Held[t] = [mode |-> "write", depth |-> writercount]
      BY <1>5, HeldModes
    <2>2. Holding(t)' = IF writercount = 1 THEN Abstract!Idle
                        ELSE [mode |-> "write", depth |-> writercount - 1]
      BY <1>1, <1>5 DEF Holding, Abstract!Idle, Inv, TypeOK, MutualExclusion,
                        Readers, Upgrading
    <2> QED
      BY <1>3, <2>1, <2>2, AbstractRelease
  <1>6. CASE ReleaseRead(t)
    <2>1. Held[t] = [mode |-> "read", depth |-> readers[t]]
      BY <1>6, HeldModes
    <2>2. Holding(t)' = IF readers[t] = 1 THEN Abstract!Idle
                        ELSE [mode |-> "read", depth |-> readers[t] - 1]
      BY <1>1, <1>6 DEF Holding, Abstract!Idle, Inv, TypeOK, Readers, Upgrading
    <2> QED
      BY <1>3, <2>1, <2>2, AbstractRelease
  <1> QED
    BY <1>4, <1>5, <1>6

\* ReadWriteLock implements the abstract re-entrant shared/exclusive lock: in
\* particular an upgrade never lets another writer in between.
THEOREM Refinement == Spec => ImplementsLock
  <1>1. Init => Abstract!Init
    BY RWLockAssumption DEF Init, Abstract!Init, Abstract!Idle, Holding, Upgrading
  <1>2. Inv /\ Inv' /\ [Next]_vars => [Abstract!Next]_Held
    <2> SUFFICES ASSUME Inv, Inv', [Next]_vars
                 PROVE  Abstract!Next \/ Held' = Held
      OBVIOUS
    <2>1. ASSUME NEW t \in Threads, Acquire(t) \/ Retry(t) \/ Timeout(t) \/ Release(t)
          PROVE  Abstract!Next \/ Held' = Held
      <3>1. Abstract!Read(t) \/ Abstract!Write(t) \/ Abstract!Release(t) \/ Held' = Held
        BY <2>1, ReadRefines, WriteRefines, UpgradeRefines, ReleaseRefines
        DEF Acquire, Retry, Timeout
      <3> QED
        BY <3>1 DEF Abstract!Next
    <2>2. CASE UNCHANGED vars
      BY <2>2 DEF vars, Held, Holding, Upgrading
    <2> QED
      BY <2>1, <2>2 DEF Next
  <1> QED
    BY <1>1, <1>2, Invariance, PTL DEF Spec, ImplementsLock, Abstract!Spec, Held
=============================================================================
