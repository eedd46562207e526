------------------------ MODULE SharedExclusiveLock ------------------------
(***************************************************************************)
(* What the docstring and the signatures of ReadWriteLock promise: a       *)
(* re-entrant shared/exclusive lock whose readers may upgrade without      *)
(* giving up the read lock first.  How threads wait is left out.           *)
(***************************************************************************)
EXTENDS Naturals

CONSTANT Threads

VARIABLE held  \* for each thread, the lock it holds and how often

Idle == [mode |-> "none", depth |-> 0]

Hold(t, mode) == held' = [held EXCEPT ![t] = [mode  |-> mode,
                                              depth |-> @.depth + 1]]

Init == held = [t \in Threads |-> Idle]

\* A read lock is shared by readers only; the writer nests it as a write.
Read(t) ==
    \/ /\ \A u \in Threads : held[u].mode # "write"
       /\ Hold(t, "read")
    \/ held[t].mode = "write" /\ Hold(t, "write")

\* The write lock is granted when no other thread holds anything.
Write(t) ==
    /\ \A u \in Threads \ {t} : held[u].mode = "none"
    /\ Hold(t, "write")

Release(t) ==
    /\ held[t].mode # "none"
    /\ held' = [held EXCEPT ![t] =
                   IF @.depth = 1 THEN Idle
                   ELSE [mode |-> @.mode, depth |-> @.depth - 1]]

Next == \E t \in Threads : Read(t) \/ Write(t) \/ Release(t)

Spec == Init /\ [][Next]_held
=============================================================================
