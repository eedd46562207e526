---------------------------- MODULE Connections ----------------------------
(***************************************************************************)
(* The connection manager of backend/vrtManager/connection.py.  Request    *)
(* threads share one wvmConnection object per credentials; the objects are *)
(* kept in the table _connections under a ReadWriteLock, and each of them  *)
(* protects its libvirt handle with a lock of its own.  The libvirt event  *)
(* loop is one more thread: it runs the close callbacks.                   *)
(*                                                                         *)
(* The lock is the abstract SharedExclusiveLock, which RWLock implements.  *)
(* wvmConnection.close is not modelled: nothing calls it.                  *)
(***************************************************************************)
EXTENDS Naturals

CONSTANTS Threads,      \* request threads of the web server
          Credentials,  \* host, login, password and type of a connection
          Unsupported,  \* the credentials whose type is not tcp, ssh or tls
          MaxObjects,   \* bound: wvmConnection objects ever created
          MaxHandles,   \* bound: libvirt connections ever opened
          None          \* Python's None, also an unlocked lock

ASSUME ConnectionsAssumption ==
    /\ Unsupported \subseteq Credentials
    /\ MaxObjects \in Nat /\ MaxHandles \in Nat
    /\ None \notin Threads /\ None \notin Credentials
    /\ None \notin 1..MaxObjects /\ None \notin 1..MaxHandles

Objects == 1..MaxObjects
Handles == 1..MaxHandles

VARIABLES held,       \* the table lock
          table,      \* _connections: the objects that are in the table
          objects,    \* how many objects were created
          cred,       \* login, passwd, type of an object
          handle,     \* connection of an object
          stateLock,  \* connection_state_lock: the thread inside connect()
          opened,     \* how many handles libvirt has opened
          alive,      \* the handles whose link is up
          callbacks,  \* the handles with a registered close callback, by object
          closing,    \* close callbacks the event loop is about to run
          pc,         \* where each thread is in get_connection
          wanted,     \* the credentials it asked for
          obj,        \* its local variable `connection'
          result      \* what get_connection returned or raised

lockVars == <<held>>
objectVars == <<objects, cred, table>>
linkVars == <<opened, alive, callbacks, closing>>
callVars == <<wanted, obj, result>>
vars == <<held, table, objects, cred, handle, stateLock, opened, alive,
          callbacks, closing, pc, wanted, obj, result>>

Lock == INSTANCE SharedExclusiveLock

\* A call has returned a handle, or raised an exception.
Outcome(kind, h) == [kind |-> kind, handle |-> h]

Init ==
    /\ Lock!Init
    /\ table = {}
    /\ objects = 0
    /\ cred = [o \in Objects |-> None]
    /\ handle = [o \in Objects |-> None]
    /\ stateLock = [o \in Objects |-> None]
    /\ opened = 0
    /\ alive = {}
    /\ callbacks = {}
    /\ closing = {}
    /\ pc = [t \in Threads |-> "idle"]
    /\ wanted = [t \in Threads |-> None]
    /\ obj = [t \in Threads |-> None]
    /\ result = [t \in Threads |-> Outcome("none", None)]

Goto(t, from, to) == pc[t] = from /\ pc' = [pc EXCEPT ![t] = to]

Finish(t, r) ==
    /\ pc' = [pc EXCEPT ![t] = "idle"]
    /\ result' = [result EXCEPT ![t] = r]

\* The property `connected', read where the handle cannot change meanwhile.
Connected(o) == handle[o] # None /\ handle[o] \in alive

(***************************************************************************)
(* get_connection: the search, twice, and the insertion.                   *)
(***************************************************************************)
Call(t, c) ==
    /\ Goto(t, "idle", "acquireRead")
    /\ wanted' = [wanted EXCEPT ![t] = c]
    /\ obj' = [obj EXCEPT ![t] = None]
    /\ result' = [result EXCEPT ![t] = Outcome("none", None)]
    /\ UNCHANGED <<lockVars, objectVars, handle, stateLock, linkVars>>

\* _search_connection, entered without the lock or under the write lock
AcquireRead(t) ==
    /\ Goto(t, "acquireRead", "search")
    /\ Lock!Read(t)
    /\ UNCHANGED <<objectVars, handle, stateLock, linkVars, callVars>>

Matches(o, c) == cred[o] = c

Found(c) == {o \in table : Matches(o, c)}

UnderWrite(t) == held[t].mode = "write"

\* The finally clause of _search_connection.
LeaveSearch_OnlyIfMissing(t) ==
    IF Found(wanted[t]) = {} THEN Lock!Release(t) ELSE UNCHANGED held

LeaveSearch(t) == Lock!Release(t)

Search(t) ==
    /\ pc[t] = "search"
    /\ LeaveSearch(t)
    /\ \/ /\ Found(wanted[t]) = {}
          /\ pc' = [pc EXCEPT ![t] = IF UnderWrite(t) THEN "create"
                                     ELSE "acquireWrite"]
          /\ UNCHANGED obj
       \/ \E o \in Found(wanted[t]) :
             /\ obj' = [obj EXCEPT ![t] = o]
             /\ pc' = [pc EXCEPT ![t] = IF UnderWrite(t) THEN "release"
                                        ELSE "connected?"]
    /\ UNCHANGED <<objectVars, handle, stateLock, linkVars, wanted, result>>

\* The search is repeated under the write lock.
AfterWrite_NoSearch == "create"

AfterWrite == "acquireRead"

AcquireWrite(t) ==
    /\ Goto(t, "acquireWrite", AfterWrite)
    /\ Lock!Write(t)
    /\ UNCHANGED <<objectVars, handle, stateLock, linkVars, callVars>>

\* A new wvmConnection runs connect() in its constructor.
Create(t) ==
    /\ Goto(t, "create", "open")
    /\ wanted[t] \notin Unsupported
    /\ objects < MaxObjects
    /\ objects' = objects + 1
    /\ cred' = [cred EXCEPT ![objects + 1] = wanted[t]]
    /\ obj' = [obj EXCEPT ![t] = objects + 1]
    /\ stateLock' = [stateLock EXCEPT ![objects + 1] = t]
    /\ UNCHANGED <<lockVars, table, handle, linkVars, wanted, result>>

\* ValueError: the constructor fails, the finally clause releases the lock.
Finally_KeepsLock(t) == UNCHANGED held

Finally(t) == Lock!Release(t)

CreateFails(t) ==
    /\ pc[t] = "create"
    /\ wanted[t] \in Unsupported
    /\ Finally(t)
    /\ Finish(t, Outcome("ValueError", None))
    /\ UNCHANGED <<objectVars, handle, stateLock, linkVars, wanted, obj>>

ReleaseWrite(t) ==
    /\ Goto(t, "release", "connected2?")
    /\ Lock!Release(t)
    /\ UNCHANGED <<objectVars, handle, stateLock, linkVars, callVars>>

(***************************************************************************)
(* connect, under the object's own lock.  When the object is new, the      *)
(* thread holds the write lock and puts the object into the table next.    *)
(***************************************************************************)
Leave(t) ==
    /\ stateLock' = [stateLock EXCEPT ![obj[t]] = None]
    /\ IF UnderWrite(t)
         THEN /\ pc' = [pc EXCEPT ![t] = "release"]
              /\ table' = table \union {obj[t]}
         ELSE /\ pc' = [pc EXCEPT ![t] = "connected2?"]
              /\ UNCHANGED table
    /\ UNCHANGED <<lockVars, objects, cred, callVars>>

\* "recheck if we have a connection" now that the lock is held
MustOpen_NoRecheck(o) == TRUE

MustOpen(o) == ~Connected(o)

EnterConnect(t) ==
    /\ pc[t] = "connect"
    /\ stateLock[obj[t]] = None
    /\ IF MustOpen(obj[t])
         THEN /\ pc' = [pc EXCEPT ![t] = "open"]
              /\ stateLock' = [stateLock EXCEPT ![obj[t]] = t]
         ELSE /\ pc' = [pc EXCEPT ![t] = "connected2?"]
              /\ UNCHANGED stateLock
    /\ UNCHANGED <<lockVars, objectVars, handle, linkVars, callVars>>

\* __connect_tcp, __connect_ssh and __connect_tls
Open(t) ==
    /\ Goto(t, "open", "register")
    /\ opened < MaxHandles
    /\ opened' = opened + 1
    /\ alive' = alive \union {opened + 1}
    /\ handle' = [handle EXCEPT ![obj[t]] = opened + 1]
    /\ UNCHANGED <<lockVars, objectVars, stateLock, callbacks, closing, callVars>>

OpenFails(t) ==
    /\ pc[t] = "open"
    /\ handle' = [handle EXCEPT ![obj[t]] = None]
    /\ Leave(t)
    /\ UNCHANGED linkVars

\* The callback is not registered when the link is down again already, when
\* the driver rejects keepalives, or when the libvirt binding is too old.
Register(t) ==
    /\ pc[t] = "register"
    /\ \/ UNCHANGED callbacks
       \/ /\ Connected(obj[t])
          /\ callbacks' = callbacks \union {<<obj[t], handle[obj[t]]>>}
    /\ Leave(t)
    /\ UNCHANGED <<handle, opened, alive, closing>>

(***************************************************************************)
(* The unlocked tests of `connected' and the unlocked return.  `connected' *)
(* reads the attribute twice; the handle may be gone at the second read.   *)
(***************************************************************************)
NotConnected(t) ==
    IF pc[t] \in {"connected?", "isAlive?"}
    THEN pc' = [pc EXCEPT ![t] = "connect"] /\ UNCHANGED result
    ELSE Finish(t, Outcome("libvirtError", None))

TestNotNone(t) ==
    /\ pc[t] \in {"connected?", "connected2?"}
    /\ IF handle[obj[t]] = None
         THEN NotConnected(t)
         ELSE /\ pc' = [pc EXCEPT ![t] = IF @ = "connected?" THEN "isAlive?"
                                         ELSE "isAlive2?"]
              /\ UNCHANGED result
    /\ UNCHANGED <<lockVars, objectVars, handle, stateLock, linkVars, wanted, obj>>

TestAlive(t) ==
    /\ pc[t] \in {"isAlive?", "isAlive2?"}
    /\ IF handle[obj[t]] = None THEN Finish(t, Outcome("AttributeError", None))
       ELSE IF ~Connected(obj[t]) THEN NotConnected(t)
       ELSE /\ pc' = [pc EXCEPT ![t] = IF @ = "isAlive?" THEN "connected2?"
                                       ELSE "return"]
            /\ UNCHANGED result
    /\ UNCHANGED <<lockVars, objectVars, handle, stateLock, linkVars, wanted, obj>>

Return(t) ==
    /\ pc[t] = "return"
    /\ Finish(t, Outcome("returned", handle[obj[t]]))
    /\ UNCHANGED <<lockVars, objectVars, handle, stateLock, linkVars, wanted, obj>>

(***************************************************************************)
(* The hypervisor drops a link; later the event loop runs the callback,    *)
(* which forgets whatever handle the object has then.                      *)
(***************************************************************************)
LinkDown(h) ==
    /\ h \in alive
    /\ alive' = alive \ {h}
    /\ closing' = closing \union {c \in callbacks : c[2] = h}
    /\ UNCHANGED <<lockVars, objectVars, handle, stateLock, opened, callbacks,
                   pc, callVars>>

CloseCallback(o, h) ==
    /\ <<o, h>> \in closing
    /\ stateLock[o] = None
    /\ handle' = [handle EXCEPT ![o] = None]
    /\ closing' = closing \ {<<o, h>>}
    /\ UNCHANGED <<lockVars, objectVars, stateLock, opened, alive, callbacks,
                   pc, callVars>>

-----------------------------------------------------------------------------
\* get_connection after it was called, up to its return.
Step(t) ==
    \/ AcquireRead(t) \/ Search(t) \/ AcquireWrite(t)
    \/ Create(t) \/ CreateFails(t) \/ ReleaseWrite(t)
    \/ EnterConnect(t) \/ Open(t) \/ OpenFails(t) \/ Register(t)
    \/ TestNotNone(t) \/ TestAlive(t) \/ Return(t)

EventLoop == \E o \in Objects, h \in Handles : CloseCallback(o, h)

Next ==
    \/ \E t \in Threads, c \in Credentials : Call(t, c)
    \/ \E t \in Threads : Step(t)
    \/ \E h \in Handles : LinkDown(h)
    \/ EventLoop

Spec == Init /\ [][Next]_vars

\* Threads and the event loop keep running; libvirt's open returns.  The table
\* lock serves a waiting writer however many readers come (WriterGranted of
\* RWLock), and threading.Lock does not starve a thread.
Fairness ==
    /\ WF_vars(EventLoop)
    /\ \A t \in Threads : /\ WF_vars(Step(t))
                          /\ SF_vars(AcquireWrite(t))
                          /\ SF_vars(EnterConnect(t))

FairSpec == Spec /\ Fairness

-----------------------------------------------------------------------------
PCs == {"idle", "acquireRead", "search", "acquireWrite", "create", "release",
        "connected?", "isAlive?", "connect", "open", "register", "connected2?",
        "isAlive2?", "return"}

Outcomes == {Outcome("returned", h) : h \in Handles \union {None}} \union
            {Outcome(k, None) : k \in {"none", "ValueError", "libvirtError",
                                       "AttributeError"}}

TypeOK ==
    /\ held \in [Threads -> [mode: {"none", "read", "write"}, depth: 0..2]]
    /\ objects \in 0..MaxObjects
    /\ table \subseteq 1..objects
    /\ cred \in [Objects -> Credentials \union {None}]
    /\ handle \in [Objects -> Handles \union {None}]
    /\ stateLock \in [Objects -> Threads \union {None}]
    /\ opened \in 0..MaxHandles
    /\ alive \subseteq 1..opened
    /\ callbacks \subseteq Objects \X Handles
    /\ closing \subseteq callbacks
    /\ pc \in [Threads -> PCs]
    /\ wanted \in [Threads -> Credentials \union {None}]
    /\ obj \in [Threads -> Objects \union {None}]
    /\ result \in [Threads -> Outcomes]

\* All threads share one connection object per credentials (get_connection:
\* "the thread previously holding the write lock may have already added our
\* connection").
UniqueObject ==
    \A o, p \in table : cred[o] = cred[p] => o = p

\* Whatever way get_connection ends, also through an exception, the thread has
\* given the table lock back.
NoLockLeftHeld == \A t \in Threads : pc[t] = "idle" => held[t] = Lock!Idle

\* Threads that find the link down reconnect one at a time, and the later ones
\* keep what the first has opened: connect() never replaces a live connection.
ReconnectOnce ==
    [][\A o \in Objects : handle[o] \in alive => handle'[o] \in {handle[o], None}]_vars

\* Every call of get_connection returns or raises: the table lock, the object's
\* lock and the event loop never wait for each other in a circle.  Calls for an
\* unsupported type take the write lock every time; a reader can be held up by
\* them for as long as they keep coming, because writers are preferred.
CallReturns ==
    <>[](\A t \in Threads : wanted[t] \notin Unsupported) =>
        \A t \in Threads : pc[t] # "idle" ~> pc[t] = "idle"

\* get_connection "returns a connection object (as returned by the
\* libvirt.open* methods)": never None.
ReturnsConnection ==
    \A t \in Threads : result[t].kind = "returned" => result[t].handle # None

\* The close callback prevents "other threads from using the connection" that
\* was closed; a connection that is up is never thrown away.
LiveConnectionKept ==
    [][\A o \in Objects : handle[o] \in alive => handle'[o] = handle[o]]_vars
=============================================================================
