------------------------- MODULE MachinePageProofs -------------------------
(***************************************************************************)
(* Proofs about a machine's page.  The console tab: a page that was left   *)
(* is quiet, and one that is watched goes on trying, for any number of     *)
(* visits, failures and timers.  The power tab: what is shown when all is  *)
(* settled is real, for any number of clicks, handlers and late answers.   *)
(***************************************************************************)
EXTENDS MachinePage, SequenceTheorems, TLAPS

Up == {"connect", "ProtocolVersion", "password", "normal"}

RfbStates == Up \union {"loaded", "disconnect", "disconnected", "failed"}

Sockets == Live \union {"none", "closing"}

TabType ==
    /\ rfb \in 0 .. MaxVisits
    /\ connectLoop \in BOOLEAN
    /\ connectLoop => rfb > 0
    /\ rfbState \in [Objects -> RfbStates]
    /\ socket \in [Objects -> Sockets]
    /\ stale \in [Objects -> Nat]
    /\ fresh \in [Objects -> Nat]
    /\ due \in Nat

\* An object without a connection has no live socket.
Closed == \A o \in Objects : rfbState[o] \notin Up => socket[o] \notin Live

\* What is connected or connecting is being watched, or was replaced.
Known ==
    \A o \in Objects : rfbState[o] \in Up => (o = rfb /\ connectLoop) \/ o \in abandoned

TabInv == TabType /\ Closed /\ Known /\ NeverStuck

LEMMA InitTab == ASSUME TabInit PROVE TabInv
<1>1. MaxVisits \in Nat
  BY TabAssumption
<1>2. rfb = 0 /\ connectLoop = FALSE /\ due = 0
  BY DEF TabInit
<1>3. /\ rfbState \in [Objects -> RfbStates]
      /\ socket \in [Objects -> Sockets]
      /\ stale \in [Objects -> Nat]
      /\ fresh \in [Objects -> Nat]
  BY DEF TabInit, RfbStates, Sockets
<1>4. TabType
  <2>1. rfb \in 0 .. MaxVisits /\ due \in Nat
    BY <1>1, <1>2
  <2>2. connectLoop \in BOOLEAN /\ ~connectLoop
    BY <1>2
  <2> QED BY <1>3, <2>1, <2>2, Zenon DEF TabType
<1>5. Closed
  BY DEF TabInit, Closed, Live
<1>6. Known
  BY DEF TabInit, Known, Up
<1> QED
  BY <1>2, <1>4, <1>5, <1>6 DEF TabInv, NeverStuck

\* The page's object is an object.
LEMMA RfbIsObject == ASSUME TabType, rfb > 0 PROVE rfb \in Objects
BY TabAssumption DEF TabType, Objects

LEMMA ClosingType ==
    ASSUME NEW s \in Sockets
    PROVE  Closing(s) \in Sockets /\ Closing(s) \notin Live
BY DEF Closing, Sockets, Live

\* An object goes down: its socket is closed, and another one's is not touched.
LEMMA EnterDown ==
    ASSUME TabType, Closed, NEW o \in Objects, NEW s \in Sockets,
           NEW state \in RfbStates \ Up, Enter(o, state, s)
    PROVE  /\ rfbState' \in [Objects -> RfbStates]
           /\ socket' \in [Objects -> Sockets]
           /\ Closed'
           /\ rfbState'[o] = state
           /\ \A p \in Objects \ {o} : rfbState'[p] = rfbState[p]
<1>1. Closing(s) \in Sockets /\ Closing(s) \notin Live
  BY ClosingType
<1> QED
  BY <1>1 DEF TabType, Closed, Enter

\* A failed object keeps the page trying.
LEMMA FailInv ==
    ASSUME TabInv, NEW o \in Objects, NEW s \in Sockets, Fail(o, s),
           UNCHANGED <<due, rfb, connectLoop, abandoned>>, stale' \in [Objects -> Nat]
    PROVE  TabInv'
<1>1. /\ rfbState' \in [Objects -> RfbStates]
      /\ socket' \in [Objects -> Sockets]
      /\ Closed'
      /\ rfbState'[o] = "failed"
      /\ \A p \in Objects \ {o} : rfbState'[p] = rfbState[p]
  <2>1. "failed" \in RfbStates \ Up
    BY DEF RfbStates, Up
  <2>2. Enter(o, "failed", s)
    BY DEF Fail
  <2> QED BY <2>1, <2>2, EnterDown DEF TabInv
<1>2. /\ fresh' \in [Objects -> Nat]
      /\ fresh'[o] > 0
      /\ \A p \in Objects \ {o} : fresh'[p] = fresh[p]
  BY DEF Fail, RetryLater, TabInv, TabType
<1>3. TabType'
  BY <1>1, <1>2 DEF TabInv, TabType
<1>4. Known'
  BY <1>1 DEF TabInv, Known, Up
<1>5. NeverStuck'
  <2> SUFFICES ASSUME connectLoop
               PROVE  rfbState'[rfb] \in Up \/ due > 0 \/ fresh'[rfb] > 0
    BY DEF NeverStuck, Up
  <2>1. rfb \in Objects
    BY RfbIsObject DEF TabInv, TabType
  <2>2. CASE rfb = o
    BY <1>2, <2>2
  <2>3. CASE rfb # o
    BY <1>1, <1>2, <2>1, <2>3 DEF TabInv, NeverStuck, Up
  <2> QED BY <2>2, <2>3
<1> QED BY <1>1, <1>3, <1>4, <1>5 DEF TabInv

\* One that was disconnected leaves its timers as they are.
LEMMA DisconnectedInv ==
    ASSUME TabInv, NEW o \in Objects, NEW s \in Sockets, Enter(o, "disconnected", s),
           rfbState[o] \notin Up \/ due' > 0,
           fresh' \in [Objects -> Nat], due' \in Nat,
           fresh' = fresh \/ due' > 0, due' >= due,
           UNCHANGED <<rfb, connectLoop, abandoned>>, stale' \in [Objects -> Nat]
    PROVE  TabInv'
<1>1. /\ rfbState' \in [Objects -> RfbStates]
      /\ socket' \in [Objects -> Sockets]
      /\ Closed'
      /\ rfbState'[o] = "disconnected"
      /\ \A p \in Objects \ {o} : rfbState'[p] = rfbState[p]
  <2>1. "disconnected" \in RfbStates \ Up
    BY DEF RfbStates, Up
  <2> QED BY <2>1, EnterDown DEF TabInv
<1>2. TabType'
  BY <1>1 DEF TabInv, TabType
<1>3. Known'
  BY <1>1 DEF TabInv, Known, Up
<1>4. NeverStuck'
  <2> SUFFICES ASSUME connectLoop, ~(due' > 0)
               PROVE  rfbState'[rfb] \in Up \/ fresh'[rfb] > 0
    BY DEF NeverStuck, Up
  <2>1. rfb \in Objects
    BY RfbIsObject DEF TabInv, TabType
  <2>2. fresh' = fresh /\ ~(due > 0) /\ rfbState[o] \notin Up
    BY DEF TabInv, TabType
  <2>3. rfbState[rfb] \in Up \/ fresh[rfb] > 0
    BY <2>2 DEF TabInv, NeverStuck, Up
  <2> QED BY <1>1, <2>1, <2>2, <2>3
<1> QED BY <1>1, <1>2, <1>3, <1>4 DEF TabInv

\* What changes neither states nor timers, and makes no socket live.
LEMMA SocketInv ==
    ASSUME TabInv, UNCHANGED <<rfbState, fresh, due, rfb, connectLoop, abandoned>>,
           socket' \in [Objects -> Sockets], stale' \in [Objects -> Nat],
           \A o \in Objects : socket'[o] \in Live => socket[o] \in Live
    PROVE  TabInv'
<1>1. TabType' /\ Closed'
  BY DEF TabInv, TabType, Closed
<1> QED BY <1>1 DEF TabInv, Known, NeverStuck

LEMMA OnCloseInv ==
    ASSUME TabInv, NEW o \in Objects, NEW s \in Sockets, s = "none" \/ s = socket[o],
           OnClose(o, s), UNCHANGED <<due, rfb, connectLoop, abandoned>>,
           stale' \in [Objects -> Nat]
    PROVE  TabInv'
<1>1. CASE rfbState[o] = "disconnect"
  <2>1. Enter(o, "disconnected", s) /\ fresh' = fresh /\ rfbState[o] \notin Up
    BY <1>1 DEF OnClose, Up
  <2> QED BY <2>1, DisconnectedInv DEF TabInv, TabType
<1>2. CASE rfbState[o] \in {"failed", "disconnected"}
  <2>1. socket' = [socket EXCEPT ![o] = s] /\ UNCHANGED <<rfbState, fresh>>
    BY <1>2 DEF OnClose
  <2>2. \A p \in Objects : socket'[p] \in Live => socket[p] \in Live
    BY <2>1 DEF TabInv, TabType, Live
  <2>3. socket' \in [Objects -> Sockets]
    BY <2>1 DEF TabInv, TabType
  <2> QED BY <2>1, <2>2, <2>3, SocketInv
<1>3. CASE rfbState[o] \notin {"disconnect", "failed", "disconnected"}
  <2>1. Fail(o, s)
    BY <1>3 DEF OnClose
  <2> QED BY <2>1, FailInv
<1> QED BY <1>1, <1>2, <1>3

\* The page connects.
LEMMA ConnectInv ==
    ASSUME TabInv, rfb' \in 1 .. MaxVisits, connectLoop', Connect(rfb'),
           connectLoop' \in BOOLEAN, due' \in Nat, UNCHANGED fresh,
           abandoned \subseteq abandoned', connectLoop => rfb' = rfb \/ rfb \in abandoned'
    PROVE  TabInv'
<1>1. rfb' \in Objects
  BY DEF Objects
<1>2. /\ rfbState' \in [Objects -> RfbStates]
      /\ socket' \in [Objects -> Sockets]
      /\ stale' \in [Objects -> Nat]
      /\ rfbState'[rfb'] = "connect"
      /\ \A o \in Objects \ {rfb'} : rfbState'[o] = rfbState[o]
  BY <1>1 DEF TabInv, TabType, Connect, RfbStates, Sockets, Up, Live
<1>3. Closed'
  BY <1>1 DEF TabInv, TabType, Closed, Connect, Up, Live
<1>4. TabType'
  BY <1>2, TabAssumption DEF TabInv, TabType
<1>5. Known' /\ NeverStuck'
  BY <1>2 DEF TabInv, Known, NeverStuck
<1> QED BY <1>3, <1>4, <1>5 DEF TabInv

LEMMA UserInv == ASSUME TabInv, User PROVE TabInv'
<1>1. CASE ClickConsole
  <2>1. rfb' \in 1 .. MaxVisits /\ connectLoop' = TRUE /\ Connect(rfb')
    BY <1>1, TabAssumption DEF ClickConsole, TabInv, TabType
  <2>2. due' \in Nat /\ UNCHANGED fresh
    BY <1>1 DEF ClickConsole, TabInv, TabType
  <2>3. abandoned \subseteq abandoned' /\ (connectLoop => rfb \in abandoned')
    BY <1>1 DEF ClickConsole
  <2> QED BY <2>1, <2>2, <2>3, ConnectInv
<1>2. CASE ClickOtherTab
  <2>1. rfb > 0 /\ rfb \in Objects
    BY <1>2, RfbIsObject DEF ClickOtherTab, TabInv
  <2>2. /\ rfbState' \in [Objects -> RfbStates]
        /\ socket' \in [Objects -> Sockets]
        /\ Closed'
        /\ rfbState'[rfb] = "disconnect"
        /\ \A o \in Objects \ {rfb} : rfbState'[o] = rfbState[o]
    <3>1. CASE rfbState[rfb] = "disconnect"
      BY <1>2, <3>1 DEF ClickOtherTab, TabInv, TabType, Closed
    <3>2. CASE rfbState[rfb] # "disconnect"
      <4>1. Enter(rfb, "disconnect", socket[rfb])
        BY <1>2, <3>2 DEF ClickOtherTab
      <4>2. "disconnect" \in RfbStates \ Up /\ socket[rfb] \in Sockets
        BY <2>1 DEF RfbStates, Up, TabInv, TabType
      <4> QED BY <2>1, <4>1, <4>2, EnterDown DEF TabInv
    <3> QED BY <3>1, <3>2
  <2>3. connectLoop' = FALSE /\ UNCHANGED <<rfb, stale, fresh, due, abandoned>>
    BY <1>2 DEF ClickOtherTab, historyVars
  <2>4. TabType'
    BY <2>2, <2>3 DEF TabInv, TabType
  <2> QED BY <2>2, <2>3, <2>4 DEF TabInv, Known, NeverStuck, Up
<1>3. CASE ClickHardReset
  BY <1>3, SocketInv DEF ClickHardReset, objectVars, historyVars, TabInv, TabType
<1> QED BY <1>1, <1>2, <1>3 DEF User

LEMMA TimersInv == ASSUME TabInv, Timers PROVE TabInv'
<1>1. ASSUME NEW o \in Objects, DisconnectTimeout(o) PROVE TabInv'
  <2>1. socket[o] \in Sockets /\ stale' \in [Objects -> Nat]
    BY <1>1 DEF DisconnectTimeout, TabInv, TabType
  <2> QED BY <1>1, <2>1, FailInv DEF DisconnectTimeout, historyVars
<1>2. ASSUME NEW o \in Objects, MakeDisconnected(o) PROVE TabInv'
  <2>1. /\ fresh' \in [Objects -> Nat] /\ due' \in Nat /\ due' > 0 /\ due' >= due
        /\ stale' \in [Objects -> Nat] /\ UNCHANGED <<rfb, connectLoop, abandoned>>
    BY <1>2 DEF MakeDisconnected, NowDue, TabInv, TabType, pageVars, historyVars
  <2>2. CASE rfbState[o] \in {"failed", "disconnected"}
    <3>1. UNCHANGED <<rfbState, socket>>
      BY <1>2, <2>2 DEF MakeDisconnected
    <3>2. TabType' /\ Closed' /\ Known'
      BY <2>1, <3>1 DEF TabInv, TabType, Closed, Known
    <3> QED BY <2>1, <3>2 DEF TabInv, NeverStuck
  <2>3. CASE rfbState[o] \notin {"failed", "disconnected"}
    <3>1. Enter(o, "disconnected", socket[o])
      BY <1>2, <2>3 DEF MakeDisconnected
    <3>2. socket[o] \in Sockets
      BY DEF TabInv, TabType
    <3> QED BY <2>1, <3>1, <3>2, DisconnectedInv
  <2> QED BY <2>2, <2>3
<1>3. CASE Retry
  <2>1. due' \in Nat /\ UNCHANGED <<fresh, rfb, connectLoop, abandoned>>
    BY <1>3 DEF Retry, TabInv, TabType, pageVars
  <2>2. CASE MayConnect /\ rfbState[rfb] # "connect"
    <3>1. Connect(rfb) /\ connectLoop
      BY <1>3, <2>2 DEF Retry, MayConnect
    <3>2. rfb' \in 1 .. MaxVisits /\ Connect(rfb')
      BY <2>1, <3>1 DEF TabInv, TabType
    <3>3. connectLoop' /\ connectLoop' \in BOOLEAN
      BY <2>1, <3>1 DEF TabInv, TabType
    <3> QED BY <2>1, <3>2, <3>3, ConnectInv
  <2>3. CASE ~(MayConnect /\ rfbState[rfb] # "connect")
    <3>1. UNCHANGED <<rfbState, socket, stale>>
      BY <1>3, <2>3 DEF Retry
    <3>2. TabType' /\ Closed' /\ Known'
      BY <2>1, <3>1 DEF TabInv, TabType, Closed, Known
    <3>3. connectLoop => rfbState[rfb] = "connect"
      BY <2>3 DEF MayConnect
    <3> QED BY <2>1, <3>1, <3>2, <3>3 DEF TabInv, NeverStuck
  <2> QED BY <2>2, <2>3
<1> QED BY <1>1, <1>2, <1>3 DEF Timers

\* A connection that makes progress stays up.
LEMMA ProgressInv ==
    ASSUME TabInv, NEW o \in Objects, NEW state \in Up, NEW s \in Sockets,
           rfbState[o] \in Up,
           rfbState' = [rfbState EXCEPT ![o] = state],
           socket' = [socket EXCEPT ![o] = s],
           UNCHANGED <<stale, fresh, due, rfb, connectLoop, abandoned>>
    PROVE  TabInv'
<1>1. /\ rfbState' \in [Objects -> RfbStates]
      /\ socket' \in [Objects -> Sockets]
      /\ rfbState'[o] = state
      /\ \A p \in Objects \ {o} : rfbState'[p] = rfbState[p] /\ socket'[p] = socket[p]
  BY DEF TabInv, TabType, RfbStates
<1>2. TabType' /\ Closed'
  BY <1>1 DEF TabInv, TabType, Closed
<1>3. rfb > 0 => (rfbState'[rfb] \in Up <=> rfbState[rfb] \in Up)
  BY <1>1, RfbIsObject DEF TabInv
<1>4. Known'
  BY <1>1 DEF TabInv, Known
<1>5. NeverStuck'
  BY <1>3 DEF TabInv, TabType, NeverStuck, Up
<1> QED BY <1>2, <1>4, <1>5 DEF TabInv

LEMMA EventsInv == ASSUME TabInv, Events PROVE TabInv'
<1>1. ASSUME NEW o \in Objects, Open(o) PROVE TabInv'
  <2>1. rfbState[o] \in Up
    BY <1>1 DEF Open, TabInv, Closed, Live
  <2>2. PICK s \in {"alive", "dead"} : socket' = [socket EXCEPT ![o] = s]
    BY <1>1 DEF Open
  <2>3. s \in Sockets /\ "ProtocolVersion" \in Up
    BY <2>2 DEF Sockets, Live, Up
  <2> QED BY <1>1, <2>1, <2>2, <2>3, ProgressInv DEF Open, pageVars, historyVars
<1>2. ASSUME NEW o \in Objects, BecomeNormal(o) PROVE TabInv'
  <2>1. rfbState[o] \in Up /\ socket[o] \in Sockets /\ "normal" \in Up
    BY <1>2 DEF BecomeNormal, Up, TabInv, TabType
  <2>2. socket' = [socket EXCEPT ![o] = socket[o]]
    BY <1>2 DEF BecomeNormal, TabInv, TabType
  <2> QED BY <1>2, <2>1, <2>2, ProgressInv DEF BecomeNormal, historyVars
<1>3. ASSUME NEW o \in Objects, CloseEvent(o) PROVE TabInv'
  <2>1. "none" \in Sockets /\ stale' \in [Objects -> Nat]
    BY <1>3 DEF CloseEvent, Sockets, TabInv, TabType
  <2> QED BY <1>3, <2>1, OnCloseInv DEF CloseEvent, historyVars
<1>4. ASSUME NEW o \in Objects, StaleCloseEvent(o) PROVE TabInv'
  <2>1. socket[o] \in Sockets /\ stale' \in [Objects -> Nat]
    BY <1>4 DEF StaleCloseEvent, TabInv, TabType
  <2> QED BY <1>4, <2>1, OnCloseInv DEF StaleCloseEvent, historyVars
<1>5. ASSUME NEW o \in Objects, AskPassword(o) PROVE TabInv'
  <2>1. rfbState[o] \in Up /\ socket[o] \in Sockets /\ "password" \in Up
    BY <1>5 DEF AskPassword, Up, TabInv, TabType
  <2>2. socket' = [socket EXCEPT ![o] = socket[o]]
    BY <1>5 DEF AskPassword, TabInv, TabType
  <2> QED BY <1>5, <2>1, <2>2, ProgressInv DEF AskPassword, pageVars, historyVars
<1>6. ASSUME NEW o \in Objects, RefuseServer(o) \/ RefuseMessage(o) PROVE TabInv'
  <2>1. GiveUp(o) /\ socket[o] \in Sockets /\ stale \in [Objects -> Nat]
    BY <1>6 DEF RefuseServer, RefuseMessage, TabInv, TabType
  <2> QED BY <2>1, FailInv DEF GiveUp, historyVars
<1> QED BY <1>1, <1>2, <1>3, <1>4, <1>5, <1>6 DEF Events, Handshake

LEMMA DropInv == ASSUME TabInv, NEW o \in Objects, Drop(o) PROVE TabInv'
<1>1. /\ UNCHANGED <<rfbState, stale, fresh, due, rfb, connectLoop, abandoned>>
      /\ socket[o] \in Live /\ socket' = [socket EXCEPT ![o] = "dead"]
  BY DEF Drop, pageVars, historyVars, Live
<1>2. /\ socket' \in [Objects -> Sockets]
      /\ \A p \in Objects : socket'[p] \in Live => socket[p] \in Live
  BY <1>1 DEF TabInv, TabType, Sockets, Live
<1> QED BY <1>1, <1>2, SocketInv DEF TabInv, TabType

LEMMA FollowInv == ASSUME TabInv, NEW up \in BOOLEAN, Follow(up) PROVE TabInv'
<1>1. UNCHANGED <<rfbState, stale, fresh, due, rfb, connectLoop, abandoned>>
  BY DEF Follow, pageVars, historyVars
<1>2. /\ socket' \in [Objects -> Sockets]
      /\ \A p \in Objects : socket'[p] \in Live => socket[p] \in Live
  BY DEF Follow, TabInv, TabType, Sockets, Live
<1> QED BY <1>1, <1>2, SocketInv DEF TabInv, TabType

LEMMA TabInvHolds == TabSpec => []TabInv
<1>1. TabInv /\ [TabNext \/ \E up \in BOOLEAN : Follow(up)]_tabVars => TabInv'
  <2>1. ASSUME TabInv, UNCHANGED tabVars PROVE TabInv'
    BY <2>1, SocketInv DEF tabVars, objectVars, pageVars, historyVars, TabInv, TabType
  <2> QED BY <2>1, UserInv, TimersInv, EventsInv, DropInv, FollowInv DEF TabNext
<1> QED BY <1>1, InitTab, PTL DEF TabSpec

\* AwayIsQuiet for every number of visits: what ends a connection closes its
\* socket, leaving the page ends that of its object, and only a watched page
\* connects.
THEOREM LeftIsQuiet == TabSpec => []AwayIsQuiet
<1>1. TabInv => AwayIsQuiet
  BY DEF TabInv, Known, Closed, AwayIsQuiet
<1> QED BY <1>1, TabInvHolds, PTL

\* NeverStuck for every number of visits: a failure starts the timer whose
\* end starts the retry.
THEOREM WatchedIsTried == TabSpec => []NeverStuck
<1>1. TabInv => NeverStuck
  BY DEF TabInv
<1> QED BY <1>1, TabInvHolds, PTL

(***************************************************************************)
(* A live console.  In a visit that began when all was quiet, and whose    *)
(* retries found the earlier sockets closed, at most one retry is under    *)
(* way, and it is the newest object's.                                     *)
(***************************************************************************)
Down == {"disconnected", "failed"}

\* A connection has a socket, and is no further than the socket.
Fits ==
    \A o \in Objects : /\ rfbState[o] \in Up => socket[o] \in Live
                       /\ socket[o] = "connecting" => rfbState[o] = "connect"

Unused ==
    \A o \in Objects :
        o > rfb => rfbState[o] = "loaded" /\ socket[o] = "none" /\ stale[o] = 0 /\ fresh[o] = 0

Before == \A o \in Objects : o < rfb => rfbState[o] \in Down /\ fresh[o] = 0

Left == rfb > 0 /\ ~connectLoop => rfbState[rfb] \in Down \union {"disconnect"}

Watched ==
    connectLoop =>
        /\ stale[rfb] = 0
        /\ IF rfbState[rfb] \in Up
             THEN due = 0 /\ fresh[rfb] = 0
             ELSE /\ rfbState[rfb] = "failed"
                  /\ socket[rfb] \in {"none", "closing"}
                  /\ due + fresh[rfb] <= 1

Calm == ~hasty => Before /\ Left /\ Watched

KeptInv == TabInv /\ Fits /\ Unused /\ Calm

LEMMA InitKept == ASSUME TabInit PROVE KeptInv
<1>1. Fits
  BY DEF TabInit, Fits, Up, Live
<1>2. Unused
  BY DEF TabInit, Unused
<1>3. Before /\ Left /\ Watched
  BY DEF TabInit, Before, Left, Watched, Objects
<1> QED BY <1>1, <1>2, <1>3, InitTab DEF KeptInv, Calm

\* A click connects an object that was not used.
LEMMA ClickConsoleKept ==
    ASSUME KeptInv, ClickConsole
    PROVE  Fits' /\ Unused' /\ Calm'
<1> DEFINE n == rfb + 1
<1>1. n \in Objects /\ rfb \in Nat /\ rfb' = n
  BY TabAssumption DEF ClickConsole, KeptInv, TabInv, TabType, Objects
<1>2. n > rfb /\ \A o \in Objects : o < n <=> o < rfb \/ o = rfb
  BY <1>1 DEF Objects
<1>3. socket[n] = "none" /\ stale[n] = 0 /\ fresh[n] = 0
  BY <1>1, <1>2 DEF KeptInv, Unused
<1>4. Connect(n) /\ fresh' = fresh /\ due' = due /\ connectLoop' = TRUE
  BY DEF ClickConsole
<1> HIDE DEF n
<1>5. /\ rfbState'[n] = "connect" /\ socket'[n] = "connecting" /\ stale'[n] = 0
      /\ \A o \in Objects \ {n} : /\ rfbState'[o] = rfbState[o] /\ socket'[o] = socket[o]
                                  /\ stale'[o] = stale[o]
  BY <1>1, <1>3, <1>4 DEF Connect, KeptInv, TabInv, TabType
<1>6. Fits'
  BY <1>5 DEF Fits, KeptInv, Up, Live
<1>7. Unused'
  BY <1>1, <1>2, <1>4, <1>5 DEF Unused, KeptInv, Objects
<1>8. ASSUME ~hasty' PROVE Before' /\ Left' /\ Watched'
  <2>1. Quiet
    BY <1>8 DEF ClickConsole
  <2>2. ASSUME NEW o \in Objects, o < n PROVE rfbState'[o] \in Down /\ fresh'[o] = 0
    <3>1. o # n /\ fresh[o] = 0 /\ rfbState[o] \in Down
      BY <1>1, <1>2, <2>1, <2>2 DEF Quiet, Down, Objects
    <3> QED BY <1>4, <1>5, <3>1
  <2>3. Before'
    BY <1>1, <2>2 DEF Before
  <2>4. Left' /\ Watched'
    BY <1>1, <1>3, <1>4, <1>5, <2>1 DEF Left, Watched, Up, Quiet
  <2> QED BY <2>3, <2>4
<1> QED BY <1>6, <1>7, <1>8 DEF Calm

\* An object that is not connected goes down, or one that is is left.
LEMMA LeaveKept ==
    ASSUME KeptInv, ClickOtherTab
    PROVE  Fits' /\ Unused' /\ Calm'
<1>1. rfb > 0 /\ rfb \in Objects
  BY RfbIsObject DEF ClickOtherTab, KeptInv, TabInv
<1>2. connectLoop' = FALSE /\ UNCHANGED <<rfb, stale, fresh, due, hasty>>
  BY DEF ClickOtherTab, historyVars
<1>3. /\ rfbState'[rfb] = "disconnect" /\ socket'[rfb] \notin Live
      /\ \A o \in Objects \ {rfb} : rfbState'[o] = rfbState[o] /\ socket'[o] = socket[o]
  <2>1. CASE rfbState[rfb] = "disconnect"
    BY <1>1, <2>1 DEF ClickOtherTab, KeptInv, TabInv, TabType, Closed, Up
  <2>2. CASE rfbState[rfb] # "disconnect"
    BY <1>1, <2>2, ClosingType DEF ClickOtherTab, Enter, KeptInv, TabInv, TabType
  <2> QED BY <2>1, <2>2
<1>4. Fits'
  BY <1>3 DEF Fits, KeptInv, Up, Live
<1>5. Unused'
  BY <1>1, <1>2, <1>3 DEF Unused, KeptInv, Objects
<1>6. Calm'
  BY <1>1, <1>2, <1>3 DEF Calm, KeptInv, Before, Left, Watched, Objects
<1> QED BY <1>4, <1>5, <1>6

\* Where the objects are that something happens to.
LEMMA Whose ==
    ASSUME KeptInv, ~hasty, NEW o \in Objects
    PROVE  /\ connectLoop /\ fresh[o] > 0 => o = rfb /\ rfbState[o] = "failed"
           /\ connectLoop => rfbState[o] # "disconnect"
           /\ connectLoop /\ rfbState[o] \in Up => o = rfb
           /\ ~connectLoop => rfbState[o] \notin Up
<1>1. o \in Nat /\ rfb \in Nat /\ fresh[o] \in Nat
  BY DEF Objects, KeptInv, TabInv, TabType
<1>2. Before /\ Left /\ Watched /\ Unused
  BY DEF KeptInv, Calm
<1>3. CASE o < rfb
  BY <1>1, <1>2, <1>3 DEF Before, Down, Up
<1>4. CASE o > rfb
  BY <1>1, <1>2, <1>4 DEF Unused, Up
<1>5. CASE o = rfb
  BY <1>1, <1>2, <1>5 DEF Left, Watched, Down, Up, Objects
<1> QED BY <1>1, <1>3, <1>4, <1>5

\* An object goes down, its page being left.
LEMMA GoneDownKept ==
    ASSUME KeptInv, NEW o \in Objects, ~(o > rfb),
           NEW state \in Down, NEW s \in Sockets, Enter(o, state, s),
           UNCHANGED <<rfb, connectLoop, hasty>>,
           hasty \/ ~connectLoop,
           stale' \in [Objects -> Nat], \A p \in Objects : stale[p] = 0 => stale'[p] = 0,
           \A p \in Objects : fresh[p] = 0 =>
              fresh'[p] = 0 \/ (p = o /\ (hasty \/ o = rfb))
    PROVE  Fits' /\ Unused' /\ Calm'
<1>1. /\ rfbState'[o] = state /\ socket'[o] = Closing(s)
      /\ \A p \in Objects \ {o} : rfbState'[p] = rfbState[p] /\ socket'[p] = socket[p]
  BY DEF Enter, KeptInv, TabInv, TabType
<1>2. Closing(s) \notin Live
  BY ClosingType
<1>3. Fits'
  BY <1>1, <1>2 DEF Fits, KeptInv, Up, Down, Live
<1>4. o \in Nat /\ rfb \in Nat
  BY DEF KeptInv, Objects, TabInv, TabType
<1>5. Unused'
  BY <1>1, <1>4 DEF Unused, KeptInv, Objects
<1>6. ASSUME ~hasty PROVE Before' /\ Left' /\ Watched'
  <2>1. Before /\ Left /\ ~connectLoop
    BY <1>6 DEF KeptInv, Calm
  <2>2. Before'
    BY <1>1, <1>4, <1>6, <2>1 DEF Before, Objects
  <2>3. Left' /\ Watched'
    BY <1>1, <2>1, RfbIsObject DEF Left, Watched, KeptInv, TabInv
  <2> QED BY <2>2, <2>3
<1> QED BY <1>3, <1>5, <1>6 DEF Calm

\* The newest object fails with its socket closed or closing, and nothing else does.
LEMMA FailedKept ==
    ASSUME KeptInv, connectLoop, rfbState[rfb] \in Up, NEW s \in Sockets, Fail(rfb, s),
           UNCHANGED <<rfb, connectLoop, hasty, stale, due>>
    PROVE  Fits' /\ Unused' /\ Calm'
<1>1. rfb \in Objects /\ rfb \in Nat
  BY RfbIsObject DEF KeptInv, TabInv, TabType
<1>2. /\ rfbState'[rfb] = "failed" /\ socket'[rfb] \in {"none", "closing"}
      /\ fresh'[rfb] = fresh[rfb] + 1
      /\ \A p \in Objects \ {rfb} : /\ rfbState'[p] = rfbState[p] /\ socket'[p] = socket[p]
                                    /\ fresh'[p] = fresh[p]
  BY <1>1 DEF Fail, RetryLater, Enter, Closing, Live, Sockets, KeptInv, TabInv, TabType
<1>3. Fits'
  BY <1>2 DEF Fits, KeptInv, Up, Live
<1>4. Unused'
  BY <1>1, <1>2 DEF Unused, KeptInv, Objects
<1>5. ASSUME ~hasty PROVE Before' /\ Left' /\ Watched'
  <2>1. Before /\ Watched
    BY <1>5 DEF KeptInv, Calm
  <2>2. Before'
    BY <1>1, <1>2, <2>1 DEF Before, Objects
  <2>3. Left' /\ Watched'
    BY <1>1, <1>2, <2>1 DEF Left, Watched, Up
  <2> QED BY <2>2, <2>3
<1> QED BY <1>3, <1>4, <1>5 DEF Calm

\* What happens to an object in a hasty run is of no account.
LEMMA HastyKept ==
    ASSUME KeptInv, hasty, UNCHANGED <<rfb, hasty>>, NEW o \in Objects, ~(o > rfb),
           rfbState' \in [Objects -> RfbStates], socket' \in [Objects -> Sockets],
           \A p \in Objects \ {o} : /\ rfbState'[p] = rfbState[p] /\ socket'[p] = socket[p]
                                    /\ stale'[p] = stale[p] /\ fresh'[p] = fresh[p],
           rfbState'[o] \in Up => socket'[o] \in Live,
           socket'[o] = "connecting" => rfbState'[o] = "connect"
    PROVE  Fits' /\ Unused' /\ Calm'
<1>1. Fits'
  BY DEF Fits, KeptInv
<1>2. Unused'
  BY DEF Unused, KeptInv
<1> QED BY <1>1, <1>2 DEF Calm

LEMMA TimeoutKept ==
    ASSUME KeptInv, NEW o \in Objects, DisconnectTimeout(o)
    PROVE  Fits' /\ Unused' /\ Calm'
<1>1. ~(o > rfb) /\ (hasty \/ (~connectLoop /\ o = rfb))
  <2>1. ~(o > rfb)
    BY DEF DisconnectTimeout, KeptInv, Unused
  <2>2. ASSUME ~hasty PROVE ~connectLoop /\ o = rfb
    <3>1. ~connectLoop
      BY <2>2, Whose DEF DisconnectTimeout
    <3>2. ~(o < rfb)
      BY <2>2 DEF DisconnectTimeout, KeptInv, Calm, Before, Down
    <3> QED BY <2>1, <3>1, <3>2 DEF Objects, KeptInv, TabInv, TabType
  <2> QED BY <2>1, <2>2
<1>2. /\ Enter(o, "failed", socket[o]) /\ socket[o] \in Sockets
      /\ UNCHANGED <<rfb, connectLoop, hasty, stale>>
      /\ \A p \in Objects \ {o} : fresh'[p] = fresh[p]
      /\ stale \in [Objects -> Nat]
  BY DEF DisconnectTimeout, Fail, historyVars, KeptInv, TabInv, TabType
<1> QED BY <1>1, <1>2, GoneDownKept DEF Down

LEMMA MakeDisconnectedKept ==
    ASSUME KeptInv, NEW o \in Objects, MakeDisconnected(o)
    PROVE  Fits' /\ Unused' /\ Calm'
<1>1. /\ UNCHANGED <<rfb, connectLoop, hasty, stale>> /\ stale \in [Objects -> Nat]
      /\ fresh[o] \in Nat /\ fresh[o] > 0 /\ fresh'[o] = fresh[o] - 1
      /\ \A p \in Objects \ {o} : fresh'[p] = fresh[p]
      /\ due \in Nat /\ due' = due + 1
  BY DEF MakeDisconnected, NowDue, pageVars, historyVars, KeptInv, TabInv, TabType
<1>2. ~(o > rfb)
  BY <1>1 DEF KeptInv, Unused
<1>3. CASE rfbState[o] \in Down
  <2>1. UNCHANGED <<rfbState, socket>>
    BY <1>3 DEF MakeDisconnected, Down
  <2>2. Fits' /\ Unused'
    BY <1>1, <1>2, <2>1 DEF KeptInv, Fits, Unused
  <2>3. ASSUME ~hasty PROVE Before' /\ Left' /\ Watched'
    <3>1. Before /\ Left /\ Watched
      BY <2>3 DEF KeptInv, Calm
    <3>2. Before' /\ Left'
      BY <1>1, <2>1, <3>1 DEF Before, Left
    <3>3. Watched'
      <4>1. ASSUME connectLoop PROVE o = rfb /\ rfbState[o] = "failed"
        BY <1>1, <2>3, <4>1, Whose
      <4> QED BY <1>1, <2>1, <3>1, <4>1 DEF Watched, Up
    <3> QED BY <3>2, <3>3
  <2> QED BY <1>1, <2>2, <2>3 DEF Calm
<1>4. CASE rfbState[o] \notin Down
  <2>1. hasty \/ ~connectLoop
    BY <1>1, <1>4, Whose DEF Down
  <2>2. Enter(o, "disconnected", socket[o]) /\ socket[o] \in Sockets
    BY <1>4 DEF MakeDisconnected, Down, KeptInv, TabInv, TabType
  <2>3. \A p \in Objects : fresh[p] = 0 => fresh'[p] = 0
    BY <1>1
  <2> QED BY <1>1, <1>2, <2>1, <2>2, <2>3, GoneDownKept DEF Down
<1> QED BY <1>3, <1>4

LEMMA RetryKept ==
    ASSUME KeptInv, Retry
    PROVE  Fits' /\ Unused' /\ Calm'
<1>1. UNCHANGED <<rfb, connectLoop, fresh>> /\ due \in Nat /\ due > 0 /\ due' = due - 1
  BY DEF Retry, pageVars, KeptInv, TabInv, TabType
<1>2. ASSUME ~hasty, connectLoop
      PROVE  /\ rfbState[rfb] = "failed" /\ socket[rfb] \in {"none", "closing"}
             /\ stale[rfb] = 0 /\ due' = 0 /\ fresh[rfb] = 0
  <2>1. rfb \in Objects /\ fresh[rfb] \in Nat
    BY <1>2, RfbIsObject DEF KeptInv, TabInv, TabType
  <2> QED BY <1>1, <1>2, <2>1 DEF KeptInv, Calm, Watched
<1>3. CASE MayConnect /\ rfbState[rfb] # "connect"
  <2>1. Connect(rfb) /\ connectLoop
    BY <1>3 DEF Retry, MayConnect
  <2>2. rfb \in Objects
    BY <2>1, RfbIsObject DEF KeptInv, TabInv, TabType
  <2>3. /\ rfbState'[rfb] = "connect" /\ socket'[rfb] = "connecting"
        /\ socket[rfb] = "none" => stale'[rfb] = stale[rfb]
        /\ \A p \in Objects \ {rfb} : /\ rfbState'[p] = rfbState[p] /\ socket'[p] = socket[p]
                                      /\ stale'[p] = stale[p]
    BY <2>1, <2>2 DEF Connect, KeptInv, TabInv, TabType
  <2>4. Fits'
    BY <2>3 DEF Fits, KeptInv, Live
  <2>5. rfb \in Nat /\ Unused'
    BY <1>1, <2>2, <2>3 DEF Unused, KeptInv, Objects
  <2>6. ASSUME ~hasty' PROVE Before' /\ Left' /\ Watched'
    <3>1. ~hasty /\ socket[rfb] # "closing"
      BY <1>3, <2>6 DEF Retry, Slow
    <3>2. Before /\ socket[rfb] = "none"
      BY <1>2, <2>1, <3>1 DEF KeptInv, Calm
    <3>3. Before' /\ Left'
      BY <1>1, <2>1, <2>3, <2>5, <3>2 DEF Before, Left, Objects
    <3>4. Watched'
      BY <1>1, <1>2, <2>1, <2>3, <3>1, <3>2 DEF Watched, Up
    <3> QED BY <3>3, <3>4
  <2> QED BY <1>1, <2>4, <2>5, <2>6 DEF Calm
<1>4. CASE ~(MayConnect /\ rfbState[rfb] # "connect")
  <2>1. UNCHANGED <<rfbState, socket, stale, hasty>>
    BY <1>4 DEF Retry
  <2>2. Fits' /\ Unused'
    BY <1>1, <2>1 DEF KeptInv, Fits, Unused
  <2>3. hasty \/ ~connectLoop
    BY <1>2, <1>4 DEF MayConnect
  <2>4. Calm'
    BY <1>1, <2>1, <2>3 DEF KeptInv, Calm, Before, Left, Watched
  <2> QED BY <2>2, <2>4
<1> QED BY <1>3, <1>4

\* A connection that is opened and goes on is the newest one's ...
LEMMA ProgressKept ==
    ASSUME KeptInv, NEW o \in Objects, Open(o) \/ BecomeNormal(o) \/ AskPassword(o)
    PROVE  Fits' /\ Unused' /\ Calm'
<1>1. /\ UNCHANGED <<rfb, connectLoop, hasty, stale, fresh, due>>
      /\ rfbState[o] \in Up /\ rfbState'[o] \in Up /\ socket'[o] \in Live \ {"connecting"}
      /\ \A p \in Objects \ {o} : rfbState'[p] = rfbState[p] /\ socket'[p] = socket[p]
  <2>1. CASE Open(o)
    BY <2>1 DEF Open, KeptInv, TabInv, TabType, Fits, Up, Live, pageVars, historyVars
  <2>2. CASE BecomeNormal(o)
    BY <2>2 DEF BecomeNormal, KeptInv, TabInv, TabType, Up, Live, historyVars
  <2>3. CASE AskPassword(o)
    BY <2>3 DEF AskPassword, KeptInv, TabInv, TabType, Up, Live, pageVars, historyVars
  <2> QED BY <2>1, <2>2, <2>3
<1>2. Fits' /\ Unused'
  <2>1. ~(o > rfb)
    BY <1>1 DEF KeptInv, Unused, Up
  <2> QED BY <1>1, <2>1 DEF KeptInv, Fits, Unused
<1>3. ASSUME ~hasty PROVE Before' /\ Left' /\ Watched'
  <2>1. connectLoop /\ o = rfb
    BY <1>1, <1>3, Whose
  <2>2. Before /\ Watched /\ rfb \in Nat
    BY <1>3 DEF KeptInv, Calm, TabInv, TabType
  <2> QED BY <1>1, <2>1, <2>2 DEF Before, Left, Watched, Objects
<1> QED BY <1>1, <1>2, <1>3 DEF Calm

\* ... and so is one the client gives up.
LEMMA GiveUpKept ==
    ASSUME KeptInv, NEW o \in Objects, RefuseServer(o) \/ RefuseMessage(o)
    PROVE  Fits' /\ Unused' /\ Calm'
<1>1. rfbState[o] \in Up /\ socket[o] \in Sockets /\ Fail(o, socket[o])
  BY DEF RefuseServer, RefuseMessage, GiveUp, Up, KeptInv, TabInv, TabType
<1>2. UNCHANGED <<rfb, connectLoop, hasty, stale, due>>
  BY DEF RefuseServer, RefuseMessage, GiveUp, historyVars
<1>3. CASE hasty
  <2>1. ~(o > rfb)
    BY <1>1 DEF KeptInv, Unused, Up
  <2>2. /\ Enter(o, "failed", socket[o]) /\ stale \in [Objects -> Nat]
        /\ \A p \in Objects \ {o} : fresh'[p] = fresh[p]
    BY <1>1 DEF Fail, KeptInv, TabInv, TabType
  <2> QED BY <1>1, <1>2, <1>3, <2>1, <2>2, GoneDownKept DEF Down
<1>4. CASE ~hasty
  <2>1. connectLoop /\ o = rfb
    BY <1>1, <1>4, Whose
  <2> QED BY <1>1, <1>2, <2>1, FailedKept
<1> QED BY <1>3, <1>4

\* A close event that nothing follows from.
LEMMA IgnoredKept ==
    ASSUME KeptInv, NEW o \in Objects, rfbState[o] \in Down,
           socket' = [socket EXCEPT ![o] = "none"] \/ socket' = socket,
           stale' \in [Objects -> Nat], \A p \in Objects : stale[p] = 0 => stale'[p] = 0,
           UNCHANGED <<rfb, connectLoop, hasty, rfbState, fresh, due>>
    PROVE  Fits' /\ Unused' /\ Calm'
<1>1. /\ \A p \in Objects \ {o} : socket'[p] = socket[p]
      /\ socket'[o] \in {"none", socket[o]}
  BY DEF KeptInv, TabInv, TabType
<1>2. Fits'
  BY <1>1 DEF KeptInv, Fits, Down, Up
<1>3. Unused'
  BY <1>1 DEF KeptInv, Unused
<1>4. Calm'
  BY <1>1, RfbIsObject DEF KeptInv, Calm, Before, Left, Watched, TabInv, TabType
<1> QED BY <1>2, <1>3, <1>4

\* Either the run is hasty, or the object's page was left, or it ignores the
\* event, or it is the newest one's own socket.
LEMMA OnCloseKept ==
    ASSUME KeptInv, NEW o \in Objects, NEW s \in Sockets, OnClose(o, s), ~(o > rfb),
           s = "none" \/ s = socket[o],
           UNCHANGED <<rfb, connectLoop, hasty, due>>, stale' \in [Objects -> Nat],
           \A p \in Objects : stale[p] = 0 => stale'[p] = 0,
           hasty \/ rfbState[o] \in Down \/ ~connectLoop
             \/ (o = rfb /\ s = "none" /\ stale' = stale)
    PROVE  Fits' /\ Unused' /\ Calm'
<1>1. /\ o \in Nat /\ rfb \in Nat
      /\ ~hasty => Before /\ Left /\ Watched
  BY DEF KeptInv, Calm, TabInv, TabType, Objects
<1>2. CASE rfbState[o] \in Down
  <2>1. socket' = [socket EXCEPT ![o] = s] /\ UNCHANGED <<rfbState, fresh>>
    BY <1>2 DEF OnClose, Down
  <2>2. socket' = [socket EXCEPT ![o] = "none"] \/ socket' = socket
    BY <2>1 DEF KeptInv, TabInv, TabType
  <2> QED BY <1>2, <2>1, <2>2, IgnoredKept
<1>3. CASE rfbState[o] = "disconnect"
  <2>1. Enter(o, "disconnected", s) /\ fresh' = fresh
    BY <1>3 DEF OnClose
  <2>2. hasty \/ ~connectLoop
    BY <1>3, Whose
  <2> QED BY <2>1, <2>2, GoneDownKept DEF Down
<1>4. CASE rfbState[o] \notin Down \union {"disconnect"}
  <2>1. Fail(o, s)
    BY <1>4 DEF OnClose, Down
  <2>2. CASE hasty
    <3>1. Enter(o, "failed", s) /\ \A p \in Objects \ {o} : fresh'[p] = fresh[p]
      BY <2>1 DEF Fail, KeptInv, TabInv, TabType
    <3> QED BY <2>2, <3>1, GoneDownKept DEF Down
  <2>3. CASE ~hasty
    <3>1. o = rfb
      BY <1>1, <1>4, <2>3 DEF Before
    <3>2. connectLoop
      BY <1>1, <1>4, <2>3, <3>1 DEF Left, Objects
    <3>3. rfbState[rfb] \in Up /\ s = "none" /\ stale' = stale
      BY <1>1, <1>4, <2>3, <3>1, <3>2 DEF Watched, Down
    <3> QED BY <2>1, <3>1, <3>2, <3>3, FailedKept
  <2> QED BY <2>2, <2>3
<1> QED BY <1>2, <1>3, <1>4

LEMMA CloseEventsKept ==
    ASSUME KeptInv, NEW o \in Objects, CloseEvent(o) \/ StaleCloseEvent(o)
    PROVE  Fits' /\ Unused' /\ Calm'
<1>1. UNCHANGED <<rfb, connectLoop, hasty, due>>
  BY DEF CloseEvent, StaleCloseEvent, historyVars
<1>2. o \in Nat /\ rfb \in Nat
  BY DEF KeptInv, TabInv, TabType, Objects
<1>3. CASE CloseEvent(o)
  <2>1. ~(o > rfb)
    BY <1>3 DEF CloseEvent, KeptInv, Unused
  <2>2. /\ OnClose(o, "none") /\ stale' = stale /\ stale \in [Objects -> Nat]
        /\ "none" \in Sockets
    BY <1>3 DEF CloseEvent, Sockets, KeptInv, TabInv, TabType
  <2>3. hasty \/ rfbState[o] \in Down \/ o = rfb
    BY <1>2, <2>1 DEF KeptInv, Calm, Before
  <2> QED BY <1>1, <2>1, <2>2, <2>3, OnCloseKept
<1>4. CASE StaleCloseEvent(o)
  <2>1. ~(o > rfb)
    BY <1>4 DEF StaleCloseEvent, KeptInv, Unused
  <2>2. /\ OnClose(o, socket[o]) /\ socket[o] \in Sockets
        /\ stale' \in [Objects -> Nat] /\ stale[o] > 0
        /\ \A p \in Objects : stale[p] = 0 => stale'[p] = 0
    BY <1>4 DEF StaleCloseEvent, KeptInv, TabInv, TabType
  <2>3. hasty \/ rfbState[o] \in Down \/ ~connectLoop
    BY <1>2, <2>1, <2>2 DEF KeptInv, Calm, Before, Watched
  <2> QED BY <1>1, <2>1, <2>2, <2>3, OnCloseKept
<1> QED BY <1>3, <1>4

LEMMA SocketsKept ==
    ASSUME KeptInv, UNCHANGED <<rfbState, stale, fresh, due, rfb, connectLoop, hasty>>,
           \A o \in Objects : \/ socket'[o] = socket[o]
                              \/ socket[o] \in Live /\ socket'[o] = "dead"
    PROVE  Fits' /\ Unused' /\ Calm'
<1>1. Fits'
  BY DEF KeptInv, Fits, Live
<1>2. Unused'
  BY DEF KeptInv, Unused, Live
<1>3. Calm'
  BY RfbIsObject DEF KeptInv, Calm, Before, Left, Watched, Live, TabInv, TabType
<1> QED BY <1>1, <1>2, <1>3

LEMMA OthersKept ==
    ASSUME KeptInv,
           \/ ClickHardReset
           \/ \E o \in Objects : Drop(o)
           \/ \E up \in BOOLEAN : Follow(up)
           \/ UNCHANGED tabVars
    PROVE  Fits' /\ Unused' /\ Calm'
<1>1. UNCHANGED <<rfbState, stale, fresh, due, rfb, connectLoop, hasty>>
  BY DEF ClickHardReset, Drop, Follow, tabVars, objectVars, pageVars, historyVars
<1>2. CASE ClickHardReset \/ UNCHANGED tabVars
  BY <1>1, <1>2, SocketsKept DEF ClickHardReset, tabVars, objectVars
<1>3. ASSUME NEW o \in Objects, Drop(o) PROVE Fits' /\ Unused' /\ Calm'
  <2>1. \A p \in Objects : socket'[p] = socket[p] \/ (socket[p] \in Live /\ socket'[p] = "dead")
    BY <1>3 DEF Drop, Live, KeptInv, TabInv, TabType
  <2> QED BY <1>1, <2>1, SocketsKept
<1>4. ASSUME NEW up \in BOOLEAN, Follow(up) PROVE Fits' /\ Unused' /\ Calm'
  <2>1. \A p \in Objects : socket'[p] = socket[p] \/ (socket[p] \in Live /\ socket'[p] = "dead")
    BY <1>4 DEF Follow, Live, KeptInv, TabInv, TabType
  <2> QED BY <1>1, <2>1, SocketsKept
<1> QED BY <1>2, <1>3, <1>4

Step == TabNext \/ \E up \in BOOLEAN : Follow(up)

LEMMA StepKept == ASSUME KeptInv, [Step]_tabVars PROVE KeptInv'
<1>1. TabInv'
  <2>1. ASSUME UNCHANGED tabVars PROVE TabInv'
    BY <2>1, SocketInv
    DEF KeptInv, tabVars, objectVars, pageVars, historyVars, TabInv, TabType
  <2> QED
    BY <2>1, UserInv, TimersInv, EventsInv, DropInv, FollowInv DEF KeptInv, Step, TabNext
<1>2. Fits' /\ Unused' /\ Calm'
  <2>1. ASSUME NEW o \in Objects, DisconnectTimeout(o) \/ MakeDisconnected(o)
        PROVE  Fits' /\ Unused' /\ Calm'
    BY <2>1, TimeoutKept, MakeDisconnectedKept
  <2>2. ASSUME NEW o \in Objects,
               \/ Open(o) \/ Handshake(o) \/ RefuseMessage(o)
               \/ CloseEvent(o) \/ StaleCloseEvent(o)
        PROVE  Fits' /\ Unused' /\ Calm'
    BY <2>2, ProgressKept, GiveUpKept, CloseEventsKept DEF Handshake
  <2> QED
    BY <2>1, <2>2, ClickConsoleKept, LeaveKept, RetryKept, OthersKept
    DEF Step, TabNext, User, Timers, Events
<1> QED BY <1>1, <1>2 DEF KeptInv

\* How often a client has given up.
Counted == errors \in Nat

LEMMA ErrorsCounted == TabSpec => []Counted
<1>1. TabInit => Counted
  BY DEF TabInit, Counted
<1>2. Counted /\ [Step]_tabVars => Counted'
  BY DEF Counted, Step, TabNext, User, Timers, Events, Handshake, ClickConsole, ClickOtherTab,
         ClickHardReset, DisconnectTimeout, MakeDisconnected, Retry, Open, BecomeNormal,
         AskPassword, RefuseServer, RefuseMessage, CloseEvent, StaleCloseEvent, Drop, Follow,
         tabVars, boundVars
<1> QED BY <1>1, <1>2, PTL DEF TabSpec, Step

\* What an object does by itself, or its socket does to it.
Moves(o) ==
    \/ DisconnectTimeout(o) \/ MakeDisconnected(o) \/ Open(o) \/ Handshake(o)
    \/ RefuseMessage(o) \/ CloseEvent(o) \/ StaleCloseEvent(o)

\* It is no other object's business.
LEMMA MovesOne ==
    ASSUME KeptInv, NEW o \in Objects, Moves(o), NEW p \in Objects \ {o}
    PROVE  rfbState'[p] = rfbState[p]
BY DEF Moves, DisconnectTimeout, MakeDisconnected, Open, Handshake, BecomeNormal, AskPassword,
       RefuseServer, RefuseMessage, GiveUp, CloseEvent, StaleCloseEvent, OnClose, Fail, Enter,
       KeptInv, TabInv, TabType

\* The step of KeptAlive, from the invariant.
LEMMA LiveIsKeptStep ==
    ASSUME KeptInv, errors \in Nat, [Step]_tabVars, ~hasty, connectLoop', rfb > 0, rfb' = rfb,
           rfbState[rfb] = "normal", socket[rfb] # "dead", ~(errors' > errors)
    PROVE  rfbState'[rfb] = "normal"
<1>1. rfb \in Objects /\ rfb \in Nat /\ rfb + 1 # rfb
  BY RfbIsObject DEF KeptInv, TabInv, TabType
<1>2. ~ClickConsole /\ ~ClickOtherTab
  BY <1>1 DEF ClickConsole, ClickOtherTab
<1>3. connectLoop
  BY Whose, <1>1 DEF Up
<1>4. socket[rfb] = "alive" /\ stale[rfb] = 0 /\ due = 0 /\ fresh[rfb] = 0
  <2>1. Watched /\ Fits
    BY DEF KeptInv, Calm
  <2> QED BY <1>1, <1>3, <2>1 DEF Watched, Fits, Live, Up
<1>5. ~Retry
  BY <1>4 DEF Retry
<1>6. ASSUME NEW o \in Objects, Moves(o) PROVE o # rfb
  <2>1. CASE RefuseMessage(o)
    <3>1. errors' > errors
      BY <2>1 DEF RefuseMessage
    <3> QED BY <3>1
  <2>2. CASE ~RefuseMessage(o)
    <3>1. \/ rfbState[o] \in {"disconnect", "ProtocolVersion"} \/ fresh[o] > 0
          \/ socket[o] \in {"connecting", "dead", "closing"} \/ stale[o] > 0
      BY <1>6, <2>2
      DEF Moves, DisconnectTimeout, MakeDisconnected, Open, Handshake, BecomeNormal,
          AskPassword, RefuseServer, CloseEvent, StaleCloseEvent
    <3> QED BY <1>4, <3>1
  <2> QED BY <2>1, <2>2
<1>7. ASSUME NEW o \in Objects, Moves(o) PROVE rfbState'[rfb] = rfbState[rfb]
  BY <1>1, <1>6, <1>7, MovesOne
<1>8. ASSUME ClickHardReset \/ (\E o \in Objects : Drop(o)) \/ (\E up \in BOOLEAN : Follow(up))
             \/ UNCHANGED tabVars
      PROVE  rfbState' = rfbState
  BY <1>8 DEF ClickHardReset, Drop, Follow, tabVars, objectVars
<1> QED
  BY <1>2, <1>5, <1>7, <1>8 DEF Step, TabNext, User, Timers, Events, Moves

\* KeptAlive for every number of visits, drops, slow close events and messages
\* the client gives up over: a visit that begins when all is quiet has one
\* retry at most, and it belongs to the console that failed.
THEOREM LiveIsKept == TabSpec => KeptAlive
<1>1. KeptInv /\ [Step]_tabVars => KeptInv'
  BY StepKept
<1>2. KeptInv /\ Counted /\ [Step]_tabVars =>
        [ rfb > 0 /\ rfb' = rfb /\ rfbState[rfb] = "normal" /\ rfbState'[rfb] # "normal"
          => hasty \/ ~connectLoop' \/ socket[rfb] = "dead" \/ errors' > errors ]_tabVars
  BY LiveIsKeptStep DEF Counted
<1> QED
  BY <1>1, <1>2, InitKept, ErrorsCounted, PTL DEF TabSpec, KeptAlive, Step

-----------------------------------------------------------------------------
(***************************************************************************)
(* The power tab.                                                          *)
(***************************************************************************)
Posts == [action : Actions \union {"iso"}, job : {"queued", "done", "error", "lost"},
          answered : BOOLEAN, pollers : Nat, late : Nat]

PowerTypes ==
    /\ power \in States
    /\ clicks \in Seq(Posts)
    /\ requests \in Seq(States \union {"asked"})
    /\ handlers \in Nat
    /\ lost \in Nat
    /\ spinner \in BOOLEAN
    /\ hurried \in BOOLEAN

\* A post has pollers once it was answered, one for each handler at most, and
\* late answers only of a poller that has called back.
PostOK(c) ==
    /\ ~c.answered => c.pollers = 0 /\ c.late = 0
    /\ c.job = "lost" => ~c.answered
    /\ c.late > 0 => c.job \in {"done", "error"}
    /\ c.action = "iso" => /\ handlers > 0
                           /\ c.pollers <= handlers
                           /\ c.late > 0 => c.pollers < handlers

AllOK == \A n \in 1 .. Len(clicks) : PostOK(clicks[n])

NoneLost == lost = 0 => \A n \in 1 .. Len(clicks) : clicks[n].job # "lost"

\* Without haste all but the last click are over.
EarlierOver == ~hurried => \A n \in 1 .. Len(clicks) : n < Len(clicks) => Over(clicks[n])

Newest == clicks[Len(clicks)]

\* As long as its job is queued nobody has been told of the last click.
LastAsked ==
    ~hurried /\ Len(clicks) > 0 /\ Newest.answered /\ Newest.job = "queued"
        => Newest.late = 0 /\ Newest.pollers = IF Newest.action = "iso" THEN handlers ELSE 1

SpinnerRight ==
    ~hurried /\ lost = 0 =>
        (spinner <=> /\ Len(clicks) > 0
                     /\ Newest.action = "iso"
                     /\ ~Newest.answered \/ Newest.job = "queued" \/ Newest.pollers = handlers)

\* States are asked for when the last job has ended, and what was read is a
\* state since then.
AskedSince ==
    ~hurried /\ lost = 0 =>
        /\ requests \in Seq(had \union {"asked"})
        /\ requests # <<>> => Len(clicks) > 0 /\ Newest.job # "queued"

\* What is shown is such a state, or is going to be replaced by one.
ShownOrComing ==
    ~hurried /\ lost = 0 =>
        \/ shown \in had
        \/ requests # <<>>
        \/ /\ Len(clicks) > 0
           /\ Newest.action # "iso"
           /\ ~Newest.answered \/ Newest.job = "queued" \/ Newest.pollers > 0

PowerInv ==
    /\ PowerTypes /\ AllOK /\ NoneLost /\ EarlierOver /\ LastAsked /\ SpinnerRight
    /\ power \in had /\ AskedSince /\ ShownOrComing

LEMMA PowerStarts == PowerInit => PowerInv
<1> SUFFICES ASSUME PowerInit PROVE PowerInv
    OBVIOUS
<1>1. clicks = <<>> /\ requests = <<>> /\ Len(clicks) = 0
    BY DEF PowerInit
<1>2. clicks \in Seq(Posts) /\ \A S : requests \in Seq(S)
    BY <1>1
<1>3. PowerTypes
    BY <1>2 DEF PowerInit, PowerTypes
<1>4. AllOK /\ NoneLost /\ EarlierOver
    BY <1>1 DEF AllOK, NoneLost, EarlierOver
<1>5. LastAsked /\ SpinnerRight /\ AskedSince /\ ShownOrComing /\ power \in had
    BY <1>1, <1>2 DEF PowerInit, LastAsked, SpinnerRight, AskedSince, ShownOrComing
<1> QED BY <1>3, <1>4, <1>5 DEF PowerInv

\* A click is added at the end ...
LEMMA Added ==
    ASSUME clicks \in Seq(Posts), NEW c \in Posts, clicks' = Append(clicks, c)
    PROVE  /\ clicks' \in Seq(Posts)
           /\ Len(clicks') = Len(clicks) + 1
           /\ Len(clicks) \in Nat
           /\ clicks'[Len(clicks')] = c
           /\ \A n \in 1 .. Len(clicks) : clicks'[n] = clicks[n] /\ clicks[n] \in Posts
BY AppendProperties, ElementOfSeq, LenProperties

\* ... and changed where it is.
LEMMA Changed ==
    ASSUME clicks \in Seq(Posts), NEW n \in DOMAIN clicks, NEW c \in Posts,
           clicks' = [clicks EXCEPT ![n] = c]
    PROVE  /\ clicks' \in Seq(Posts)
           /\ Len(clicks') = Len(clicks)
           /\ Len(clicks) \in Nat
           /\ n \in 1 .. Len(clicks)
           /\ clicks'[n] = c
           /\ \A m \in 1 .. Len(clicks) : m # n => clicks'[m] = clicks[m]
           /\ \A m \in 1 .. Len(clicks) : clicks[m] \in Posts
BY ExceptSeq, ElementOfSeq, LenProperties

LEMMA RemovedFrom ==
    ASSUME NEW S, NEW q \in Seq(S), NEW i \in DOMAIN q
    PROVE  RemoveAt(q, i) \in Seq(S)
<1>1. DOMAIN q = 1 .. Len(q) /\ Len(q) \in Nat /\ \A k \in 1 .. Len(q) : q[k] \in S
    BY LenProperties, ElementOfSeq
<1>2. SubSeq(q, 1, i - 1) \in Seq(S) /\ SubSeq(q, i + 1, Len(q)) \in Seq(S)
    BY <1>1, SubSeqProperties
<1> QED BY <1>2, ConcatProperties DEF RemoveAt

LEMMA LargerSeq ==
    ASSUME NEW S, NEW T, S \subseteq T, NEW q \in Seq(S)
    PROVE  q \in Seq(T)
OBVIOUS

\* A post that is not over is the newest one, if there was no haste.
LEMMA Unfinished ==
    ASSUME EarlierOver, ~hurried, NEW n \in 1 .. Len(clicks), Len(clicks) \in Nat,
           ~Over(clicks[n])
    PROVE  n = Len(clicks)
BY DEF EarlierOver

\* When all is settled every post was told, and nothing is asked for.
LEMMA SettledPosts ==
    ASSUME PowerInv, Settled, lost = 0, NEW n \in 1 .. Len(clicks)
    PROVE  /\ clicks[n].answered /\ clicks[n].job # "queued"
           /\ clicks[n].pollers = 0 /\ clicks[n].late = 0
           /\ requests = <<>>
<1>1. n \in DOMAIN clicks
    BY LenProperties DEF PowerInv, PowerTypes
<1> QED BY <1>1 DEF Settled, Over, Finished, PowerInv, NoneLost

\* What a click adds, and what it found.
LEMMA ClickKeeps ==
    ASSUME PowerInv,
           ChangeIso \/ \E action \in Actions : Click(action)
    PROVE  PowerInv'
<1>1. PICK action \in Actions \union {"iso"} :
        /\ SendPost(action)
        /\ IF action = "iso"
             THEN handlers' = handlers + 1 /\ spinner' = TRUE /\ shown' = shown
             ELSE handlers' = handlers /\ spinner' = spinner
    <2>1. CASE ChangeIso
        BY <2>1 DEF ChangeIso
    <2>2. ASSUME NEW action \in Actions, Click(action)
          PROVE  action # "iso" /\ SendPost(action) /\ handlers' = handlers /\ spinner' = spinner
        BY <2>2 DEF Click, formVars, Actions
    <2> QED BY <2>1, <2>2
<1> DEFINE c == Post(action)
<1>2. c \in Posts
    BY DEF Post, Posts
<1>3. clicks' = Append(clicks, c) /\ UNCHANGED <<power, requests, lost, had>>
    BY <1>1 DEF SendPost
<1>4. /\ ~c.answered /\ c.job = "queued" /\ c.pollers = 0 /\ c.late = 0 /\ c.action = action
    BY DEF Post
<1>5. clicks \in Seq(Posts)
    BY DEF PowerInv, PowerTypes
<1> HIDE DEF c
<1>6. /\ clicks' \in Seq(Posts)
      /\ Len(clicks') = Len(clicks) + 1
      /\ Len(clicks) \in Nat
      /\ clicks'[Len(clicks')] = c
      /\ \A n \in 1 .. Len(clicks) : clicks'[n] = clicks[n] /\ clicks[n] \in Posts
    BY <1>2, <1>3, <1>5, Added
<1>7. ~hurried' => ~hurried /\ Settled
    BY <1>1 DEF SendPost
<1>8. PowerTypes'
    <2>1. hurried' \in BOOLEAN
        BY <1>1 DEF SendPost
    <2>2. spinner \in BOOLEAN /\ handlers \in Nat
        BY DEF PowerInv, PowerTypes
    <2>3. handlers' \in Nat
        BY <1>1, <2>2
    <2>4. spinner' \in BOOLEAN
        BY <1>1, <2>2, Zenon
    <2> QED BY <1>3, <1>6, <2>1, <2>3, <2>4 DEF PowerInv, PowerTypes
<1>9. AllOK'
    <2>1. handlers \in Nat /\ handlers' \in Nat /\ handlers' >= handlers
        BY <1>1 DEF PowerInv, PowerTypes
    <2>2. PostOK(c)'
        BY <1>1, <1>4, <2>1 DEF PostOK
    <2>3. ASSUME NEW n \in 1 .. Len(clicks) PROVE PostOK(clicks[n])'
        <3>1. clicks[n] \in Posts /\ PostOK(clicks[n]) /\ clicks'[n] = clicks[n]
            BY <1>6 DEF PowerInv, AllOK
        <3> QED BY <2>1, <3>1 DEF PostOK, Posts
    <2> QED BY <1>6, <2>2, <2>3 DEF AllOK
<1>10. NoneLost'
    BY <1>3, <1>4, <1>6 DEF PowerInv, NoneLost
<1>11. EarlierOver'
    <2>1. Settled => \A n \in 1 .. Len(clicks) : Over(clicks[n])
        BY <1>5, LenProperties DEF Settled
    <2> QED BY <1>6, <1>7, <2>1 DEF EarlierOver, Over, Finished
<1>12. LastAsked'
    BY <1>4, <1>6 DEF LastAsked, Newest
<1>13. SpinnerRight'
    <2> SUFFICES ASSUME ~hurried', lost' = 0 PROVE spinner' <=> action = "iso"
        BY <1>4, <1>6 DEF SpinnerRight, Newest
    <2>1. CASE Len(clicks) = 0
        BY <1>1, <1>3, <1>7, <2>1 DEF PowerInv, SpinnerRight
    <2>2. CASE Len(clicks) > 0
        <3>1. Len(clicks) \in 1 .. Len(clicks)
            BY <1>6, <2>2
        <3>2. Newest.answered /\ Newest.job # "queued" /\ Newest.pollers = 0
            BY <1>3, <1>7, <3>1, SettledPosts DEF Newest
        <3>3. Newest.action = "iso" => handlers > 0
            BY <3>1 DEF PowerInv, AllOK, PostOK, Newest
        <3> QED BY <1>1, <1>3, <1>7, <3>2, <3>3 DEF PowerInv, SpinnerRight
    <2> QED BY <1>6, <2>1, <2>2
<1>14. power' \in had'
    BY <1>3 DEF PowerInv
<1>15. AskedSince' /\ ShownOrComing'
    <2> SUFFICES ASSUME ~hurried', lost' = 0
                 PROVE  /\ requests' \in Seq(had' \union {"asked"}) /\ requests' = <<>>
                        /\ action = "iso" => shown' \in had'
        BY <1>4, <1>6 DEF AskedSince, ShownOrComing, Newest
    <2>1. requests = <<>>
        BY <1>7 DEF Settled
    <2>2. shown \in had
        <3>1. CASE Len(clicks) = 0
            BY <1>3, <1>7, <2>1, <3>1 DEF PowerInv, ShownOrComing
        <3>2. CASE Len(clicks) > 0
            <4>1. Newest.answered /\ Newest.job # "queued" /\ Newest.pollers = 0
                BY <1>3, <1>6, <1>7, <3>2, SettledPosts DEF Newest
            <4> QED BY <1>3, <1>7, <2>1, <4>1 DEF PowerInv, ShownOrComing
        <3> QED BY <1>6, <3>1, <3>2
    <2> QED BY <1>1, <1>3, <2>1, <2>2
<1> QED BY <1>8, <1>9, <1>10, <1>11, <1>12, <1>13, <1>14, <1>15 DEF PowerInv


\* A job ends: from now on the machine has had this state.
LEMMA PerformKeeps ==
    ASSUME PowerInv, NEW n \in DOMAIN clicks, Perform(n)
    PROVE  PowerInv'
<1>1. PICK job \in {"done", "error"} :
        /\ Job(n, job)
        /\ power' = IF job = "done" THEN Result(clicks[n].action) ELSE power
    BY DEF Perform
<1> DEFINE c == [clicks[n] EXCEPT !.job = job]
<1>2. clicks \in Seq(Posts) /\ n \in 1 .. Len(clicks) /\ clicks[n] \in Posts
    BY LenProperties, ElementOfSeq DEF PowerInv, PowerTypes
<1>3. c \in Posts /\ clicks' = [clicks EXCEPT ![n] = c]
    BY <1>1, <1>2 DEF Job, Posts
<1>4. /\ c.job = job /\ c.action = clicks[n].action /\ c.answered = clicks[n].answered
      /\ c.pollers = clicks[n].pollers /\ c.late = clicks[n].late
    BY <1>2 DEF Posts
<1>5. /\ clicks[n].job = "queued"
      /\ had' = IF clicks[n].action = "iso" THEN had ELSE {power'}
      /\ UNCHANGED <<shown, requests, lost, formVars, hurried>>
    BY DEF Perform
<1> HIDE DEF c
<1>6. /\ clicks' \in Seq(Posts)
      /\ Len(clicks') = Len(clicks)
      /\ Len(clicks) \in Nat
      /\ clicks'[n] = c
      /\ \A m \in 1 .. Len(clicks) : m # n => clicks'[m] = clicks[m]
      /\ \A m \in 1 .. Len(clicks) : clicks[m] \in Posts
    BY <1>2, <1>3, Changed
<1>7. ~hurried => n = Len(clicks)
    BY <1>2, <1>5, <1>6, Unfinished DEF PowerInv, Over, Finished
<1>8. power' \in States
    BY <1>1 DEF Result, PowerInv, PowerTypes, States
<1>9. PowerTypes'
    BY <1>5, <1>6, <1>8 DEF PowerInv, PowerTypes, formVars
<1>10. AllOK' /\ NoneLost'
    BY <1>2, <1>4, <1>5, <1>6 DEF PowerInv, AllOK, NoneLost, PostOK, formVars
<1>11. EarlierOver' /\ LastAsked'
    BY <1>4, <1>5, <1>6, <1>7 DEF PowerInv, EarlierOver, LastAsked, Newest
<1>12. SpinnerRight'
    <2>1. ~hurried /\ clicks[n].action = "iso" /\ clicks[n].answered
            => clicks[n].pollers = handlers
        BY <1>5, <1>7, <1>2, <1>6 DEF PowerInv, LastAsked, Newest
    <2> QED BY <1>2, <1>4, <1>5, <1>6, <1>7, <2>1
            DEF PowerInv, SpinnerRight, Newest, formVars
<1>13. power' \in had'
    <2>1. clicks[n].action = "iso" => power' = power
        BY <1>1 DEF Result
    <2> QED BY <1>5, <2>1 DEF PowerInv
<1>14. AskedSince'
    <2> SUFFICES ASSUME ~hurried', lost' = 0
                 PROVE  requests' = <<>>
        BY DEF AskedSince
    <2> QED BY <1>5, <1>7 DEF PowerInv, AskedSince, Newest
<1>15. ShownOrComing'
    <2> SUFFICES ASSUME ~hurried', lost' = 0
                 PROVE  \/ shown' \in had'
                        \/ c.action # "iso" /\ (~c.answered \/ c.pollers > 0)
        BY <1>2, <1>5, <1>6, <1>7 DEF ShownOrComing, Newest
    <2>1. clicks[n].answered /\ clicks[n].action # "iso" => clicks[n].pollers = 1
        BY <1>2, <1>5, <1>6, <1>7 DEF PowerInv, LastAsked, Newest
    <2>2. requests = <<>>
        BY <1>5, <1>7 DEF PowerInv, AskedSince, Newest
    <2>3. clicks[n].action = "iso" => shown \in had
        BY <1>5, <1>7, <2>2 DEF PowerInv, ShownOrComing, Newest
    <2> QED BY <1>4, <1>5, <2>1, <2>3
<1> QED BY <1>9, <1>10, <1>11, <1>12, <1>13, <1>14, <1>15 DEF PowerInv


\* An answer starts the pollers.
LEMMA AnswerKeeps ==
    ASSUME PowerInv, NEW n \in DOMAIN clicks, Answer(n)
    PROVE  PowerInv'
<1> DEFINE p == IF clicks[n].action = "iso" THEN handlers ELSE 1
<1> DEFINE c == [clicks[n] EXCEPT !.answered = TRUE, !.pollers = p]
<1>1. clicks \in Seq(Posts) /\ n \in 1 .. Len(clicks) /\ clicks[n] \in Posts
    BY LenProperties, ElementOfSeq DEF PowerInv, PowerTypes
<1>2. /\ clicks[n].job # "lost" /\ ~clicks[n].answered
      /\ UNCHANGED <<power, shown, requests, lost, formVars, had, hurried>>
    BY DEF Answer
<1>3. p \in Nat /\ p > 0 /\ clicks[n].pollers = 0 /\ clicks[n].late = 0
    BY <1>1, <1>2 DEF PowerInv, PowerTypes, AllOK, PostOK
<1>4. c \in Posts /\ clicks' = [clicks EXCEPT ![n] = c]
    BY <1>1, <1>3 DEF Answer, Posts
<1>5. /\ c.job = clicks[n].job /\ c.action = clicks[n].action /\ c.answered
      /\ c.pollers = IF c.action = "iso" THEN handlers ELSE 1
      /\ c.late = 0
    BY <1>1, <1>3 DEF Posts
<1> HIDE DEF c, p
<1>6. /\ clicks' \in Seq(Posts)
      /\ Len(clicks') = Len(clicks)
      /\ Len(clicks) \in Nat
      /\ clicks'[n] = c
      /\ \A m \in 1 .. Len(clicks) : m # n => clicks'[m] = clicks[m]
      /\ \A m \in 1 .. Len(clicks) : clicks[m] \in Posts
    BY <1>1, <1>4, Changed
<1>7. ~hurried => n = Len(clicks)
    BY <1>1, <1>2, <1>6, Unfinished DEF PowerInv, Over, Finished
<1>8. PowerTypes'
    BY <1>2, <1>6 DEF PowerInv, PowerTypes, formVars
<1>9. AllOK' /\ NoneLost'
    <2>1. PostOK(clicks[n])
        BY <1>1 DEF PowerInv, AllOK
    <2>2. handlers' = handlers /\ handlers \in Nat
        BY <1>2 DEF formVars, PowerInv, PowerTypes
    <2>3. PostOK(clicks[n])'
        BY <1>2, <1>5, <1>6, <2>1, <2>2 DEF PostOK
    <2>4. \A m \in 1 .. Len(clicks) : m # n => PostOK(clicks[m])'
        BY <1>6, <2>2 DEF PowerInv, AllOK, PostOK
    <2>5. AllOK'
        BY <1>6, <2>3, <2>4 DEF AllOK
    <2> QED BY <1>2, <1>5, <1>6, <2>5 DEF PowerInv, NoneLost
<1>10. EarlierOver' /\ LastAsked'
    BY <1>2, <1>5, <1>6, <1>7 DEF PowerInv, EarlierOver, LastAsked, Newest, formVars
<1>11. SpinnerRight'
    BY <1>1, <1>2, <1>5, <1>6, <1>7 DEF PowerInv, SpinnerRight, Newest, formVars
<1>12. power' \in had' /\ AskedSince'
    BY <1>2, <1>5, <1>6, <1>7 DEF PowerInv, AskedSince, Newest
<1>13. ShownOrComing'
    BY <1>1, <1>2, <1>5, <1>6, <1>7 DEF PowerInv, ShownOrComing, Newest
<1> QED BY <1>8, <1>9, <1>10, <1>11, <1>12, <1>13 DEF PowerInv

\* A lost request: nothing is claimed about what is shown from now on.
LEMMA LoseKeeps ==
    ASSUME PowerInv, NEW n \in DOMAIN clicks, Lose(n)
    PROVE  PowerInv'
<1> DEFINE c == [clicks[n] EXCEPT !.job = "lost"]
<1>1. clicks \in Seq(Posts) /\ n \in 1 .. Len(clicks) /\ clicks[n] \in Posts
    BY LenProperties, ElementOfSeq DEF PowerInv, PowerTypes
<1>2. /\ clicks[n].job = "queued" /\ ~clicks[n].answered
      /\ lost' = lost + 1
      /\ UNCHANGED <<power, shown, requests, formVars, had, hurried>>
    BY DEF Lose
<1>3. lost' \in Nat /\ lost' # 0
    BY <1>2 DEF PowerInv, PowerTypes
<1>4. c \in Posts /\ clicks' = [clicks EXCEPT ![n] = c]
    BY <1>1 DEF Lose, Job, Posts
<1>5. /\ c.job = "lost" /\ c.action = clicks[n].action /\ ~c.answered
      /\ c.pollers = clicks[n].pollers /\ c.late = clicks[n].late
    BY <1>1, <1>2 DEF Posts
<1> HIDE DEF c
<1>6. /\ clicks' \in Seq(Posts)
      /\ Len(clicks') = Len(clicks)
      /\ Len(clicks) \in Nat
      /\ clicks'[n] = c
      /\ \A m \in 1 .. Len(clicks) : m # n => clicks'[m] = clicks[m]
      /\ \A m \in 1 .. Len(clicks) : clicks[m] \in Posts
    BY <1>1, <1>4, Changed
<1>7. PowerTypes'
    BY <1>2, <1>3, <1>6 DEF PowerInv, PowerTypes, formVars
<1>8. AllOK' /\ NoneLost'
    BY <1>1, <1>2, <1>3, <1>5, <1>6 DEF PowerInv, AllOK, NoneLost, PostOK, formVars
<1>9. EarlierOver' /\ LastAsked'
    BY <1>1, <1>2, <1>5, <1>6 DEF PowerInv, EarlierOver, Over, LastAsked, Newest, formVars
<1>10. SpinnerRight' /\ power' \in had' /\ AskedSince' /\ ShownOrComing'
    BY <1>2, <1>3 DEF PowerInv, SpinnerRight, AskedSince, ShownOrComing
<1> QED BY <1>7, <1>8, <1>9, <1>10 DEF PowerInv

\* A poller calls back, for the first time or once more.
LEMMA CallBackKeeps ==
    ASSUME PowerInv, NEW n \in DOMAIN clicks, NEW c \in Posts,
           clicks[n].job \in {"done", "error"},
           clicks[n].pollers > 0 \/ clicks[n].late > 0,
           c.job = clicks[n].job, c.action = clicks[n].action, c.answered = clicks[n].answered,
           c.action = "iso" => c.pollers < handlers,
           clicks' = [clicks EXCEPT ![n] = c],
           CallBack(n),
           UNCHANGED <<power, shown, handlers, lost, had, hurried>>
    PROVE  PowerInv'
<1>1. clicks \in Seq(Posts) /\ n \in 1 .. Len(clicks) /\ clicks[n] \in Posts
    BY LenProperties, ElementOfSeq DEF PowerInv, PowerTypes
<1>2. /\ clicks' \in Seq(Posts)
      /\ Len(clicks') = Len(clicks)
      /\ Len(clicks) \in Nat
      /\ clicks'[n] = c
      /\ \A m \in 1 .. Len(clicks) : m # n => clicks'[m] = clicks[m]
      /\ \A m \in 1 .. Len(clicks) : clicks[m] \in Posts
    BY <1>1, Changed
<1>3. clicks[n].answered
    BY <1>1 DEF PowerInv, AllOK, PostOK
<1>4. clicks[n].pollers \in Nat /\ clicks[n].late \in Nat /\ c.pollers \in Nat /\ handlers \in Nat
    BY <1>1 DEF Posts, PowerInv, PowerTypes
<1>5. ~hurried => n = Len(clicks)
    <2>1. ~Over(clicks[n])
        BY <1>4 DEF Over, Finished
    <2> QED BY <1>1, <1>2, <2>1, Unfinished DEF PowerInv
<1>6. clicks[n].action = "iso" => spinner' = FALSE /\ requests' = requests
    BY Zenon DEF CallBack, SpinnerAfter
<1>7. clicks[n].action # "iso" => spinner' = spinner /\ requests' = Append(requests, "asked")
    BY DEF CallBack, AskAfterError
<1>8. PowerTypes'
    <2>1. spinner' \in BOOLEAN
        BY <1>6, <1>7, Zenon DEF PowerInv, PowerTypes
    <2>2. requests' \in Seq(States \union {"asked"})
        <3>1. requests \in Seq(States \union {"asked"})
            BY DEF PowerInv, PowerTypes
        <3> QED BY <1>6, <1>7, <3>1, AppendProperties
    <2> QED BY <1>2, <2>1, <2>2 DEF PowerInv, PowerTypes
<1>9. AllOK' /\ NoneLost'
    <2>1. PostOK(c)'
        BY <1>3, <1>4 DEF PostOK
    <2>2. \A m \in 1 .. Len(clicks) : m # n => PostOK(clicks[m])'
        BY <1>2 DEF PowerInv, AllOK, PostOK
    <2> QED BY <1>2, <2>1, <2>2 DEF PowerInv, AllOK, NoneLost
<1>10. EarlierOver' /\ LastAsked'
    BY <1>2, <1>5 DEF PowerInv, EarlierOver, LastAsked, Newest
<1>11. SpinnerRight'
    <2> SUFFICES ASSUME ~hurried', lost' = 0 PROVE ~spinner'
        <3>1. ~(/\ c.action = "iso"
                /\ ~c.answered \/ c.job = "queued" \/ c.pollers = handlers')
            BY <1>3, <1>4
        <3> QED BY <1>2, <1>5, <3>1 DEF SpinnerRight, Newest
    <2>1. CASE clicks[n].action = "iso"
        BY <1>6, <2>1
    <2>2. CASE clicks[n].action # "iso"
        BY <1>5, <1>7, <2>2 DEF PowerInv, SpinnerRight, Newest
    <2> QED BY <2>1, <2>2
<1>12. power' \in had'
    BY DEF PowerInv
<1>13. AskedSince'
    <2> SUFFICES ASSUME ~hurried, lost = 0
                 PROVE  requests' \in Seq(had \union {"asked"})
        BY <1>1, <1>2, <1>5 DEF AskedSince, Newest
    <2>1. requests \in Seq(had \union {"asked"})
        BY DEF PowerInv, AskedSince
    <2> QED BY <1>6, <1>7, <2>1, AppendProperties
<1>14. ShownOrComing'
    <2>1. CASE clicks[n].action = "iso"
        BY <1>2, <1>5, <1>6, <2>1 DEF PowerInv, ShownOrComing, Newest
    <2>2. CASE clicks[n].action # "iso"
        <3>1. requests' # <<>>
            BY <1>7, <2>2, AppendProperties DEF PowerInv, PowerTypes
        <3> QED BY <3>1 DEF ShownOrComing
    <2> QED BY <2>1, <2>2
<1> QED BY <1>8, <1>9, <1>10, <1>11, <1>12, <1>13, <1>14 DEF PowerInv

LEMMA ToldKeeps ==
    ASSUME PowerInv, NEW n \in DOMAIN clicks, Told(n)
    PROVE  PowerInv'
<1>1. PICK late \in 0 .. 1 :
        clicks' = [clicks EXCEPT ![n].pollers = @ - 1, ![n].late = @ + late]
    BY DEF Told
<1> DEFINE p == clicks[n].pollers - 1
<1> DEFINE l == clicks[n].late + late
<1> DEFINE c == [clicks[n] EXCEPT !.pollers = p, !.late = l]
<1>2. clicks \in Seq(Posts) /\ n \in 1 .. Len(clicks) /\ clicks[n] \in Posts
    BY LenProperties, ElementOfSeq DEF PowerInv, PowerTypes
<1>3. clicks[n].pollers > 0 /\ clicks[n].job \in {"done", "error"} /\ CallBack(n)
    BY DEF Told
<1>4. c \in Posts /\ clicks' = [clicks EXCEPT ![n] = c]
    <2>1. p \in Nat /\ l \in Nat
        BY <1>2, <1>3 DEF Posts
    <2>2. clicks' = [clicks EXCEPT ![n] = c]
        BY <1>1, <1>2 DEF Posts
    <2> HIDE DEF p, l
    <2> QED BY <1>2, <2>1, <2>2 DEF Posts
<1>5. /\ c.job = clicks[n].job /\ c.action = clicks[n].action /\ c.answered = clicks[n].answered
      /\ c.pollers = clicks[n].pollers - 1
    BY <1>2 DEF Posts
<1>6. c.action = "iso" => c.pollers < handlers
    BY <1>2, <1>5 DEF PowerInv, PowerTypes, AllOK, PostOK, Posts
<1>7. UNCHANGED <<power, shown, handlers, lost, had, hurried>>
    BY DEF Told
<1> HIDE DEF c
<1> QED BY <1>3, <1>4, <1>5, <1>6, <1>7, CallBackKeeps

LEMMA ToldAgainKeeps ==
    ASSUME PowerInv, NEW n \in DOMAIN clicks, ToldAgain(n)
    PROVE  PowerInv'
<1> DEFINE l == clicks[n].late - 1
<1> DEFINE c == [clicks[n] EXCEPT !.late = l]
<1>1. clicks \in Seq(Posts) /\ n \in 1 .. Len(clicks) /\ clicks[n] \in Posts
    BY LenProperties, ElementOfSeq DEF PowerInv, PowerTypes
<1>2. clicks[n].late > 0 /\ CallBack(n)
    BY DEF ToldAgain
<1>3. c \in Posts /\ clicks' = [clicks EXCEPT ![n] = c]
    <2>1. l \in Nat
        BY <1>1, <1>2 DEF Posts
    <2>2. clicks' = [clicks EXCEPT ![n] = c]
        BY <1>1 DEF ToldAgain, Posts
    <2> HIDE DEF l
    <2> QED BY <1>1, <2>1, <2>2 DEF Posts
<1>4. /\ c.job = clicks[n].job /\ c.action = clicks[n].action /\ c.answered = clicks[n].answered
      /\ c.pollers = clicks[n].pollers
    BY <1>1 DEF Posts
<1>5. clicks[n].job \in {"done", "error"} /\ (c.action = "iso" => c.pollers < handlers)
    BY <1>1, <1>2, <1>4 DEF PowerInv, AllOK, PostOK
<1>6. UNCHANGED <<power, shown, handlers, lost, had, hurried>>
    BY DEF ToldAgain
<1> HIDE DEF c
<1> QED BY <1>2, <1>3, <1>4, <1>5, <1>6, CallBackKeeps

\* The requests for the state.
LEMMA ReadStateKeeps ==
    ASSUME PowerInv, NEW i \in DOMAIN requests, ReadState(i)
    PROVE  PowerInv'
<1>1. /\ requests' = [requests EXCEPT ![i] = power]
      /\ UNCHANGED <<power, shown, clicks, lost, formVars, had, hurried>>
    BY DEF ReadState
<1>2. ASSUME NEW S, requests \in Seq(S), power \in S
      PROVE  requests' \in Seq(S) /\ requests # <<>>
    <2>1. i \in 1 .. Len(requests) /\ requests # <<>>
        BY <1>2, LenProperties
    <2> QED BY <1>1, <1>2, <2>1, ExceptSeq
<1>3. PowerTypes' /\ requests # <<>>
    BY <1>1, <1>2 DEF PowerInv, PowerTypes, formVars
<1>4. AskedSince'
    BY <1>1, <1>2, <1>3 DEF PowerInv, AskedSince, Newest
<1>5. ShownOrComing'
    <2>1. requests' # <<>>
        BY <1>1, <1>3, EmptySeq, ExceptSeq, LenProperties DEF PowerInv, PowerTypes
    <2> QED BY <2>1 DEF ShownOrComing
<1>6. AllOK' /\ NoneLost' /\ EarlierOver' /\ LastAsked'
    BY <1>1 DEF PowerInv, AllOK, PostOK, NoneLost, EarlierOver, LastAsked, Newest, formVars
<1>7. SpinnerRight' /\ power' \in had'
    BY <1>1 DEF PowerInv, SpinnerRight, Newest, formVars
<1> QED BY <1>3, <1>4, <1>5, <1>6, <1>7 DEF PowerInv

LEMMA ShowStateKeeps ==
    ASSUME PowerInv, NEW i \in DOMAIN requests, ShowState(i)
    PROVE  PowerInv'
<1>1. /\ requests[i] # "asked" /\ shown' = requests[i]
      /\ requests' = RemoveAt(requests, i)
      /\ UNCHANGED <<power, clicks, lost, formVars, had, hurried>>
    BY DEF ShowState
<1>2. ASSUME NEW S, requests \in Seq(S)
      PROVE  requests' \in Seq(S) /\ requests[i] \in S /\ requests # <<>>
    BY <1>1, <1>2, RemovedFrom, ElementOfSeq, LenProperties
<1>3. PowerTypes' /\ requests # <<>>
    BY <1>1, <1>2 DEF PowerInv, PowerTypes, formVars
<1>4. AskedSince' /\ ShownOrComing'
    BY <1>1, <1>2, <1>3 DEF PowerInv, AskedSince, ShownOrComing, Newest
<1>5. AllOK' /\ NoneLost' /\ EarlierOver' /\ LastAsked'
    BY <1>1 DEF PowerInv, AllOK, PostOK, NoneLost, EarlierOver, LastAsked, Newest, formVars
<1>6. SpinnerRight' /\ power' \in had'
    BY <1>1 DEF PowerInv, SpinnerRight, Newest, formVars
<1> QED BY <1>3, <1>4, <1>5, <1>6 DEF PowerInv

LEMMA LoseStateKeeps ==
    ASSUME PowerInv, NEW i \in DOMAIN requests, LoseState(i)
    PROVE  PowerInv'
<1>1. /\ lost' = lost + 1
      /\ requests' = RemoveAt(requests, i)
      /\ UNCHANGED <<power, shown, clicks, formVars, had, hurried>>
    BY DEF LoseState
<1>2. lost' \in Nat /\ lost' # 0
    BY <1>1 DEF PowerInv, PowerTypes
<1>3. PowerTypes'
    BY <1>1, <1>2, RemovedFrom DEF PowerInv, PowerTypes, formVars
<1>4. AllOK' /\ NoneLost' /\ EarlierOver' /\ LastAsked'
    BY <1>1, <1>2 DEF PowerInv, AllOK, PostOK, NoneLost, EarlierOver, LastAsked, Newest, formVars
<1>5. SpinnerRight' /\ power' \in had' /\ AskedSince' /\ ShownOrComing'
    BY <1>1, <1>2 DEF PowerInv, SpinnerRight, AskedSince, ShownOrComing
<1> QED BY <1>3, <1>4, <1>5 DEF PowerInv

\* The machine moves by itself, and a check mark fades.
LEMMA RestKeeps ==
    ASSUME PowerInv, TickFades \/ Others \/ UNCHANGED powerVars
    PROVE  PowerInv'
<1>1. /\ UNCHANGED <<shown, clicks, requests, lost, handlers, spinner, hurried>>
      /\ power' \in States /\ power' \in had' /\ had \subseteq had'
    BY DEF TickFades, Others, MoveTo, States, powerVars, postVars, formVars, PowerInv,
    PowerTypes
<1>2. PowerTypes'
    BY <1>1 DEF PowerInv, PowerTypes
<1>3. AllOK' /\ NoneLost' /\ EarlierOver' /\ LastAsked' /\ SpinnerRight'
    BY <1>1 DEF PowerInv, AllOK, PostOK, NoneLost, EarlierOver, LastAsked, SpinnerRight, Newest
<1>4. AskedSince'
    <2>1. had \union {"asked"} \subseteq had' \union {"asked"}
        BY <1>1
    <2>2. requests \in Seq(had \union {"asked"}) => requests \in Seq(had' \union {"asked"})
        BY <2>1, LargerSeq
    <2> QED BY <1>1, <2>2 DEF PowerInv, AskedSince, Newest
<1>5. ShownOrComing'
    BY <1>1 DEF PowerInv, ShownOrComing, Newest
<1> QED BY <1>1, <1>2, <1>3, <1>4, <1>5 DEF PowerInv

LEMMA PowerKeeps == ASSUME PowerInv, [PowerNext]_powerVars PROVE PowerInv'
<1>1. CASE Request
    BY <1>1, ClickKeeps DEF Request
<1>2. CASE ClickProgress
    BY <1>2, PerformKeeps, AnswerKeeps, ToldKeeps, ToldAgainKeeps, ReadStateKeeps,
       ShowStateKeeps, RestKeeps DEF ClickProgress
<1>3. CASE Losses
    BY <1>3, LoseKeeps, LoseStateKeeps DEF Losses
<1>4. CASE Others \/ UNCHANGED powerVars
    BY <1>4, RestKeeps
<1> QED BY <1>1, <1>2, <1>3, <1>4 DEF PowerNext

LEMMA PowerInvHolds == PowerSpec => []PowerInv
BY PowerStarts, PowerKeeps, PTL DEF PowerSpec

LEMMA InvShowsState == PowerInv => ShownSinceJob
<1> SUFFICES ASSUME PowerInv, Settled, ~hurried, lost = 0 PROVE shown \in had
    BY DEF ShownSinceJob
<1>1. requests = <<>>
    BY DEF Settled
<1>2. Len(clicks) > 0 => Newest.answered /\ Newest.job # "queued" /\ Newest.pollers = 0
    <2>1. Len(clicks) \in Nat
        BY LenProperties DEF PowerInv, PowerTypes
    <2> QED BY <2>1, SettledPosts DEF Newest
<1> QED BY <1>1, <1>2 DEF PowerInv, ShownOrComing

LEMMA InvTellsMount == PowerInv => SpinnerTellsMount
<1> SUFFICES ASSUME PowerInv, ~hurried, lost = 0
             PROVE  spinner <=> \E n \in DOMAIN clicks :
                        /\ clicks[n].action = "iso"
                        /\ ~clicks[n].answered \/ clicks[n].job = "queued"
                              \/ clicks[n].pollers = handlers
    BY DEF SpinnerTellsMount
<1>1. DOMAIN clicks = 1 .. Len(clicks) /\ Len(clicks) \in Nat
    BY LenProperties DEF PowerInv, PowerTypes
<1>2. ASSUME NEW n \in 1 .. Len(clicks), clicks[n].action = "iso",
             ~clicks[n].answered \/ clicks[n].job = "queued" \/ clicks[n].pollers = handlers
      PROVE  n = Len(clicks)
    <2>1. handlers > 0 /\ clicks[n].job # "lost"
        BY <1>2 DEF PowerInv, AllOK, PostOK, NoneLost
    <2>2. ~Over(clicks[n])
        BY <1>2, <2>1 DEF Over, Finished
    <2> QED BY <1>1, <2>2, Unfinished DEF PowerInv
<1>3. spinner <=> /\ Len(clicks) > 0
                  /\ clicks[Len(clicks)].action = "iso"
                  /\ ~clicks[Len(clicks)].answered \/ clicks[Len(clicks)].job = "queued"
                        \/ clicks[Len(clicks)].pollers = handlers
    BY DEF PowerInv, SpinnerRight, Newest
<1>4. Len(clicks) > 0 <=> Len(clicks) \in 1 .. Len(clicks)
    BY <1>1
<1> QED BY <1>1, <1>2, <1>3, <1>4

-----------------------------------------------------------------------------
(***************************************************************************)
(* The page: a step of either tab is a step of its script or none.         *)
(***************************************************************************)

\* The page runs the two scripts, whichever tab the user goes on with: what
\* holds of a tab's specification holds of the page.
THEOREM PageRunsTabs == Spec => TabSpec /\ PowerSpec
<1>1. Init => TabInit /\ PowerInit
    BY DEF Init
<1>2. [Next]_vars => [Step]_tabVars /\ [PowerNext]_powerVars
    BY DEF Next, vars, Step, Machine
<1> QED BY <1>1, <1>2, PTL DEF Spec, TabSpec, PowerSpec, Step

\* ShownSinceJob for every number of clicks, late answers and losses: a click
\* that no other overlaps leaves the page with a state the machine has had
\* since the job ended, however the answers to earlier requests arrive.
THEOREM StateIsCurrent == Spec => []ShownSinceJob
BY PageRunsTabs, PowerInvHolds, InvShowsState, PTL

\* SpinnerTellsMount for every number of clicks and late answers: a change of
\* the ISO by itself turns the spinner until its first poller is told.
THEOREM SpinnerIsRight == Spec => []SpinnerTellsMount
BY PageRunsTabs, PowerInvHolds, InvTellsMount, PTL

=============================================================================
