----------------------------- MODULE ConsoleTab -----------------------------
(***************************************************************************)
(* The console tab of a machine's page: the script of                      *)
(* webapp/app/views/machines/index/_console.html.slim and the connection   *)
(* states of the noVNC client it drives (updateState and the socket's      *)
(* handlers of webapp/vendor/assets/javascripts/novnc/rfb.js).             *)
(*                                                                         *)
(* Each click on `Console' makes a new RFB object; the retries of all of   *)
(* them share `connectLoop' and act on the newest.  A socket's handlers    *)
(* belong to its object, not to the connection: the close event of an      *)
(* earlier socket is taken for the close of the present one.               *)
(*                                                                         *)
(* The messages of the handshake are one step here, by which the client is *)
(* connected, gives up or waits for a password nobody will give it; and    *)
(* one that is connected may give up over any message.  The proxy accepts  *)
(* a socket before it looks for the machine, and closes one that has none  *)
(* behind it.                                                              *)
(***************************************************************************)
EXTENDS Naturals

CONSTANTS MaxVisits,   \* bound: clicks on Console
          MaxLeaves,   \* bound: clicks on another tab
          MaxDrops,    \* bound: connections the network drops
          MaxErrors,   \* bound: messages the client gives up over
          MaxSlow      \* bound: close events that take longer than a retry

ASSUME TabAssumption == {MaxVisits, MaxLeaves, MaxDrops, MaxErrors, MaxSlow} \subseteq Nat

VARIABLES on,           \* has the machine a VNC server?
          password,     \* the page's password for it: "right" (also when none is
                        \*   asked for), "wrong" or "missing"
          rfb,          \* the newest object; 0 before the first click
          connectLoop,
          rfbState,     \* rfb_state of each object
          socket,       \* its socket: "none", "connecting", "alive", "dead"
                        \*   (the proxy will close it) or "closing"
          stale,        \* how many of its earlier sockets are still closing
          fresh,        \* failed objects: timers of 50 ms that have not fired
          due,          \* retries of which only the timer of 1 s is left
          hardResetRequested,
          status,       \* what the page says: "info", "killed" or "none"
          leaves, drops, errors, slow,
          hasty,        \* history: in this visit a connection was begun before all
                        \*   that earlier ones had left under way was over
          abandoned     \* history: the objects replaced while they were watched

objectVars == <<rfbState, socket, stale, fresh>>
pageVars == <<rfb, connectLoop, hardResetRequested, status>>
serverVars == <<on, password>>
boundVars == <<leaves, drops, errors, slow>>
historyVars == <<hasty, abandoned>>
tabVars == <<serverVars, objectVars, due, pageVars, boundVars, historyVars>>

Objects == 1 .. MaxVisits

Live == {"connecting", "alive", "dead"}

TabInit ==
    /\ on \in BOOLEAN
    /\ password \in {"right", "wrong", "missing"}
    /\ rfb = 0
    /\ connectLoop = FALSE
    /\ rfbState = [o \in Objects |-> "loaded"]
    /\ socket = [o \in Objects |-> "none"]
    /\ stale = [o \in Objects |-> 0]
    /\ fresh = [o \in Objects |-> 0]
    /\ due = 0
    /\ hardResetRequested = FALSE
    /\ status = "info"
    /\ leaves = 0
    /\ drops = 0
    /\ errors = 0
    /\ slow = 0
    /\ hasty = FALSE
    /\ abandoned = {}

(***************************************************************************)
(* updateState: a state that is entered again is ignored, and the          *)
(* disconnected ones close the socket.                                     *)
(***************************************************************************)
Closing(s) == IF s \in Live THEN "closing" ELSE s

\* An object without a connection, whose socket is s.
Enter(o, state, s) ==
    /\ rfbState' = [rfbState EXCEPT ![o] = state]
    /\ socket' = [socket EXCEPT ![o] = Closing(s)]

\* onUpdateState: a retry in a second, which is after the timer of 50 ms.
FailStatus == status' = IF hardResetRequested THEN "killed" ELSE "info"

RetryLater_WhenDropped(o) == rfbState[o] = "normal"

RetryLater(o) == TRUE

Fail(o, s) ==
    /\ Enter(o, "failed", s)
    /\ fresh' = [fresh EXCEPT ![o] = @ + IF RetryLater(o) THEN 1 ELSE 0]
    /\ FailStatus

\* A socket of the object has closed; the present one is s.
OnClose(o, s) ==
    IF rfbState[o] = "disconnect"
      THEN Enter(o, "disconnected", s) /\ UNCHANGED <<fresh, status>>
    ELSE IF rfbState[o] \in {"failed", "disconnected"}
      THEN socket' = [socket EXCEPT ![o] = s] /\ UNCHANGED <<rfbState, fresh, status>>
    ELSE Fail(o, s)

\* rfb.connect: a live socket is closed, and a closing one forgotten.
Connect(o) ==
    /\ rfbState' = [rfbState EXCEPT ![o] = "connect"]
    /\ socket' = [socket EXCEPT ![o] = "connecting"]
    /\ stale' = [stale EXCEPT ![o] = @ + IF socket[o] = "none" THEN 0 ELSE 1]

(***************************************************************************)
(* The user.                                                               *)
(***************************************************************************)
\* Nothing is under way that could act on a new object: no timer is, and no
\* object is connected or about to be disconnected.
Quiet ==
    /\ due = 0
    /\ \A o \in 1 .. rfb : fresh[o] = 0 /\ rfbState[o] \in {"disconnected", "failed"}

ClickConsole ==
    /\ rfb < MaxVisits
    /\ rfb' = rfb + 1
    /\ connectLoop' = TRUE
    /\ Connect(rfb + 1)
    /\ hasty' = ~Quiet
    /\ abandoned' = abandoned \union (IF connectLoop THEN {rfb} ELSE {})
    /\ UNCHANGED <<serverVars, fresh, due, hardResetRequested, status, boundVars>>

ClickOtherTab ==
    /\ rfb > 0
    /\ leaves < MaxLeaves
    /\ leaves' = leaves + 1
    /\ connectLoop' = FALSE
    /\ IF rfbState[rfb] = "disconnect" THEN UNCHANGED <<rfbState, socket>>
       ELSE Enter(rfb, "disconnect", socket[rfb])
    /\ UNCHANGED <<serverVars, stale, fresh, due, rfb, hardResetRequested, status, drops,
                   errors, slow, historyVars>>

\* The request itself is one of the power operations.
ClickHardReset ==
    /\ connectLoop
    /\ hardResetRequested' = TRUE
    /\ UNCHANGED <<serverVars, objectVars, due, rfb, connectLoop, status, boundVars,
                   historyVars>>

(***************************************************************************)
(* Timers.                                                                 *)
(***************************************************************************)
\* 3 s after a disconnect that was not followed by a close event.
DisconnectTimeout(o) ==
    /\ rfbState[o] = "disconnect"
    /\ Fail(o, socket[o])
    /\ UNCHANGED <<serverVars, stale, due, rfb, connectLoop, hardResetRequested,
                   boundVars, historyVars>>

\* 50 ms after a failure, whatever the object is about by then.  Its callback
\* sees `disconnected', for which there is no retry.
NowDue_Twice == due + 2

NowDue == due + 1

MakeDisconnected(o) ==
    /\ fresh[o] > 0
    /\ fresh' = [fresh EXCEPT ![o] = @ - 1]
    /\ due' = NowDue
    /\ IF rfbState[o] \in {"failed", "disconnected"} THEN UNCHANGED <<rfbState, socket>>
       ELSE Enter(o, "disconnected", socket[o])
    /\ UNCHANGED <<serverVars, stale, pageVars, boundVars, historyVars>>

\* connect, 1 s after a failure.  A socket still closing is a slow one.
MayConnect_Always == TRUE

MayConnect_Disconnected == connectLoop /\ rfbState[rfb] = "disconnected"

MayConnect == connectLoop

Slow == socket[rfb] = "closing" \/ stale[rfb] > 0

Retry ==
    /\ due > 0
    /\ due' = due - 1
    /\ IF MayConnect /\ rfbState[rfb] # "connect"
         THEN /\ Slow => slow < MaxSlow
              /\ slow' = slow + IF Slow THEN 1 ELSE 0
              /\ hasty' = (hasty \/ Slow)
              /\ Connect(rfb)
         ELSE UNCHANGED <<slow, hasty, rfbState, socket, stale>>
    /\ UNCHANGED <<serverVars, fresh, pageVars, leaves, drops, errors, abandoned>>

(***************************************************************************)
(* Events of the sockets.                                                  *)
(***************************************************************************)
Open(o) ==
    /\ socket[o] = "connecting"
    /\ rfbState' = [rfbState EXCEPT ![o] = "ProtocolVersion"]
    /\ socket' = [socket EXCEPT ![o] = IF on THEN "alive" ELSE "dead"]
    /\ UNCHANGED <<serverVars, stale, fresh, due, pageVars, boundVars, historyVars>>

\* The rest of the handshake.
BecomeNormal(o) ==
    /\ socket[o] = "alive"
    /\ rfbState[o] = "ProtocolVersion"
    /\ password = "right"
    /\ rfbState' = [rfbState EXCEPT ![o] = "normal"]
    /\ status' = "none"
    /\ hardResetRequested' = FALSE
    /\ UNCHANGED <<serverVars, socket, stale, fresh, due, rfb, connectLoop, boundVars,
                   historyVars>>

\* The page's onPasswordRequired only logs.
AskPassword(o) ==
    /\ socket[o] = "alive"
    /\ rfbState[o] = "ProtocolVersion"
    /\ password = "missing"
    /\ rfbState' = [rfbState EXCEPT ![o] = "password"]
    /\ UNCHANGED <<serverVars, socket, stale, fresh, due, pageVars, boundVars, historyVars>>

\* The client gives up: a version, a security type or a result it cannot go on
\* with, or a message or an encoding it does not know.
GiveUp(o) ==
    /\ socket[o] = "alive"
    /\ Fail(o, socket[o])
    /\ UNCHANGED <<serverVars, stale, due, rfb, connectLoop, hardResetRequested, leaves,
                   drops,
                   slow, historyVars>>

RefuseServer(o) ==
    /\ rfbState[o] = "ProtocolVersion"
    /\ IF password = "wrong" THEN UNCHANGED errors
       ELSE errors < MaxErrors /\ errors' = errors + 1
    /\ GiveUp(o)

RefuseMessage(o) ==
    /\ rfbState[o] = "normal"
    /\ errors < MaxErrors
    /\ errors' = errors + 1
    /\ GiveUp(o)

CloseEvent(o) ==
    /\ socket[o] \in {"dead", "closing"}
    /\ OnClose(o, "none")
    /\ UNCHANGED <<serverVars, stale, due, rfb, connectLoop, hardResetRequested,
                   boundVars, historyVars>>

StaleCloseEvent(o) ==
    /\ stale[o] > 0
    /\ stale' = [stale EXCEPT ![o] = @ - 1]
    /\ OnClose(o, socket[o])
    /\ UNCHANGED <<serverVars, due, rfb, connectLoop, hardResetRequested, boundVars,
                   historyVars>>

Drop(o) ==
    /\ socket[o] \in {"connecting", "alive"}
    /\ drops < MaxDrops
    /\ drops' = drops + 1
    /\ socket' = [socket EXCEPT ![o] = "dead"]
    /\ UNCHANGED <<serverVars, rfbState, stale, fresh, due, pageVars, leaves, errors,
                   slow, historyVars>>

\* The machine comes or goes, and its connections go with it.
Follow(up) ==
    /\ on # up
    /\ on' = up
    /\ socket' = IF up THEN socket
                 ELSE [o \in Objects |-> IF socket[o] = "alive" THEN "dead" ELSE socket[o]]
    /\ UNCHANGED <<password, rfbState, stale, fresh, due, pageVars, boundVars, historyVars>>

-----------------------------------------------------------------------------
User == ClickConsole \/ ClickOtherTab \/ ClickHardReset

Timers ==
    \/ \E o \in Objects : DisconnectTimeout(o) \/ MakeDisconnected(o)
    \/ Retry

Handshake(o) == BecomeNormal(o) \/ AskPassword(o) \/ RefuseServer(o)

Events ==
    \E o \in Objects :
        Open(o) \/ Handshake(o) \/ RefuseMessage(o) \/ CloseEvent(o) \/ StaleCloseEvent(o)

TabNext == User \/ Timers \/ Events \/ \E o \in Objects : Drop(o)

TabSpec == TabInit /\ [][TabNext \/ \E up \in BOOLEAN : Follow(up)]_tabVars

TabFairness ==
    /\ WF_tabVars(Retry)
    /\ \A o \in Objects :
         /\ WF_tabVars(DisconnectTimeout(o) \/ MakeDisconnected(o))
         /\ WF_tabVars(Open(o) \/ Handshake(o))
         /\ WF_tabVars(CloseEvent(o))
         /\ WF_tabVars(StaleCloseEvent(o))

(***************************************************************************)
(* Properties.                                                             *)
(***************************************************************************)

\* A connection is that of the console the user watches, or of an object that
\* a click on Console replaced while it was watched, which nobody disconnects:
\* when the user has gone to another tab no other is left and none is made,
\* whatever timers were running and however often the user came and went
\* (connectLoop and the order of its reader and writer).
AwayIsQuiet ==
    \A o \in Objects :
        socket[o] \in Live => (o = rfb /\ connectLoop) \/ o \in abandoned

\* While the user watches, a console that is not connected is about to be
\* tried again: no order of failures, clicks and timers loses the retry.  Only
\* a client that asks for a password waits for the server to close.
NeverStuck ==
    connectLoop => \/ rfbState[rfb] \in {"connect", "ProtocolVersion", "password", "normal"}
                   \/ due > 0
                   \/ fresh[rfb] > 0

\* A console that shows the machine is only lost when the user leaves, the
\* machine goes, the network drops it or the client gives up over a message
\* -- unless this visit, or a retry in it, began before all of an earlier
\* connection was over (hasty): then a retry of the old connection, or the
\* close event of its socket, may end the new one.
KeptAlive ==
    [][ rfb > 0 /\ rfb' = rfb /\ rfbState[rfb] = "normal" /\ rfbState'[rfb] # "normal"
        => hasty \/ ~connectLoop' \/ socket[rfb] = "dead" \/ errors' > errors ]_tabVars

\* If the user stays and the machine stays, and the page has its password,
\* the console comes back and stays, also after what KeptAlive leaves out.
BackOn ==
    <>[](connectLoop /\ on /\ password = "right")
        => <>[](rfb > 0 /\ rfbState[rfb] = "normal")

=============================================================================
