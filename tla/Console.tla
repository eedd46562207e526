------------------------------ MODULE Console ------------------------------
(***************************************************************************)
(* The console page of the backend (console.html): the connection of       *)
(* RFBStream with the keyboard and mouse of RFBInput.  Keys and clicks are *)
(* sent with update requests, the page polls for updates besides, and the  *)
(* handlers of keyboard and mouse come and go with the connection.         *)
(***************************************************************************)
EXTENDS RFBStream, RFBInput

VARIABLES moved,    \* has mouse_arr movements that were not sent?
          askTimer  \* the request that follows 50 ms after a pointer event

mouseQueue == <<moved, askTimer>>
vars == <<streamVars, inputVars, mouseQueue>>

Init == StreamInit /\ InputInit /\ moved = FALSE /\ askTimer = FALSE

(***************************************************************************)
(* Events of the network, of timers and of the password form.              *)
(***************************************************************************)
\* keyboard.grab and mouse.grab at ServerInitialisation, ungrab in a state of
\* no connection.
Follow ==
    CASE rfb_state # "normal" /\ rfb_state' = "normal" -> Grab
      [] Grabbed /\ rfb_state' \in Unconnected -> Ungrab
      [] OTHER -> UNCHANGED inputVars

PageEvent ==
    /\ \/ OnOpen \/ Drop \/ ConnectTimeout \/ FailedTimer
       \/ Receive \/ MsgTimer \/ SendPassword \/ InitTimer
       \/ AnimFrame \/ Flush
       \/ \E n \in loading : ImageLoads(n)
    /\ Follow
    /\ UNCHANGED mouseQueue

ServerEvent ==
    /\ ServerReads \/ Draw \/ ServerUpdates \/ \E m \in Notices : Notice(m)
    /\ UNCHANGED <<inputVars, mouseQueue>>

(***************************************************************************)
(* Events of the user.                                                     *)
(***************************************************************************)
Rest == <<server, dirty, sent, mixed, wire, link, said, torn, pageVars, drawVars>>

\* keyPress of rfb.js sends a key together with update requests; mouseButton
\* and flushClient send the pointer events, and the requests 50 ms later.
SendsKeys == IF keyDownList' # keyDownList THEN Ask ELSE UNCHANGED <<asked, unsent>>

SendsPointer ==
    IF <<mask, mouseCaptured>>' # <<mask, mouseCaptured>>
      THEN moved' = FALSE /\ askTimer' = TRUE
      ELSE UNCHANGED mouseQueue

\* Keys and buttons that go down while the page is not connected are left out:
\* they touch nothing of it.
UserEvent ==
    /\ \/ Grabbed /\ InputStarts /\ Spend("user")
       \/ grab # "not yet" /\ InputEnds /\ UNCHANGED budget
    /\ SendsKeys /\ SendsPointer
    /\ UNCHANGED Rest

MouseMove ==
    /\ Grabbed /\ Spend("user")
    /\ moved' = TRUE
    /\ UNCHANGED <<Rest, asked, unsent, askTimer, inputVars>>

AskTimer ==
    /\ askTimer /\ askTimer' = FALSE
    /\ Ask
    /\ UNCHANGED <<Rest, budget, moved, inputVars>>

\* Every 217 ms: movements, or a request when the last is long enough ago.
CheckEvents ==
    /\ rfb_state = "normal"
    /\ IF moved THEN moved' = FALSE /\ askTimer' = TRUE /\ UNCHANGED <<asked, unsent>>
                ELSE Ask /\ UNCHANGED mouseQueue
    /\ UNCHANGED <<Rest, budget, inputVars>>

Next ==
    /\ ~confused
    /\ PageEvent \/ ServerEvent \/ UserEvent \/ MouseMove \/ AskTimer \/ CheckEvents

\* What the page, the network and the server have begun goes on, timers run
\* and images load.  Nothing makes the user act, the server draw, the form be
\* submitted or the connection end.
Progress ==
    \/ /\ \/ AnimFrame \/ OnOpen \/ ConnectTimeout \/ InitTimer \/ MsgTimer \/ Receive
          \/ \E n \in loading : ImageLoads(n)
       /\ Follow /\ UNCHANGED mouseQueue
    \/ (ServerReads \/ ServerUpdates) /\ UNCHANGED <<inputVars, mouseQueue>>

Fairness ==
    /\ WF_vars(Progress)
    /\ WF_vars(Flush /\ UNCHANGED <<inputVars, mouseQueue>>)
    /\ WF_vars(CheckEvents)

Spec == Init /\ [][Next]_vars /\ Fairness

(***************************************************************************)
(* Properties.                                                             *)
(***************************************************************************)

\* The reader of the stream (normal_msg, framebufferUpdate, the encoding
\* handlers) takes no bytes for something else, however the proxy cuts them
\* into frames -- unless a frame ended right after the header of a COPYRECT or
\* RRE rectangle, or after the type of a colour map: those do not wait.  Nor
\* does init_msg, unless the password form was submitted twice.
NothingMisread == confused => torn \/ again

\* Rectangles are painted in the order in which the server sent them
\* (renderQ_push, scan_renderQ), unless it sends pixels that are drawn
\* directly while an image of an earlier rectangle is still being loaded.
PaintedInOrder == disorder => mixed

\* The page does not go on as if connected when its connection is gone
\* (onclose, connTimer, updateState).
ClosedIsSaid == link = "closed" => rfb_state \in Unconnected

Behind == dirty \/ canvas < sent

\* What is on the server's screen comes to be on the canvas while the
\* connection lives, even when nobody touches the page (checkEvents, the
\* send timer, msgTimer, the render queue).
EventuallyShown ==
    rfb_state = "normal" /\ Behind ~> ~Behind \/ rfb_state # "normal" \/ confused

\* The handshake ends: the page is connected, has failed, or shows the form
\* for a password nobody types -- unless the form, which stays until the
\* server has answered, is submitted twice.
HandshakeEnds == []<>(rfb_state \in {"normal", "password"} \union Unconnected \/ again)

=============================================================================
