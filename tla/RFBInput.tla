------------------------------ MODULE RFBInput ------------------------------
(***************************************************************************)
(* Keyboard and mouse of the console page: Keyboard and Mouse of input.js  *)
(* and the handlers of rfb.js that turn their events into messages.        *)
(*                                                                         *)
(* The browser sends a keydown again and again while a key is held, and a  *)
(* keyup only to a window that has the focus.  A key that is not special   *)
(* is reported by the keypress that follows its keydown at once.  Keys     *)
(* with keyCode 229 (no keyup matches them, the code ignores them) and     *)
(* touch screens are left out; a turn of the wheel sets and clears its bit *)
(* in one handler and is left out too.                                     *)
(***************************************************************************)
EXTENDS Naturals, Sequences

CONSTANTS Letters,    \* keys whose character comes with the keypress
          Special,    \* keys reported by their keydown: arrows, Escape, ...
          Shift,      \* one of them, which changes the letters
          Buttons,    \* of the mouse
          MaxRepeat   \* bound: length of keyDownList

ASSUME InputAssumption ==
    /\ Shift \in Special
    /\ Letters \intersect Special = {}
    /\ MaxRepeat \in Nat

VARIABLES grab,         \* the page's handlers: "not yet", "on" or "off" installed
          focus,        \* has the window the focus?
          down,         \* the keys the user holds
          keyDownList,  \* of the Keyboard: the keydowns without a keyup
          held,         \* keysyms the server was told are down
          pressed,      \* the buttons the user holds
          mouseCaptured,
          mask,         \* mouse_buttonMask, as a set
          two           \* history: two buttons were held at the same time

keyVars == <<down, keyDownList, held>>
mouseVars == <<pressed, mouseCaptured, mask, two>>
inputVars == <<grab, focus, keyVars, mouseVars>>

Keys == Letters \union Special

\* The keysym of a key: a letter's depends on Shift at its keypress.
Keysyms == Special \union (Letters \X BOOLEAN)

Keysym(k) == IF k \in Special THEN k ELSE <<k, Shift \in down>>

Entry == [code : Keys, keysym : Keysyms]

InputInit ==
    /\ grab = "not yet"
    /\ focus = TRUE
    /\ down = {}
    /\ keyDownList = <<>>
    /\ held = {}
    /\ pressed = {}
    /\ mouseCaptured = FALSE
    /\ mask = {}
    /\ two = FALSE

(***************************************************************************)
(* Keyboard.                                                               *)
(***************************************************************************)
Grabbed == grab = "on"

Listening == Grabbed /\ focus

\* pushKeyEvent, and for a letter the keysym that its keypress stores.
PushKeyEvent_NoKeysym(k) == Append(keyDownList, [code |-> k, keysym |-> k])

PushKeyEvent(k) == Append(keyDownList, [code |-> k, keysym |-> Keysym(k)])

\* A key goes down, or repeats: onKeyDown and, for a letter, onKeyPress.
OnKeyDown(k) ==
    /\ Len(keyDownList) < MaxRepeat
    /\ down' = down \union {k}
    /\ IF Listening
         THEN /\ keyDownList' = PushKeyEvent(k)
              /\ held' = held \union {Keysym(k)}
         ELSE UNCHANGED <<keyDownList, held>>
    /\ UNCHANGED <<grab, focus, mouseVars>>

\* getKeyEvent(keyCode, true) takes out the last entry of the key.
IsLast(i, k) ==
    /\ keyDownList[i].code = k
    /\ \A j \in DOMAIN keyDownList : keyDownList[j].code = k => j <= i

Without(i) == [j \in 1 .. Len(keyDownList) - 1 |->
                 IF j < i THEN keyDownList[j] ELSE keyDownList[j + 1]]

PopKeyEvent(k) ==
    IF \E i \in DOMAIN keyDownList : keyDownList[i].code = k
      THEN \E i \in DOMAIN keyDownList :
             /\ IsLast(i, k)
             /\ keyDownList' = Without(i)
             /\ held' = held \ {keyDownList[i].keysym}
      ELSE UNCHANGED <<keyDownList, held>>

OnKeyUp(k) ==
    /\ k \in down
    /\ down' = down \ {k}
    /\ IF Listening THEN PopKeyEvent(k) ELSE UNCHANGED <<keyDownList, held>>
    /\ UNCHANGED <<grab, focus, mouseVars>>

\* An up for the keysym of every entry of the list.
Listed == {keyDownList[i].keysym : i \in DOMAIN keyDownList}

AllKeysUp == keyDownList' = <<>> /\ held' = held \ Listed

Blur ==
    /\ focus
    /\ focus' = FALSE
    /\ IF Grabbed THEN AllKeysUp ELSE UNCHANGED <<keyDownList, held>>
    /\ UNCHANGED <<grab, down, mouseVars>>

Focus == ~focus /\ focus' = TRUE /\ UNCHANGED <<grab, keyVars, mouseVars>>

(***************************************************************************)
(* Mouse.  A mousedown reaches the page only over the canvas; a mouseup is *)
(* seen wherever it happens, and only while mouseCaptured is set.          *)
(***************************************************************************)
MaskOr(b) == mask \union {b}

MaskXor_Or(b) == mask \union {b}

MaskXor(b) == IF b \in mask THEN mask \ {b} ELSE mask \union {b}

OnMouseDown(b, overCanvas) ==
    /\ b \notin pressed
    /\ pressed' = pressed \union {b}
    /\ two' = (two \/ pressed # {})
    /\ IF Grabbed /\ overCanvas
         THEN mouseCaptured' = TRUE /\ mask' = MaskOr(b)
         ELSE UNCHANGED <<mouseCaptured, mask>>
    /\ UNCHANGED <<grab, focus, keyVars>>

OnMouseUp(b) ==
    /\ b \in pressed
    /\ pressed' = pressed \ {b}
    /\ IF Grabbed /\ mouseCaptured
         THEN mouseCaptured' = FALSE /\ mask' = MaskXor(b)
         ELSE UNCHANGED <<mouseCaptured, mask>>
    /\ UNCHANGED <<grab, focus, keyVars, two>>

(***************************************************************************)
(* The page connects once: its connection becomes normal, and ends.        *)
(***************************************************************************)
Grab == grab' = "on" /\ UNCHANGED <<focus, keyVars, mouseVars>>

Ungrab ==
    /\ grab' = "off"
    /\ IF Grabbed THEN AllKeysUp ELSE UNCHANGED <<keyDownList, held>>
    /\ UNCHANGED <<focus, down, mouseVars>>

InputStarts ==
    \/ \E k \in Keys : OnKeyDown(k)
    \/ \E b \in Buttons, over \in BOOLEAN : OnMouseDown(b, over)
    \/ Blur

InputEnds ==
    \/ \E k \in Keys : OnKeyUp(k)
    \/ \E b \in Buttons : OnMouseUp(b)
    \/ Focus

InputNext ==
    \/ InputStarts
    \/ InputEnds
    \/ grab = "not yet" /\ Grab
    \/ Grabbed /\ Ungrab

InputSpec == InputInit /\ [][InputNext]_inputVars

(***************************************************************************)
(* Properties.                                                             *)
(***************************************************************************)

\* No key is stuck: the code still lists every key that the server believes
\* to be down, so that the next keyup, blur or end of the connection lets it
\* go (Keyboard; a key repeated while Shift changes has several entries).
NoKeyStuck == held \subseteq Listed

\* The mask that goes to the server has only buttons that the user holds,
\* and all those pressed over the canvas (Mouse, mouseButton) -- as long as
\* two buttons were never held at the same time: the first mouseup ends the
\* capture, the second is disregarded and its button stays down.
ButtonsMatch ==
    Grabbed /\ ~two =>
        /\ mask \subseteq pressed
        /\ mouseCaptured => mask = pressed

=============================================================================
