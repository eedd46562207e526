----------------------------- MODULE RFBStream -----------------------------
(***************************************************************************)
(* The connection of the console page: the receive queue of websock.js,    *)
(* the protocol of rfb.js and the render queue of display.js, against a    *)
(* VNC server behind a proxy that cuts its bytes into frames as it likes.  *)
(*                                                                         *)
(* A token stands for the bytes that the code waits for together, so that  *)
(* a frame which ends inside a token is one that ends before it.  Bytes    *)
(* that are taken for something else leave the page in a state that        *)
(* depends on their values: the model stops there (`confused').  The page  *)
(* connects once and asks for true colour; servers with an unknown version *)
(* or encoding, repeaters and the pixels themselves are left out.          *)
(***************************************************************************)
EXTENDS Naturals, Sequences, SequencesExt

CONSTANTS Updates,   \* what an update may consist of: sequences of encodings
          Notices,   \* other messages: a subset of {"BELL", "CUT", "COLOURS"}
          Scenarios  \* bound: how many events of the user and of the server there
                     \*   may be, and whether the screen has to be drawn at first

ASSUME StreamAssumption ==
    /\ Notices \subseteq {"BELL", "CUT", "COLOURS"}
    /\ Scenarios \subseteq [user : Nat, server : Nat, dirty : BOOLEAN]

VARIABLES
    server,     \* [version, auth, phase]: the phase is what it waits for
    wire,       \* tokens on their way to the page
    link,       \* the WebSocket: "connecting", "open" or "closed"
    said,       \* handshake messages on their way to the server
    dirty,      \* has the screen changed since the last update?
    asked,      \* has the server an update request it has not answered?
    sent,       \* number of the last rectangle with pixels it sent
    budget,     \* how many more events there may be
    rfb_state,
    rQ,         \* what was received and not read yet, the queue from rQi on
    FBU,        \* the update being read, see NoUpdate
    timers,     \* those that run, of {"conn", "msg", "fail", "init"}
    prompt,     \* is the password form on the page?
    password,   \* does the page know a password?
    unsent,     \* does an update request wait in the send queue?
    renderQ,    \* drawing actions of the Display that wait
    loading,    \* rectangles whose image is not complete
    canvas,     \* the last rectangle painted
    disorder,   \* history: a rectangle was painted over a later one
    confused,   \* history: bytes were taken for something else
    torn,       \* history: a frame ended where rfb.js does not wait properly
    mixed,      \* history: direct pixels were sent after an image
    again       \* history: the form was submitted when it had been before

serverVars == <<server, dirty, sent, budget, mixed>>
linkVars == <<wire, link, said, asked, unsent, torn>>
pageVars == <<rfb_state, rQ, FBU, timers, prompt, password, confused, again>>
drawVars == <<renderQ, loading, canvas, disorder>>
streamVars == <<serverVars, linkVars, pageVars, drawVars>>

(***************************************************************************)
(* Encodings.                                                              *)
(***************************************************************************)
Direct == {"RAW", "RRE", "HEXTILE"}       \* drawn by their handlers
Queued == {"COPYRECT", "TIGHT", "IMAGE"}  \* passed to renderQ_push; an IMAGE
                                          \*   is a TIGHT rectangle in JPEG or PNG
Quiet == {"Cursor", "DesktopSize", "last_rect"}

Encodings == Direct \union Queued \union Quiet

\* The last rectangle of an update may be followed by none.
ASSUME UpdatesAssumption ==
    /\ Updates \subseteq Seq(Encodings)
    /\ \A encs \in Updates : \A i \in DOMAIN encs :
          encs[i] = "last_rect" => i = Len(encs)

\* The tokens of a rectangle after its header: lines, subrectangles, tiles, ...
Parts(enc) == CASE enc \in {"RAW", "RRE", "HEXTILE"} -> 2
                [] enc \in {"DesktopSize", "last_rect"} -> 0
                [] OTHER -> 1

\* Handlers that wait for their first part with FBU.bytes still 0: when they
\* are called again the loop has read a rectangle header instead.
Forgets == {"COPYRECT", "RRE"}

Token(k, v, n) == [k |-> k, v |-> v, n |-> n]

Kinds == Encodings \union
         {"version", "scheme", "types", "challenge", "result", "refused", "serverinit",
          "FBU", "count", "rect", "BELL", "CUT", "length", "text",
          "COLOURS", "range", "colours"}

RectTokens(enc, n) ==
    <<Token("rect", enc, n)>> \o [i \in 1 .. Parts(enc) |-> Token(enc, enc, n)]

\* rects: those to come; of the current one its encoding, its number and the
\* tokens left; waiting is FBU.bytes > 0.
NoUpdate == [rects |-> 0, enc |-> "RAW", num |-> 0, left |-> 0, waiting |-> FALSE]

StreamInit ==
    /\ server \in [version : {"3.3", "3.7", "3.8"}, auth : {"none", "vnc"},
                   phase : {"accept"}]
    /\ wire = <<>> /\ link = "connecting" /\ said = <<>>
    /\ budget \in Scenarios /\ dirty = budget.dirty /\ asked = FALSE /\ sent = 0
    /\ rfb_state = "connect" /\ rQ = <<>> /\ FBU = NoUpdate
    /\ timers = {"conn"} /\ prompt = FALSE
    /\ password \in BOOLEAN /\ (server.auth = "none" => password)
    /\ unsent = FALSE
    /\ renderQ = <<>> /\ loading = {} /\ canvas = 0 /\ disorder = FALSE
    /\ confused = FALSE /\ torn = FALSE /\ mixed = FALSE /\ again = FALSE

(***************************************************************************)
(* The server (external).                                                  *)
(***************************************************************************)
Handshake(k) == Token(k, "", 0)

Send(tokens) == wire' = IF link = "open" THEN wire \o tokens ELSE wire

\* What follows what the page said.
Reply(m) ==
    CASE m = "version" /\ server.version = "3.3" ->
           <<Handshake("scheme")>> \o
           (IF server.auth = "vnc" THEN <<Handshake("challenge")>> ELSE <<>>)
      [] m = "version" /\ server.version # "3.3" -> <<Handshake("types")>>
      [] m = "scheme" /\ server.auth = "vnc" -> <<Handshake("challenge")>>
      [] m = "scheme" /\ server.auth = "none" /\ server.version = "3.8" ->
           <<Handshake("result")>>
      [] m = "response" -> <<Handshake("result")>>
      [] m = "init" -> <<Handshake("serverinit")>>
      [] OTHER -> <<>>

\* After the handshake its version and scheme matter no more.
Served == [version |-> "3.8", auth |-> "none", phase |-> "init"]

ServerReads ==
    /\ link = "open" /\ said # <<>>
    /\ said' = Tail(said)
    /\ server' = IF Head(said) = "init" THEN Served ELSE [server EXCEPT !.phase = Head(said)]
    /\ \/ Send(Reply(Head(said)))
       \/ /\ Head(said) = "response"      \* a wrong password
          /\ Send(<<Handshake("refused")>>)
    /\ UNCHANGED <<dirty, sent, budget, mixed, link, asked, unsent, torn, pageVars, drawVars>>

Ready == server.phase = "init" /\ link = "open"

Spend(who) == budget[who] > 0 /\ budget' = [budget EXCEPT ![who] = @ - 1]

Draw ==
    /\ Ready /\ ~dirty /\ Spend("server")
    /\ dirty' = TRUE
    /\ UNCHANGED <<server, sent, mixed, linkVars, pageVars, drawVars>>

\* The rectangles of an update, those with pixels numbered from `sent' on, and
\* the number of the last.
Rects(encs) ==
    LET upto[i \in 0 .. Len(encs)] ==
          IF i = 0 THEN [tokens |-> <<>>, last |-> sent]
          ELSE LET before == upto[i - 1]
                   n == before.last + IF encs[i] \in Quiet THEN 0 ELSE 1
               IN  [tokens |-> before.tokens \o RectTokens(encs[i], n), last |-> n]
    IN  upto[Len(encs)]

UpdateTokens(encs) ==
    <<Handshake("FBU"), Token("count", "", Len(encs))>> \o Rects(encs).tokens

\* Direct pixels after an image that may still wait for its data.
Mixes(encs) ==
    \E j \in 1 .. Len(encs) :
       /\ encs[j] \in Direct
       /\ \/ renderQ # <<>>
          \/ \E t \in Range(wire \o rQ) : t.v = "IMAGE"
          \/ \E i \in 1 .. j - 1 : encs[i] = "IMAGE"

ServerUpdates ==
    /\ Ready /\ dirty /\ asked
    /\ dirty' = FALSE /\ asked' = FALSE
    /\ \E encs \in Updates :
         /\ Send(UpdateTokens(encs))
         /\ sent' = Rects(encs).last
         /\ mixed' = (mixed \/ Mixes(encs))
    /\ UNCHANGED <<server, budget, link, said, unsent, torn, pageVars, drawVars>>

NoticeTokens(m) ==
    CASE m = "BELL" -> <<Handshake("BELL")>>
      [] m = "CUT" -> <<Handshake("CUT"), Handshake("length"), Handshake("text")>>
      [] m = "COLOURS" -> <<Handshake("COLOURS"), Handshake("range"), Handshake("colours")>>

Notice(m) ==
    /\ Ready /\ Spend("server")
    /\ Send(NoticeTokens(m))
    /\ UNCHANGED <<server, dirty, sent, mixed, link, said, asked, unsent, torn,
                   pageVars, drawVars>>

(***************************************************************************)
(* updateState.  A state of no connection closes the socket: what it still *)
(* carries is dropped, and the Display is cleared.  Every change with a    *)
(* message replaces the password form.                                     *)
(***************************************************************************)
Unconnected == {"failed", "disconnected"}

Fail ==
    /\ rfb_state' = IF rfb_state = "failed" THEN rfb_state ELSE "failed"
    /\ link' = "closed" /\ wire' = <<>>
    /\ timers' = (timers \ {"conn", "msg"}) \union
                  (IF rfb_state = "failed" THEN {} ELSE {"fail"})
    /\ prompt' = FALSE
    /\ renderQ' = <<>>

ConnectTimeout ==
    /\ "conn" \in timers
    /\ Fail
    /\ UNCHANGED <<serverVars, said, asked, unsent, torn, rQ, FBU, password,
                   confused, again, loading, canvas, disorder>>

\* The WebSocket opens, and the server greets the page.
OnOpen ==
    /\ link = "connecting"
    /\ link' = "open"
    /\ wire' = <<Handshake("version")>>
    /\ rfb_state' = "ProtocolVersion"
    /\ timers' = timers \ {"conn"}
    /\ UNCHANGED <<serverVars, said, asked, unsent, torn, rQ, FBU, prompt, password,
                   confused, again, drawVars>>

\* It closes: the machine stopped, the proxy died.
OnClose_Ignored ==
    /\ link' = "closed" /\ wire' = <<>>
    /\ UNCHANGED <<rfb_state, timers, prompt, renderQ>>

OnClose == Fail

Drop ==
    /\ link # "closed"
    /\ OnClose
    /\ UNCHANGED <<serverVars, said, asked, unsent, torn, rQ, FBU, password,
                   confused, again, loading, canvas, disorder>>

\* 50 ms after a failure.
FailedTimer ==
    /\ "fail" \in timers
    /\ timers' = timers \ {"fail", "msg"}
    /\ rfb_state' = IF rfb_state = "failed" THEN "failed" ELSE "disconnected"
    /\ UNCHANGED <<serverVars, linkVars, rQ, FBU, prompt, password, confused, again, drawVars>>

(***************************************************************************)
(* init_msg.  A result has the next state, the tokens left, what is said   *)
(* to the server and whether the form is shown.                            *)
(***************************************************************************)
Goes(state, q, says) == [state |-> state, q |-> q, says |-> says]

ClientInitialisation(q, says) == Goes("ServerInitialisation", q, says \o <<"init">>)

Authentication_Result(q, says) == Goes("SecurityResult", q, says)

\* Submitted again the form makes the page wait for a second challenge of 16
\* bytes: a result is too short for it, a refusal with its reason is taken for it.
TooShort(t) == t.k = "result" \/ (t.k = "refused" /\ server.version # "3.8")

Mistakes(q) ==
    /\ rfb_state = "Authentication" /\ server.auth = "vnc" /\ server.version = "3.8"
    /\ password /\ q # <<>> /\ Head(q).k = "refused"

Authentication(q, says) ==
    CASE server.auth = "none" ->
           IF server.version = "3.8" THEN Goes("SecurityResult", q, says)
                                     ELSE ClientInitialisation(q, says)
      [] server.auth = "vnc" /\ ~password -> Goes("password", q, says)
      [] server.auth = "vnc" /\ password ->
           IF q = <<>> \/ TooShort(Head(q))
             THEN Goes("Authentication", q, says)
             ELSE Goes("SecurityResult", Tail(q), says \o <<"response">>)

InitMsg(q) ==
    CASE rfb_state \in {"password", "connect"} -> Goes(rfb_state, q, <<>>)
      [] rfb_state = "Authentication" -> Authentication(q, <<>>)
      [] q = <<>> /\ rfb_state # "Authentication" -> Goes(rfb_state, q, <<>>)
      [] OTHER ->
           CASE rfb_state = "ProtocolVersion" -> Goes("Security", Tail(q), <<"version">>)
             [] rfb_state = "Security" ->
                  Authentication(Tail(q), IF server.version = "3.3" THEN <<>> ELSE <<"scheme">>)
             [] rfb_state = "SecurityResult" ->
                  IF Head(q).k = "refused" THEN Goes("failed", q, <<>>)
                                           ELSE ClientInitialisation(Tail(q), <<>>)
             [] rfb_state = "ServerInitialisation" -> Goes("normal", Tail(q), <<>>)

\* Update requests go out with everything else in the send queue, unless the
\* socket's buffer is full.
Ask == \/ asked' = TRUE /\ unsent' = FALSE
       \/ asked' = asked /\ unsent' = TRUE

\* Back to the event loop from init_msg with result r.
Initialised(r) ==
    IF r.state = "failed"
      THEN Fail /\ rQ' = r.q /\ UNCHANGED <<said, asked, unsent, loading, canvas, disorder>>
      ELSE /\ rfb_state' = r.state
           /\ rQ' = r.q
           /\ said' = said \o r.says
           /\ prompt' = CASE r.state = "password" -> TRUE
                          [] r.state \in {"Authentication", "SecurityResult"} -> prompt
                          [] OTHER -> FALSE
           /\ IF r.state = "normal" THEN Ask ELSE UNCHANGED <<asked, unsent>>
           /\ UNCHANGED <<link, drawVars>>

(***************************************************************************)
(* Display: painting, at once or through the render queue.  d is the       *)
(* display's state; an image that is not complete holds back what follows. *)
(***************************************************************************)
Displays == [queue : Seq(Nat), loading : SUBSET Nat, canvas : Nat, disorder : BOOLEAN]

Shown == [queue |-> renderQ, loading |-> loading, canvas |-> canvas, disorder |-> disorder]

Paint(d, n) == [d EXCEPT !.disorder = @ \/ n < d.canvas,
                         !.canvas = IF n > @ THEN n ELSE @]

Scan[d \in Displays] ==
    IF d.queue = <<>> \/ Head(d.queue) \in d.loading THEN d
    ELSE Scan[[Paint(d, Head(d.queue)) EXCEPT !.queue = Tail(@)]]

\* renderQ_push: the first in the queue is tried at once.
Push_Eager(d, n, image) ==
    IF image
      THEN [d EXCEPT !.queue = Append(@, n), !.loading = @ \union {n}]
      ELSE Paint(d, n)

Push(d, n, image) ==
    LET e == [d EXCEPT !.queue = Append(@, n),
                       !.loading = IF image THEN @ \union {n} ELSE @]
    IN  IF Len(e.queue) = 1 THEN Scan[e] ELSE e

Render(d, enc, n) ==
    CASE enc \in Direct -> Paint(d, n)
      [] enc \in Queued -> Push(d, n, enc = "IMAGE")
      [] enc \in Quiet -> d

ImageLoads(n) ==
    /\ n \in loading
    /\ loading' = loading \ {n}
    /\ UNCHANGED <<serverVars, linkVars, pageVars, renderQ, canvas, disorder>>

\* requestAnimFrame, asked for as long as something waits.
AnimFrame ==
    LET d == Scan[Shown] IN
    /\ renderQ # <<>> /\ Head(renderQ) \notin loading
    /\ renderQ' = d.queue /\ canvas' = d.canvas /\ disorder' = d.disorder
    /\ UNCHANGED <<serverVars, linkVars, pageVars, loading>>

(***************************************************************************)
(* normal_msg.  s is the state of the reader: the tokens, the update, the  *)
(* display, whether to request an update; more is its return value.        *)
(***************************************************************************)
Waits(s) == [s EXCEPT !.more = FALSE]

Confused(s) == [s EXCEPT !.more = FALSE, !.confused = TRUE]

\* FBU.bytes > 0, when a handler has to wait for its next part.
Waiting(s) == ~(s.fbu.enc \in Forgets /\ s.fbu.left = Parts(s.fbu.enc))

\* The tokens of a rectangle have its encoding.
Tokens == {t \in [k : Kinds, v : Encodings \union {""}, n : Nat] :
             CASE t.k = "rect"       -> t.v \in Encodings
               [] t.k \in Encodings  -> t.v = t.k
               [] OTHER              -> t.v = ""}

Readers == [q : Seq(Tokens),
            fbu : [rects : Nat, enc : Encodings, num : Nat, left : Nat, waiting : BOOLEAN],
            d : Displays, asks : BOOLEAN, more : BOOLEAN, confused : BOOLEAN]

NextIs(s, k) == s.q # <<>> /\ Head(s.q).k = k

RectHeader(s) ==
    LET h == Head(s.q) IN
    [s EXCEPT !.q = Tail(@),
              !.fbu = [rects |-> @.rects, enc |-> h.v, num |-> h.n, left |-> Parts(h.v),
                       waiting |-> TRUE]]

\* A part of the current rectangle is drawn when it is there.
RectPart(s) == [s EXCEPT !.q = Tail(@), !.fbu.left = @ - 1,
                         !.d = Render(@, s.fbu.enc, s.fbu.num)]

RectDone(s) == [s EXCEPT !.fbu.rects = IF s.fbu.enc = "last_rect" THEN 0 ELSE @ - 1,
                         !.fbu.waiting = FALSE,
                         !.asks = @ \/ s.fbu.enc = "DesktopSize"]

\* The loop over the rectangles of an update.  A rectangle whose header was
\* read is its handler's until the handler returns with FBU.bytes = 0.
FramebufferUpdate[s \in Readers] ==
    CASE s.fbu.rects = 0 -> s
      [] s.fbu.rects > 0 /\ ~s.fbu.waiting ->
           IF NextIs(s, "rect") THEN FramebufferUpdate[RectHeader(s)]
             ELSE IF s.q = <<>> THEN Waits(s) ELSE Confused(s)
      [] s.fbu.rects > 0 /\ s.fbu.waiting ->
           IF s.fbu.left = 0 THEN FramebufferUpdate[RectDone(s)]
             ELSE IF NextIs(s, s.fbu.enc) THEN FramebufferUpdate[RectPart(s)]
             ELSE IF s.q = <<>> THEN Waits([s EXCEPT !.fbu.waiting = Waiting(s)])
             ELSE Confused(s)

\* A message with all that rQwait asks for is read, or the queue is left as
\* it was: the bytes read so far are given back.
GoBack_Not(q) == Tail(q)

GoBack(q) == q

\* The five bytes of SetColourMapEntries after its type are not waited for.
ReadNotice(s) ==
    CASE Head(s.q).k = "BELL" -> [s EXCEPT !.q = Tail(@)]
      [] Head(s.q).k = "CUT" ->
           IF Len(s.q) < 3 THEN Waits([s EXCEPT !.q = GoBack(@)])
                           ELSE [s EXCEPT !.q = SubSeq(@, 4, Len(@))]
      [] Head(s.q).k = "COLOURS" ->
           CASE Len(s.q) = 1 -> Confused(s)
             [] Len(s.q) = 2 -> Waits(s)
             [] OTHER -> [s EXCEPT !.q = SubSeq(@, 4, Len(@))]

NormalMsg(s) ==
    CASE s.fbu.rects > 0 -> FramebufferUpdate[s]
      [] s.fbu.rects = 0 /\ Head(s.q).k = "FBU" ->
           IF Len(s.q) < 2 THEN Waits(s)
             ELSE FramebufferUpdate[[s EXCEPT !.q = SubSeq(@, 3, Len(@)),
                                              !.fbu.rects = s.q[2].n,
                                              !.fbu.waiting = FALSE]]
      [] s.fbu.rects = 0 /\ Head(s.q).k \in {"BELL", "CUT", "COLOURS"} -> ReadNotice(s)
      [] OTHER -> Confused(s)

Reader(q) == [q |-> q, fbu |-> FBU, d |-> Shown, asks |-> FALSE,
              more |-> TRUE, confused |-> FALSE]

\* One message is handled; the rest waits for the 10 ms timer.  timers_ are
\* those that run when the handler is called.
MsgTimerSet_Never(s, running) == running

MsgTimerSet(s, running) ==
    IF s.more /\ s.q # <<>> THEN running \union {"msg"} ELSE running

Normal(q, running) ==
    LET s == NormalMsg(Reader(q)) IN
    /\ rQ' = s.q /\ FBU' = s.fbu /\ confused' = s.confused
    /\ renderQ' = s.d.queue /\ loading' = s.d.loading
    /\ canvas' = s.d.canvas /\ disorder' = s.d.disorder
    /\ timers' = MsgTimerSet(s, running)
    /\ IF s.asks THEN Ask ELSE UNCHANGED <<asked, unsent>>
    /\ UNCHANGED <<link, said, rfb_state, prompt>>

(***************************************************************************)
(* Events of the page.                                                     *)
(***************************************************************************)
InitStates == {"ProtocolVersion", "Security", "Authentication", "password",
               "SecurityResult", "ServerInitialisation"}

\* A frame may end where the code does not wait for what follows.
Fragile(t) == (t.k = "rect" /\ t.v \in Forgets) \/ t.k = "COLOURS"

\* recv_message and handle_message: a frame of n tokens arrives.
RecvMessage(n) ==
    LET q == rQ \o SubSeq(wire, 1, n)
        rest == SubSeq(wire, n + 1, Len(wire))
    IN  /\ ~confused
        /\ torn' = (torn \/ Fragile(wire[n]))
        /\ IF rfb_state = "normal"
             THEN Normal(q, timers) /\ wire' = rest
             ELSE LET r == InitMsg(q) IN
                  /\ Initialised(r)
                  /\ r.state # "failed" => wire' = rest /\ UNCHANGED timers
                  /\ confused' = (confused \/ Mistakes(q))
                  /\ UNCHANGED FBU
        /\ UNCHANGED <<serverVars, password, again>>

Receive == \E n \in 1 .. Len(wire) : RecvMessage(n)

MsgTimer ==
    /\ "msg" \in timers /\ rfb_state = "normal" /\ ~confused
    /\ IF rQ # <<>>
         THEN Normal(rQ, timers \ {"msg"})
         ELSE /\ timers' = timers \ {"msg"}
              /\ UNCHANGED <<rfb_state, rQ, FBU, prompt, confused, link, said, asked,
                             unsent, drawVars>>
    /\ UNCHANGED <<serverVars, wire, torn, password, again>>

\* setPassword of console.html: the user submits the form, perhaps empty.
SendPassword ==
    /\ prompt
    /\ rfb_state' = "Authentication"
    /\ password' \in BOOLEAN
    /\ timers' = timers \union {"init"}
    /\ again' = (again \/ rfb_state # "password")
    /\ UNCHANGED <<serverVars, linkVars, rQ, FBU, prompt, confused, drawVars>>

\* The init_msg that sendPassword schedules.
InitTimer ==
    /\ "init" \in timers
    /\ IF rfb_state \in InitStates
         THEN LET r == InitMsg(rQ) IN
              /\ Initialised(r)
              /\ r.state # "failed" => timers' = timers \ {"init"} /\ UNCHANGED wire
              /\ confused' = (confused \/ Mistakes(rQ))
         ELSE /\ timers' = timers \ {"init"}
              /\ UNCHANGED <<rfb_state, rQ, prompt, confused, said, wire, link, asked, unsent,
                             drawVars>>
    /\ UNCHANGED <<serverVars, torn, FBU, password, again>>

\* sendTimer
Flush ==
    /\ unsent /\ link = "open"
    /\ unsent' = FALSE /\ asked' = TRUE
    /\ UNCHANGED <<serverVars, wire, link, said, torn, pageVars, drawVars>>

=============================================================================
