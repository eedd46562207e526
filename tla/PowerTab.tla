------------------------------ MODULE PowerTab ------------------------------
(***************************************************************************)
(* The power buttons and the ISO form of a machine's page:                 *)
(* webapp/app/assets/javascripts/pages/machine.js, with the polling of     *)
(* pages/handleProgress.js.                                                *)
(*                                                                         *)
(* A click posts a job and shows a state of its own until the job is known *)
(* to have ended; then the state is asked for, once.  The jobs run in any  *)
(* order, there being several workers.  What a job does is module Power's: *)
(* here it succeeds or fails and moves the machine as its operation does,  *)
(* if at all.                                                              *)
(*                                                                         *)
(* `Hard stop' and `Hard reset' are left out: `actions' lists them as      *)
(* hard-stop and hard-reset, the handler throws before it returns false,   *)
(* and the link is followed as a plain form that leaves the page.          *)
(***************************************************************************)
EXTENDS Naturals, Sequences, SequencesExt

CONSTANTS MaxClicks,   \* bound: clicks and changes of the ISO
          MaxLate,     \* bound: answers that come after polling was stopped
          MaxLost      \* bound: requests without an answer

ASSUME PowerTabAssumption == {MaxClicks, MaxLate, MaxLost} \subseteq Nat

States == {"Running", "Paused", "Stopped"}

\* The state shown by a click (actions[action][0]).
TempState(action) ==
    CASE action = "start"   -> "Starting"
      [] action = "pause"   -> "Paused"
      [] action = "resume"  -> "Running"
      [] action = "stop"    -> "Stopping"
      [] action = "restart" -> "Restart requested"

Actions == {"start", "pause", "resume", "stop", "restart"}

VARIABLES power,      \* the machine
          shown,      \* the text of .status
          clicks,     \* the posts: what for, and what became of them
          requests,   \* state requests: "asked", or the answer on its way
          handlers,   \* ajax:success handlers of the ISO form
          spinner,    \* the ISO form's spinner,
          tick,       \*   and its check mark
          lost,       \* how many requests were lost
          had,        \* history: the machine's states since the last job ended
          hurried     \* history: a click came before all was settled

postVars == <<clicks, requests, lost>>
formVars == <<handlers, spinner, tick>>
powerVars == <<power, shown, postVars, formVars, had, hurried>>

PowerInit ==
    /\ power \in States
    /\ shown = power
    /\ clicks = <<>>
    /\ requests = <<>>
    /\ handlers = 0
    /\ spinner = FALSE
    /\ tick = FALSE
    /\ lost = 0
    /\ had = {power}
    /\ hurried = FALSE

(***************************************************************************)
(* The user.                                                               *)
(***************************************************************************)
\* reloadButtonState
Enabled(action) ==
    CASE action = "start"                       -> shown \notin {"Running", "Paused"}
      [] action \in {"pause", "stop", "restart"} -> shown = "Running"
      [] action = "resume"                      -> shown = "Paused"

\* The job of a post, whether the post was answered, how many of its pollers
\* have not called back, and how many answers will call back once more.
Post(action) ==
    [action |-> action, job |-> "queued", answered |-> FALSE, pollers |-> 0, late |-> 0]

Finished(c) == c.answered /\ c.job # "queued" /\ c.pollers = 0 /\ c.late = 0

\* A post that was lost is over, too.
Over(c) == c.job = "lost" \/ Finished(c)

Settled == requests = <<>> /\ \A n \in DOMAIN clicks : Over(clicks[n])

SendPost(action) ==
    /\ Len(clicks) < MaxClicks
    /\ clicks' = Append(clicks, Post(action))
    /\ hurried' = (hurried \/ ~Settled)
    /\ UNCHANGED <<power, requests, lost, had>>

Click(action) ==
    /\ Enabled(action)
    /\ shown' = TempState(action)
    /\ SendPost(action)
    /\ UNCHANGED formVars

\* .iso_dropdown: each change leaves one more handler.
ChangeIso ==
    /\ handlers' = handlers + 1
    /\ spinner' = TRUE
    /\ SendPost("iso")
    /\ UNCHANGED <<shown, tick>>

(***************************************************************************)
(* The web application and the machine.                                    *)
(***************************************************************************)
Job(n, job) == clicks' = [clicks EXCEPT ![n].job = job]

Result(action) ==
    CASE action = "start"  /\ power = "Stopped" -> "Running"
      [] action = "pause"  /\ power = "Running" -> "Paused"
      [] action = "resume" /\ power = "Paused"  -> "Running"
      [] OTHER -> power

Perform(n) ==
    /\ clicks[n].job = "queued"
    /\ \E job \in {"done", "error"} :
         /\ Job(n, job)
         /\ power' = IF job = "done" THEN Result(clicks[n].action) ELSE power
    /\ had' = IF clicks[n].action = "iso" THEN had ELSE {power'}
    /\ UNCHANGED <<shown, requests, lost, formVars, hurried>>

\* The guest shuts down, asked or not; the machine is started from elsewhere.
MoveTo(state) ==
    /\ power # state
    /\ power' = state
    /\ had' = had \union {state}
    /\ UNCHANGED <<shown, postVars, formVars, hurried>>

(***************************************************************************)
(* Answers.  Only success is handled: what a lost request should have      *)
(* shown is not shown.                                                     *)
(***************************************************************************)
\* Every handler of the form starts a poller of its own.
Answer(n) ==
    /\ clicks[n].job # "lost" /\ ~clicks[n].answered
    /\ clicks' = [clicks EXCEPT
         ![n].answered = TRUE,
         ![n].pollers = IF clicks[n].action = "iso" THEN handlers ELSE 1]
    /\ UNCHANGED <<power, shown, requests, lost, formVars, had, hurried>>

Lose(n) ==
    /\ lost < MaxLost
    /\ lost' = lost + 1
    /\ clicks[n].job = "queued" /\ ~clicks[n].answered
    /\ Job(n, "lost")
    /\ UNCHANGED <<power, shown, requests, formVars, had, hurried>>

AskAfterError_Not(job) == job = "done"

AskAfterError(job) == job \in {"done", "error"}

SpinnerAfter_Done(job) == job # "done"

SpinnerAfter(job) == FALSE

CallBack(n) ==
    IF clicks[n].action = "iso"
      THEN /\ spinner' = SpinnerAfter(clicks[n].job)
           /\ tick' = (tick \/ clicks[n].job = "done")
           /\ UNCHANGED requests
      ELSE /\ requests' = IF AskAfterError(clicks[n].job) THEN Append(requests, "asked")
                          ELSE requests
           /\ UNCHANGED <<spinner, tick>>

\* A poller finds the job finished; another of its answers may be on its way.
Told(n) ==
    /\ clicks[n].pollers > 0 /\ clicks[n].job \in {"done", "error"}
    /\ \E late \in 0 .. 1 :
         /\ clicks[n].late + late <= MaxLate
         /\ clicks' = [clicks EXCEPT ![n].pollers = @ - 1, ![n].late = @ + late]
    /\ CallBack(n)
    /\ UNCHANGED <<power, shown, handlers, lost, had, hurried>>

ToldAgain(n) ==
    /\ clicks[n].late > 0
    /\ clicks' = [clicks EXCEPT ![n].late = @ - 1]
    /\ CallBack(n)
    /\ UNCHANGED <<power, shown, handlers, lost, had, hurried>>

TickFades ==
    /\ tick
    /\ tick' = FALSE
    /\ UNCHANGED <<power, shown, postVars, handlers, spinner, had, hurried>>

\* getCurrentState: the answers may overtake each other.
ReadState(i) ==
    /\ requests[i] = "asked"
    /\ requests' = [requests EXCEPT ![i] = power]
    /\ UNCHANGED <<power, shown, clicks, lost, formVars, had, hurried>>

ShowState(i) ==
    /\ requests[i] # "asked"
    /\ shown' = requests[i]
    /\ requests' = RemoveAt(requests, i)
    /\ UNCHANGED <<power, clicks, lost, formVars, had, hurried>>

LoseState(i) ==
    /\ lost < MaxLost
    /\ lost' = lost + 1
    /\ requests' = RemoveAt(requests, i)
    /\ UNCHANGED <<power, shown, clicks, formVars, had, hurried>>

-----------------------------------------------------------------------------
Request == ChangeIso \/ \E action \in Actions : Click(action)

ClickProgress ==
    \/ \E n \in DOMAIN clicks : Perform(n) \/ Answer(n) \/ Told(n) \/ ToldAgain(n)
    \/ \E i \in DOMAIN requests : ReadState(i) \/ ShowState(i)
    \/ TickFades

Losses ==
    \/ \E n \in DOMAIN clicks : Lose(n)
    \/ \E i \in DOMAIN requests : LoseState(i)

Others ==
    \/ power = "Running" /\ MoveTo("Stopped")
    \/ power = "Stopped" /\ MoveTo("Running")

PowerNext == Request \/ ClickProgress \/ Losses \/ Others

PowerSpec == PowerInit /\ [][PowerNext]_powerVars

(***************************************************************************)
(* Properties.                                                             *)
(***************************************************************************)

\* When all is settled the page shows a state the machine has had since its
\* last job ended -- unless a post was lost, or buttons were clicked while an
\* earlier click was under way, whose answer may be the last to come.  A later
\* state is not promised: the guest may halt after the answer.
ShownSinceJob ==
    Settled /\ ~hurried /\ lost = 0 => shown \in had

\* While the ISO was changed by itself, the spinner turns as long as the job
\* runs, and no longer: a second change has two handlers, one of which may
\* come late.
SpinnerTellsMount ==
    ~hurried /\ lost = 0 =>
        (spinner <=> \E n \in DOMAIN clicks :
                        /\ clicks[n].action = "iso"
                        /\ ~clicks[n].answered \/ clicks[n].job = "queued"
                              \/ clicks[n].pollers = handlers)

=============================================================================
