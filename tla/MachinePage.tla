---------------------------- MODULE MachinePage ----------------------------
(***************************************************************************)
(* A machine's page (webapp/app/views/machines/show.html.slim): the        *)
(* scripts of its power and console tabs.  They share nothing but the      *)
(* machine, which either tab must expect to change at any time; so that    *)
(* the user who goes on with one of the tabs is all there is to check, and *)
(* the machine of that tab does as it likes.                               *)
(***************************************************************************)
EXTENDS ConsoleTab, PowerTab

VARIABLE tab    \* the tab whose script is followed

vars == <<tab, tabVars, powerVars>>

Init ==
    /\ TabInit
    /\ PowerInit
    /\ \/ tab = "console" /\ power = "Running"
       \/ tab = "power" /\ on /\ password = "right"

Machine == \E up \in BOOLEAN : Follow(up)

Next ==
    \/ /\ tab = "console"
       /\ TabNext \/ Machine
       /\ UNCHANGED <<tab, powerVars>>
    \/ /\ tab = "power"
       /\ PowerNext
       /\ UNCHANGED <<tab, tabVars>>

\* Timers fire, sockets open or close, a proxy closes what has no machine
\* behind it; workers run jobs, and answers that are not lost arrive.
Fairness ==
    /\ TabFairness
    /\ WF_powerVars(tab = "power" /\ ClickProgress /\ UNCHANGED <<tab, tabVars>>)

Spec == Init /\ [][Next]_vars /\ Fairness

=============================================================================
