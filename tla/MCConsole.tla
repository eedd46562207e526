----------------------------- MODULE MCConsole -----------------------------
EXTENDS Console

\* Every encoding, alone or where it follows another that matters.
MCUpdates == {<<"RAW", "COPYRECT">>, <<"IMAGE", "HEXTILE">>, <<"RRE", "Cursor">>,
              <<"IMAGE", "TIGHT", "DesktopSize", "last_rect">>}

MCScenarios == {[user |-> 3, server |-> 0, dirty |-> FALSE],
                [user |-> 1, server |-> 0, dirty |-> TRUE],
                [user |-> 0, server |-> 1, dirty |-> TRUE]}

=============================================================================
