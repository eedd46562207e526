CONSTANTS
    Updates <- MCUpdates
    Notices = {"BELL", "CUT", "COLOURS"}
    Scenarios <- MCScenarios
    Letters = {a}
    Special = {shift}
    Shift = shift
    Buttons = {left, right}
    MaxRepeat = 3
SPECIFICATION Spec
INVARIANTS NothingMisread PaintedInOrder ClosedIsSaid NoKeyStuck ButtonsMatch
PROPERTIES EventuallyShown HandshakeEnds
CHECK_DEADLOCK FALSE
