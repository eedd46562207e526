SPECIFICATION Spec
CONSTANTS
    Machines = {m1, m2}
    Jobs = {j1, j2}
    MaxEvents = 1
SYMMETRY Symmetry
INVARIANTS
    SuccessIsCarriedOut
    FailureIsNotCarriedOut
    AtMostOnce
PROPERTIES
    HardResetEndsOn
CHECK_DEADLOCK FALSE
