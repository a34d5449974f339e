CONSTANTS
    Requests = {r1, r2}
    Rpm = 1
    MaxExpiries = 2
    MaxFaults = 1
SPECIFICATION Spec
SYMMETRY Symmetric
CHECK_DEADLOCK FALSE
INVARIANTS CounterHasExpiry
