CONSTANTS
    Requests = {r1, r2, r3, r4}
    Users = {alice, bob}
    Limit = 1
    Window = 0
    Horizon = 1
    MaxFaults = 1
SPECIFICATION Spec
INVARIANTS TypeOK CountsIncludeEarlier Throttled
SYMMETRY Symmetric
CHECK_DEADLOCK FALSE
