CONSTANTS
    Requests = {r1, r2, r3, r4}
    Rpm = 1
    MaxExpiries = 2
    MaxFaults = 2
SPECIFICATION Spec
SYMMETRY Symmetric
CHECK_DEADLOCK FALSE
INVARIANTS TypeOK ForgeryNotHidden OneReportPerWindow WithinLimit
