CONSTANTS
    lab1 = lab1
    lab2 = lab2
    team1 = team1
    team2 = team2
    f1 = f1
    f2 = f2
    v = v
    wrong = wrong
    Requests = {r1, r2, r3}
    Labs = {lab1, lab2}
    TeamOf <- MCTeamOf
    Flags = {f1, f2}
    LabOfFlag <- MCLabOfFlag
    Values = {v, wrong}
    ValueOf <- MCValueOf
    MaxFaults = 1
SPECIFICATION Spec
SYMMETRY Symmetric
CHECK_DEADLOCK FALSE
INVARIANTS TypeOK OwnLabOnly CapturesReported
PROPERTIES NoLateDuplicate
