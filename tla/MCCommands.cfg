CONSTANTS
    r1 = r1
    r2 = r2
    r3 = r3
    r4 = r4
    l1 = l1
    l2 = l2
    l3 = l3
    ann = ann
    bob = bob
    cid = cid
    t = t
    none = none
    p1 = p1
    p2 = p2
    p3 = p3
    s1 = s1
    Runs = {r1, r2, r3}
    Labs = {l1, l2, l3}
    Names = {ann, bob, cid}
    NoTeam = none
    Options <- MCOptions
    OldUsers <- MCUsers
    OldSessions <- MCSessions
    Requests = {q1}
    MaxHidden = 1
    Seeders = {r1, r2, r3, r4}
    SeedLabs = {l1, l2}
    SeedLabOf <- MCSeedLabOf
    MaxFaults = 2
    Provisioners = {p1, p2, p3}
    Searches = {s1}
    SqliLabs = {l1, l2}
    SqliLabOf <- MCSqliLabOf
    Sessions = {l1}
    ReaderLimit = 1
    MaxChanges = 2
SPECIFICATION OneSpec
SYMMETRY Symmetric
CHECK_DEADLOCK FALSE
INVARIANTS
    LabsWhole
    FlagsKnown
    ReadersConfined
PROPERTIES
    NoSecondSession
    NothingReplaced
