CONSTANTS
    r1 = r1
    r2 = r2
    r3 = r3
    l1 = l1
    l2 = l2
    l3 = l3
    ann = ann
    bob = bob
    cid = cid
    t = t
    none = none
    Runs = {r1}
    Labs = {l1, l2, l3}
    Names = {ann, bob, cid}
    NoTeam = none
    Options <- MCOptions
    OldUsers <- MCUsers
    OldSessions <- MCSessions
    q1 = q1
    q2 = q2
    Requests = {q1, q2}
    MaxHidden = 1
SPECIFICATION FairSpec
CHECK_DEADLOCK FALSE
PROPERTIES RequestsGoOn
