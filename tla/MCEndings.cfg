CONSTANTS
    p1 = p1
    p2 = p2
    s1 = s1
    s2 = s2
    l1 = l1
    l2 = l2
    r1 = r1
    r2 = r2
    q1 = q1
    ann = ann
    bob = bob
    cid = cid
    t = t
    none = none
    u1 = u1
    u2 = u2
    t1 = t1
    w1 = w1
    c1 = c1
    Provisioners = {p1, p2}
    Searches = {s1, s2}
    Labs = {l1}
    Sessions = {l1}
    LabOf <- MCLabOf
    ReaderLimit = 1
    MaxChanges = 1
SPECIFICATION OneFairSpec
CHECK_DEADLOCK FALSE
PROPERTIES
    WaitsEnd
    UploadsEnd
    Settles
