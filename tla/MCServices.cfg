CONSTANTS
    c1 = c1
    c2 = c2
    c3 = c3
    c4 = c4
    c5 = c5
    th1 = th1
    th2 = th2
    ann = ann
    bob = bob
    staff = staff
    u1 = u1
    u2 = u2
    lab1 = lab1
    lab2 = lab2
    t1 = t1
    t2 = t2
    Tasks = {t1, t2}
    Watchers = {"w1"}
    Users = {u1, u2}
    LabOf <- MCLabOf
    Names = {"n"}
    Documents <- MCDocuments
    MaxPages = 2
    BatchSize = 3
    Slow = {t1}
    MaxFaults = 1
    Red = {r1, r2, r3}
    Blue = {b1}
    Asks = {}
    Correct = {b1}
    PoolSize = 2
    MaxAttempts = 1
    Chats = {c1, c2, c3, c4, c5}
    Threads = {th1, th2}
    ThreadOf <- MCThreadOf
    OwnerOf <- MCOwnerOf
    Existing <- MCExisting
    ChatFaults = 1
    Pages = {"none", "s"}
    MaxLogins = 2
    MaxActions = 1
    MaxNavigations = 1
    MaxFails = 1
SPECIFICATION OneSpec
CHECK_DEADLOCK FALSE
INVARIANTS
    BurstLogged
    ThreadsWhole
    UploadsOwn
    ShownIsCurrent
PROPERTIES
    LateAnswersDropped
