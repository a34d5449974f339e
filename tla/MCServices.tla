------------------------------ MODULE MCServices ------------------------------
(***************************************************************************)
(* What serves the users' requests, for TLC.  The components share no      *)
(* state in the models, so a behaviour is one of a single component,       *)
(* started from its own initial states, the others at rest.                *)
(***************************************************************************)
EXTENDS Services, TLC

CONSTANTS c1, c2, c3, c4, c5, th1, th2, ann, bob, staff, u1, u2, lab1, lab2, t1, t2

VARIABLE service   \* which one this behaviour is of

(* ConnectionPool once more, with a single connection.                     *)
Single == INSTANCE ConnectionPool WITH Chats <- Asks, PoolSize <- 1

(* Three chats of one user and one of another name the same new thread;    *)
(* the fifth names the thread a hidden user was seeded with.               *)
MCThreadOf == [c \in Chats |-> IF c = c5 THEN th2 ELSE th1]
MCOwnerOf == [c \in Chats |-> IF c \in {c4, c5} THEN bob ELSE ann]
MCExisting ==
    (th1 :> {}) @@ (th2 :> {[owner |-> staff, messages |-> <<<<"seed", "user">>, <<"seed", "ai">>>>]})

(* Two uploads at once, of one name, of one lab or of two: to the indexed  *)
(* folder, or to the other one.                                            *)
File(where, c) == [accepted |-> TRUE, folder |-> where, pages |-> <<TRUE>>, chunks |-> c]
MCDocuments == {File("student_uploads", 4), File("uploads", 1)}
MCLabOf == (u1 :> lab1) @@ (u2 :> lab2)

-----------------------------------------------------------------------------
OneInit ==
    /\ service \in {"pool", "single", "history", "etl", "browser"}
    /\ Pool!Init /\ (service \in {"pool", "single"} \/ ~hardened)
    /\ History!Init
    /\ Init
    /\ service = "etl" \/ doc \in [{t1, t2} -> {File("uploads", 1)}]
    /\ by[t1] = u1   \* the users differ in nothing
    /\ service = "etl" \/ by[t2] = u1
    /\ Browser!Init /\ (service = "browser" \/ (token = 0 /\ page = "none"))

OneNext ==
    /\ UNCHANGED service
    /\ \/ service = "pool" /\ Pool!Next /\ UNCHANGED <<chatVars, etlVars, pageVars>>
       \/ service = "single" /\ Single!Next /\ UNCHANGED <<chatVars, etlVars, pageVars>>
       \/ service = "history" /\ History!Next /\ UNCHANGED <<poolVars, etlVars, pageVars>>
       \/ service = "etl" /\ Next /\ UNCHANGED <<poolVars, chatVars, pageVars>>
       \/ service = "browser" /\ Browser!Next /\ UNCHANGED <<poolVars, chatVars, etlVars>>

OneSpec == OneInit /\ [][OneNext]_<<service, poolVars, chatVars, etlVars, pageVars>>

=============================================================================
