------------------------------ MODULE MCEndings ------------------------------
(***************************************************************************)
(* What must come to an end, for TLC: the liveness of SqliIsolation,       *)
(* AdminSetup, EtlJob, Dashboard and ConnectionPool.  They share no state  *)
(* in the models, so a behaviour is one of a single component, the others  *)
(* at rest in a state in which fairness asks nothing of them.              *)
(***************************************************************************)
EXTENDS SqliIsolation, Sequences, TLC

CONSTANTS p1, p2, s1, s2, l1, l2, r1, r2, q1, ann, bob, cid, t, none, u1, u2, t1, w1, c1

VARIABLES
    part,   \* which one this behaviour is of
    setupPc, opts, setupLock, app, users, sessions, found, report,
    by, name, doc, etlPc, etlAt, keys, ttl, job, told, store, read, index, watch, faults,
    token, page, identity, due, owner, data, polls, action, login, applied, issued, navigations, fails,
    hardened, phase, main, event, line, source, attempts, logged

sqliVars == vars
setupVars == <<setupPc, opts, setupLock, app, users, sessions, found, report>>
etlVars == <<by, name, doc, etlPc, etlAt, keys, ttl, job, told, store, read, index, watch, faults>>
pageVars ==
    <<token, page, identity, due, owner, data, polls, action, login, applied, issued, navigations, fails>>
poolVars == <<hardened, phase, main, event, line, source, attempts, logged>>

ASSUME IsolationAssumption

-----------------------------------------------------------------------------
MCLabOf == [w \in Walkers |-> l1]

(* Two runs for fresh labs or labs with a session of team t.               *)
Opt(lab, red, blue, team) == [lab |-> lab, red |-> red, blue |-> blue, team |-> team]
MCOptions == {Opt(l1, ann, bob, none), Opt(l2, ann, bob, none)}

Setup == INSTANCE AdminSetup WITH
    Runs <- {r1, r2}, Labs <- {l1, l2}, Names <- {ann, bob, cid}, Options <- MCOptions, NoTeam <- none,
    OldUsers <- {}, OldSessions <- {[id |-> <<l2, "session">>, lab |-> l2, team |-> t]},
    Requests <- {q1}, MaxHidden <- 0, pc <- setupPc, lock <- setupLock

(* Files with one batch of chunks or two, a page without text before one   *)
(* with text, too many pages, no text at all; and what never gets to a job.*)
Indexed(p, c) == [accepted |-> TRUE, folder |-> "student_uploads", pages |-> p, chunks |-> c]
NeverAJob ==
    {[accepted |-> TRUE, folder |-> f, pages |-> <<TRUE>>, chunks |-> 1] : f \in {"uploads", "elsewhere"}}
    \cup {[accepted |-> FALSE, folder |-> "student_uploads", pages |-> <<>>, chunks |-> 0]}
MCDocuments ==
    {Indexed(<<TRUE>>, 1), Indexed(<<TRUE>>, 4),
     Indexed(<<FALSE, TRUE>>, 1), Indexed(<<TRUE, TRUE, TRUE>>, 1), Indexed(<<FALSE>>, 0)} \cup NeverAJob

Etl == INSTANCE EtlJob WITH
    Tasks <- {t1}, Watchers <- {w1}, Users <- {u1, u2}, LabOf <- (u1 :> l1) @@ (u2 :> l2),
    Names <- {"n"}, Documents <- MCDocuments, MaxPages <- 2, BatchSize <- 3, Slow <- {},
    MaxFaults <- 2, pc <- etlPc, at <- etlAt

Browser == INSTANCE Dashboard WITH
    Pages <- {"none", "s"}, MaxLogins <- 1, MaxActions <- 1, MaxNavigations <- 1, MaxFails <- 1

(* Two Red Team logins, one of them successful, and a chat.                *)
Pool == INSTANCE ConnectionPool WITH
    Red <- {r1, r2}, Blue <- {}, Chats <- {c1}, Correct <- {r1}, PoolSize <- 2, MaxAttempts <- 1,
    lock <- source

ASSUME Pool!PoolAssumption

-----------------------------------------------------------------------------
EtlAtRest ==
    /\ by = [x \in {t1} |-> u1] /\ name = [x \in {t1} |-> "n"] /\ doc = [x \in {t1} |-> Indexed(<<TRUE>>, 1)]
    /\ etlPc = [x \in {t1} |-> "done"] /\ etlAt = [x \in {t1} |-> 0]
    /\ keys = {} /\ ttl = {} /\ told = {} /\ index = {} /\ faults = 0
    /\ job = [x \in {t1} |-> Etl!Empty] /\ read = [x \in {t1} |-> {}]
    /\ store = [k \in {l1, l2} \X {"n"} |-> {}] /\ watch = [x \in {w1} |-> Etl!Closed]

PoolAtRest ==
    /\ hardened = FALSE /\ phase = [r \in {r1, r2, c1} |-> "done"]
    /\ main = {} /\ event = {} /\ line = <<>> /\ source = {}
    /\ attempts = 0 /\ logged = {}

OneInit ==
    /\ part \in {"sqli", "setup", "etl", "browser", "pool"}
    /\ Init
    /\ Setup!Init /\ (part = "setup" \/ opts = [r \in {r1, r2} |-> Opt(l1, ann, bob, none)])
    /\ IF part = "etl" THEN Etl!Init /\ by[t1] = u1 ELSE EtlAtRest   \* the users differ in nothing
    /\ Browser!Init /\ (part = "browser" \/ (token = 0 /\ page = "none"))
    /\ IF part = "pool" THEN Pool!Init ELSE PoolAtRest

OneNext ==
    /\ UNCHANGED part
    /\ \/ part = "sqli" /\ Next /\ UNCHANGED <<setupVars, etlVars, pageVars, poolVars>>
       \/ part = "setup" /\ Setup!Next /\ UNCHANGED <<sqliVars, etlVars, pageVars, poolVars>>
       \/ part = "etl" /\ Etl!Next /\ UNCHANGED <<sqliVars, setupVars, pageVars, poolVars>>
       \/ part = "browser" /\ Browser!Next /\ UNCHANGED <<sqliVars, setupVars, etlVars, poolVars>>
       \/ part = "pool" /\ Pool!Next /\ UNCHANGED <<sqliVars, setupVars, etlVars, pageVars>>

OneFairSpec ==
    /\ OneInit /\ [][OneNext]_<<part, sqliVars, setupVars, etlVars, pageVars, poolVars>>
    /\ Fairness /\ Setup!Fairness /\ Etl!Fairness /\ Browser!Fairness /\ Pool!Fairness

-----------------------------------------------------------------------------
(* The components' properties, of which each module says more.             *)

(* Who waits for a lock, a connection, a reader or the operator's commands *)
(* gets on or gives up: searches and provisioning (SqliIsolation), the     *)
(* setup script (AdminSetup), requests at a full pool (ConnectionPool).    *)
WaitsEnd == AllEnd /\ Setup!WaitEnds /\ Pool!AllEnd

(* Every upload's record becomes final or is forgotten, and every socket   *)
(* that follows one ends, also after a crash (EtlJob).                     *)
UploadsEnd == Etl!NoStaleRecord /\ Etl!SocketsEnd

(* The dashboard comes to show what the actions did (Dashboard).           *)
Settles == Browser!Settles

=============================================================================
