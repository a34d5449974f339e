------------------------------ MODULE AdminSetup ------------------------------
(***************************************************************************)
(* scripts/admin_setup.py: operators provision labs (a red user, a blue    *)
(* user and a game session) and repeat the command whenever they are not   *)
(* sure of its outcome.  A run is one transaction under an advisory lock;  *)
(* game_sessions has no unique lab, usernames are unique over all labs.    *)
(* The transaction also alters game_sessions, which takes that table's     *)
(* exclusive lock until its end, whether the column is missing or not.     *)
(***************************************************************************)
EXTENDS Naturals, FiniteSets

CONSTANTS
    Runs,        \* invocations of the command
    Labs,
    Names,
    Options,     \* the options runs may be given: [lab, red, blue, team]
    NoTeam,      \* no --team-id
    OldUsers,    \* rows of users before the runs
    OldSessions, \* rows of game_sessions before the runs
    Requests,    \* transactions of the application that read game_sessions
    MaxHidden    \* bound on users other programs add

ASSUME SetupAssumption ==
    /\ \A o \in Options : o.lab \in Labs /\ o.red \in Names /\ o.blue \in Names
    /\ \A u \in OldUsers : u = [id |-> u.id, name |-> u.name, role |-> u.role, lab |-> u.lab]
    /\ \A u, v \in OldUsers : u.name = v.name => u = v
    /\ IsFiniteSet(OldSessions) /\ \A s \in OldSessions : s.lab \in Labs
    /\ MaxHidden \in Nat

VARIABLES
    pc,        \* where each run is
    opts,      \* its command line
    lock,      \* the holder of pg_advisory_xact_lock(721034, 1), as a set
    app,       \* where each request is: out, asking, reading
    users,     \* rows [id, name, role, lab]
    sessions,  \* rows [id, lab, team]
    found,     \* what a run's SELECTs returned
    report     \* printed reports: a set of at most one per run

vars == <<pc, opts, lock, app, users, sessions, found, report>>

Roles == {"red_team", "blue_team"}
NameOf(r, role) == IF role = "red_team" THEN opts[r].red ELSE opts[r].blue
Named(name) == {u \in users : u.name = name}

(* Mutant: sessions are looked up among those of teams that were named.    *)
OfTeam(lab) == {s \in sessions : s.lab = lab /\ \E o \in Options : s.team = o.team}

InLab(lab) == {s \in sessions : s.lab = lab}

Nothing == [user |-> [role \in Roles |-> {}], session |-> {}]

Init ==
    /\ pc = [r \in Runs |-> "idle"]
    /\ opts \in [Runs -> Options]
    /\ lock = {}
    /\ app = [q \in Requests |-> "out"]
    /\ users = OldUsers /\ sessions = OldSessions
    /\ found = [r \in Runs |-> Nothing]
    /\ report = [r \in Runs |-> {}]

Goto(r, p) == pc' = [pc EXCEPT ![r] = p]
Release(r) == lock' = lock \ {r}

(* Options.validate; engine.begin opens the transaction.                   *)
Start(r) ==
    /\ pc[r] = "idle"
    /\ Goto(r, IF opts[r].red = opts[r].blue THEN "failed" ELSE "wait")
    /\ UNCHANGED <<opts, lock, app, users, sessions, found, report>>

(* Mutant: create_all and the seed run without the advisory lock.          *)
Unlocked(r) ==
    /\ pc[r] = "wait"
    /\ lock' = {r} /\ Goto(r, "alter")
    /\ UNCHANGED <<opts, app, users, sessions, found, report>>

Acquire(r) ==
    /\ pc[r] = "wait" /\ lock = {}
    /\ lock' = {r} /\ Goto(r, "alter")
    /\ UNCHANGED <<opts, app, users, sessions, found, report>>

Reading == {q \in Requests : app[q] = "reading"}

(* create_all and ALTER TABLE.                                             *)
Alter(r) ==
    /\ pc[r] = "alter" /\ Reading = {}
    /\ Goto(r, "check")
    /\ UNCHANGED <<opts, lock, app, users, sessions, found, report>>

(* Mutant: a run waits for its locks without a limit.                      *)
WaitForever(r) == FALSE /\ UNCHANGED vars

(* lock_timeout: ten seconds behind another run, which may be at a         *)
(* password prompt, or behind a request that read game_sessions.           *)
LockTimeout(r) ==
    /\ \/ pc[r] = "wait" /\ lock # {}
       \/ pc[r] = "alter" /\ Reading # {}
    /\ Goto(r, "failed") /\ Release(r)
    /\ UNCHANGED <<opts, app, users, sessions, found, report>>

(* Mutant: a username of another lab or role is taken as the lab's own.    *)
Borrowed(r) == TRUE

OwnUsers(r) ==
    \A role \in Roles : \A u \in Named(NameOf(r, role)) :
        u.role = role /\ u.lab = opts[r].lab

(* Mutant: an explicit team is not compared with the session's.            *)
AnyTeam(r) == Cardinality(InLab(opts[r].lab)) <= 1

OwnSession(r) ==
    /\ Cardinality(InLab(opts[r].lab)) <= 1
    /\ \A s \in InLab(opts[r].lab) : opts[r].team \in {NoTeam, s.team}

(* seed: the SELECTs and the conflicts they may show.                      *)
Check(r) ==
    /\ pc[r] = "check"
    /\ IF OwnUsers(r) /\ OwnSession(r)
       THEN /\ found' = [found EXCEPT ![r] =
                  [user |-> [role \in Roles |-> Named(NameOf(r, role))],
                   session |-> InLab(opts[r].lab)]]
            /\ Goto(r, "password") /\ UNCHANGED lock
       ELSE Goto(r, "failed") /\ Release(r) /\ UNCHANGED found
    /\ UNCHANGED <<opts, app, users, sessions, report>>

Missing(r) == {role \in Roles : found[r].user[role] = {}}

(* Passwords of missing users are prompted for and hashed before any row   *)
(* is written, the lock held.                                              *)
Passwords(r) ==
    /\ pc[r] = "password"
    /\ \/ Goto(r, "write") /\ UNCHANGED lock
       \/ Missing(r) # {} /\ Goto(r, "failed") /\ Release(r)
    /\ UNCHANGED <<opts, app, users, sessions, found, report>>

NewUsers(r) ==
    {[id |-> <<r, role>>, name |-> NameOf(r, role), role |-> role, lab |-> opts[r].lab] :
        role \in Missing(r)}
UserFor(r, role) ==
    CHOOSE u \in found[r].user[role] \cup NewUsers(r) : u.role = role

(* Mutant: the team of a new session is always a new user's id.            *)
FreshTeam(r) == <<r, "red_team">>

TeamFor(r) == IF opts[r].team = NoTeam THEN UserFor(r, "red_team").id ELSE opts[r].team

NewSessions(r) ==
    IF found[r].session # {} THEN {}
    ELSE {[id |-> <<r, "session">>, lab |-> opts[r].lab, team |-> TeamFor(r)]}

(* Mutant: the session is committed before the users are.                  *)
SessionOnly(r) ==
    /\ pc[r] = "write"
    /\ sessions' = sessions \cup NewSessions(r)
    /\ Release(r) /\ (Goto(r, "print") \/ Goto(r, "failed"))
    /\ UNCHANGED <<opts, app, users, found, report>>

(* The INSERTs and the commit.  A name taken meanwhile violates the unique *)
(* index, and everything is rolled back; a connection lost during the      *)
(* commit leaves the operator without a confirmation.                      *)
Write(r) ==
    /\ pc[r] = "write"
    /\ Release(r)
    /\ \/ /\ \A u \in NewUsers(r) : Named(u.name) = {}
          /\ users' = users \cup NewUsers(r)
          /\ sessions' = sessions \cup NewSessions(r)
          /\ Goto(r, "print") \/ Goto(r, "failed")
       \/ Goto(r, "failed") /\ UNCHANGED <<users, sessions>>
    /\ UNCHANGED <<opts, app, found, report>>

(* Mutant: "created" names every row of the report.                        *)
CreatesAll(r) ==
    {UserFor(r, role).id : role \in Roles} \cup {s.id : s \in found[r].session \cup NewSessions(r)}

Creates(r) == {u.id : u \in NewUsers(r)} \cup {s.id : s \in NewSessions(r)}

(* main prints what seed returned.                                         *)
PrintReport(r) ==
    /\ pc[r] = "print"
    /\ \E s \in found[r].session \cup NewSessions(r) :
         report' = [report EXCEPT ![r] =
           {[lab |-> opts[r].lab, session |-> s,
             user |-> [role \in Roles |-> UserFor(r, role).id],
             created |-> Creates(r)]}]
    /\ Goto(r, "done")
    /\ UNCHANGED <<opts, lock, app, users, sessions, found>>

(* The process ends; PostgreSQL rolls back and drops the lock.             *)
Interrupt(r) ==
    /\ pc[r] \in {"wait", "alter", "check", "password", "write", "print"}
    /\ Goto(r, "failed") /\ Release(r)
    /\ UNCHANGED <<opts, app, users, sessions, found, report>>

TableLocked == \E r \in Runs : pc[r] \in {"check", "password", "write"}

(* Another transaction reads game_sessions; behind a waiting ALTER, too,   *)
(* a reader has to wait.                                                   *)
Ask(q) == app[q] = "out" /\ app' = [app EXCEPT ![q] = "asking"]
Read(q) ==
    /\ app[q] = "asking" /\ ~TableLocked
    /\ \A r \in Runs : pc[r] = "alter" => Reading = {}
    /\ app' = [app EXCEPT ![q] = "reading"]
End(q) == app[q] = "reading" /\ app' = [app EXCEPT ![q] = "out"]

Request(q) ==
    (Ask(q) \/ Read(q) \/ End(q)) /\ UNCHANGED <<pc, opts, lock, users, sessions, found, report>>

(* seed_exercises adds a lab's hidden staff user in a transaction that has *)
(* read game_sessions.                                                     *)
HiddenUser(name, lab) ==
    /\ ~TableLocked /\ Named(name) = {}
    /\ Cardinality({u \in users : u.role = "staff"}) < MaxHidden
    /\ \A u \in users : u.role = "staff" => u.lab # lab
    /\ users' = users \cup {[id |-> <<lab, "staff">>, name |-> name, role |-> "staff", lab |-> lab]}
    /\ UNCHANGED <<pc, opts, lock, app, sessions, found, report>>

Step(r) ==
    \/ Start(r) \/ Acquire(r) \/ Alter(r) \/ LockTimeout(r) \/ Check(r) \/ Passwords(r)
    \/ Write(r) \/ PrintReport(r)

Next ==
    \/ \E r \in Runs : Step(r) \/ Interrupt(r)
    \/ \E q \in Requests : Request(q)
    \/ \E name \in Names, lab \in Labs : HiddenUser(name, lab)

Spec == Init /\ [][Next]_vars

(* A statement's wait is bounded by lock_timeout, whoever holds the lock,  *)
(* and the other steps are the programs' own; Passwords is the operator's, *)
(* whom nothing obliges to answer.                                         *)
Fairness ==
    /\ \A r \in Runs :
         WF_vars(Acquire(r) \/ Alter(r) \/ LockTimeout(r) \/ Check(r) \/ Write(r) \/ PrintReport(r))
    /\ \A q \in Requests : WF_vars(Request(q) /\ app[q] # "out")

FairSpec == Spec /\ Fairness

-----------------------------------------------------------------------------
(* Properties *)

(* Type invariant; only a run in its transaction holds the lock.           *)
TypeOK ==
    /\ pc \in [Runs -> {"idle", "wait", "alter", "check", "password", "write", "print", "done", "failed"}]
    /\ opts \in [Runs -> Options]
    /\ app \in [Requests -> {"out", "asking", "reading"}]
    /\ TableLocked => Reading = {}
    /\ \A r \in Runs : r \in lock <=> pc[r] \in {"alter", "check", "password", "write"}
    /\ \A u, v \in users : u.name = v.name => u = v
    /\ \A s \in sessions : s.lab \in Labs
    /\ \A r \in Runs : found[r].session \subseteq sessions
    /\ \A r \in Runs : report[r] # {} <=> pc[r] = "done"

(* Concurrent and repeated runs never give a lab a second session          *)
(* (LOCAL_RUN.md:159; no constraint of the table forbids one).             *)
NoSecondSession ==
    [][\A lab \in Labs : Cardinality({s \in sessions' : s.lab = lab}) > 1
          => {s \in sessions' : s.lab = lab} = {s \in sessions : s.lab = lab}]_vars

(* What a run printed is what the database holds, in the roles and the lab *)
(* it was asked for, with the team it was asked for (admin_setup.py:74-84).*)
ReportTrue ==
    \A r \in Runs : \A p \in report[r] :
        /\ p.session \in sessions /\ p.session.lab = opts[r].lab
        /\ opts[r].team \in {NoTeam, p.session.team}
        /\ \A role \in Roles :
             [id |-> p.user[role], name |-> NameOf(r, role), role |-> role, lab |-> opts[r].lab] \in users

(* Runs of one lab print one session, and one id for one name, and only    *)
(* one of them prints a row as created (LOCAL_RUN.md:157: repeat the same  *)
(* command to check idempotency).                                          *)
RepeatsAgree ==
    \A r, q \in Runs : \A p \in report[r], o \in report[q] :
        p.lab = o.lab =>
            /\ p.session = o.session
            /\ \A role \in Roles : NameOf(r, role) = NameOf(q, role) => p.user[role] = o.user[role]
            /\ r = q \/ p.created \cap o.created = {}

(* A session comes with its users: whatever fails and whenever, a lab that *)
(* has a new session has a red and a blue user, and a team that was given  *)
(* or is a red user of that lab (admin_setup.py:60-79).                    *)
WholeLabs ==
    \A s \in sessions \ OldSessions :
        /\ \A role \in Roles : \E u \in users : u.lab = s.lab /\ u.role = role
        /\ \/ \E o \in Options : o.lab = s.lab /\ o.team = s.team /\ o.team # NoTeam
           \/ \E u \in users : u.id = s.team /\ u.role = "red_team" /\ u.lab = s.lab

(* All of it: runs that overlap, fail and are repeated report what the     *)
(* database has, agree with each other, and leave labs that are whole.     *)
LabsWhole == TypeOK /\ ReportTrue /\ RepeatsAgree /\ WholeLabs

(* A run that waits gets on or gives up, although the holder may sit at a  *)
(* password prompt for ever (LOCAL_RUN.md:159, lock wait 10 seconds).      *)
WaitEnds == \A r \in Runs : (pc[r] \in {"wait", "alter"}) ~> (pc[r] \notin {"wait", "alter"})

(* LOCAL_RUN.md:159 of the advisory lock: "It does not restrict normal     *)
(* application requests."  Its transaction also locks the table.           *)
RequestsGoOn == \A q \in Requests : (app[q] = "asking") ~> (app[q] # "asking")

=============================================================================
