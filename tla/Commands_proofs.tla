---------------------------- MODULE Commands_proofs ----------------------------
(***************************************************************************)
(* Any number of the operator's commands, over any labs, users, sessions   *)
(* and readers: what the setup reports stays true and no lab gets a second *)
(* session; seeded values are known everywhere or nowhere; a query runs as *)
(* the reader of its own lab; nothing that was provisioned is replaced.    *)
(***************************************************************************)
EXTENDS Commands, FiniteSetTheorems, TLAPS

-----------------------------------------------------------------------------
(* Setup (AdminSetup)                                                      *)

USE SetupAssumption DEF SetupAssumption

States == {"idle", "wait", "alter", "check", "password", "write", "print", "done", "failed"}
Held == {"alter", "check", "password", "write"}

(* One run holds the lock; rows are rows; the two users of a run differ.   *)
Shape ==
    /\ found = [r \in Runs |-> found[r]] /\ report = [r \in Runs |-> report[r]]
    /\ lock \subseteq Runs /\ \A r, q \in lock : r = q
    /\ IsFiniteSet(sessions)
    /\ \A u \in users : u = [id |-> u.id, name |-> u.name, role |-> u.role, lab |-> u.lab]
    /\ \A r \in Runs : pc[r] \notin {"idle", "failed"} => opts[r].red # opts[r].blue

(* What a run found is still there, and is what it asked for.              *)
KnownUsers(r) ==
    \A role \in Roles : \A u \in found[r].user[role] :
        u \in users /\ u.name = NameOf(r, role) /\ u.role = role /\ u.lab = opts[r].lab
KnownSession(r) ==
    \A s \in found[r].session :
        s.lab = opts[r].lab /\ InLab(opts[r].lab) = {s} /\ opts[r].team \in {NoTeam, s.team}

Looked ==
    \A r \in Runs :
        /\ pc[r] \in {"password", "write", "print"} => KnownUsers(r) /\ KnownSession(r)
        /\ pc[r] \in {"password", "write"} => found[r].session = InLab(opts[r].lab)

(* What a run committed is still there.                                    *)
Written ==
    \A r \in Runs : pc[r] = "print" =>
        NewUsers(r) \subseteq users /\ \A s \in NewSessions(r) : InLab(opts[r].lab) = {s}

(* What a run printed is still there, and what it created is its own.      *)
Reported ==
    \A r \in Runs : \A p \in report[r] :
        /\ p.lab = opts[r].lab /\ p.session.lab = p.lab
        /\ InLab(p.lab) = {p.session} /\ opts[r].team \in {NoTeam, p.session.team}
        /\ \A role \in Roles :
             [id |-> p.user[role], name |-> NameOf(r, role), role |-> role, lab |-> opts[r].lab] \in users
        /\ \A i \in p.created : i[1] = r

IInv == TypeOK /\ Shape /\ Looked /\ Written /\ Reported /\ WholeLabs

LEMMA InitInv == Init => IInv
<1> SUFFICES ASSUME Init PROVE IInv
  OBVIOUS
<1>1. TypeOK
  BY DEF Init, TypeOK, TableLocked, Reading, Nothing
<1>2. Shape /\ Looked /\ Written /\ Reported /\ WholeLabs
  BY DEF Init, Shape, Looked, Written, Reported, WholeLabs
<1>3. QED
  BY <1>1, <1>2 DEF IInv

-----------------------------------------------------------------------------
(* Users stay; so does the session of a lab that has one; a lab that had   *)
(* none or more than one gets one or none.                                 *)
Grows ==
    /\ opts' = opts /\ users \subseteq users' /\ sessions \subseteq sessions'
    /\ \A lab : \A s : InLab(lab) = {s} => InLab(lab)' = {s}

LEMMA KnownStays ==
    ASSUME Grows, NEW r \in Runs, found'[r] = found[r]
    PROVE  (KnownUsers(r) => KnownUsers(r)') /\ (KnownSession(r) => KnownSession(r)')
<1>1. KnownUsers(r) => KnownUsers(r)'
  BY DEF Grows, KnownUsers, NameOf
<1>2. KnownSession(r) => KnownSession(r)'
  BY DEF Grows, KnownSession
<1>3. QED
  BY <1>1, <1>2

LEMMA ReportedStays == ASSUME Grows, report' = report, Reported PROVE Reported'
<1> SUFFICES ASSUME NEW r \in Runs, NEW p \in report[r]
             PROVE (/\ p.lab = opts[r].lab /\ p.session.lab = p.lab
                    /\ InLab(p.lab) = {p.session} /\ opts[r].team \in {NoTeam, p.session.team}
                    /\ \A role \in Roles :
                         [id |-> p.user[role], name |-> NameOf(r, role), role |-> role, lab |-> opts[r].lab] \in users
                    /\ \A i \in p.created : i[1] = r)'
  BY DEF Reported
<1>1. p.lab = opts[r].lab /\ p.session.lab = p.lab /\ opts[r].team \in {NoTeam, p.session.team}
      /\ \A i \in p.created : i[1] = r
  BY DEF Reported
<1>2. InLab(p.lab) = {p.session}
  BY DEF Reported
<1>3. InLab(p.lab)' = {p.session}
  BY <1>2 DEF Grows
<1>4. \A role \in Roles :
         [id |-> p.user[role], name |-> NameOf(r, role), role |-> role, lab |-> opts[r].lab] \in users
  BY DEF Reported
<1>5. \A role \in Roles : NameOf(r, role)' = NameOf(r, role)
  BY DEF Grows, NameOf
<1>6. QED
  BY <1>1, <1>3, <1>4, <1>5 DEF Grows

LEMMA WholeStays == ASSUME Grows, sessions' = sessions, WholeLabs PROVE WholeLabs'
BY DEF Grows, WholeLabs

-----------------------------------------------------------------------------
(* Steps that only move a run and its lock.                                *)
Moves(r) ==
    Start(r) \/ Acquire(r) \/ Alter(r) \/ LockTimeout(r) \/ Passwords(r) \/ Interrupt(r)

LEMMA MovesInv == ASSUME IInv, NEW r \in Runs, Moves(r) PROVE IInv'
<1>1. PICK p \in States \ {"done", "print", "password"} :
        /\ pc' = [pc EXCEPT ![r] = p]
        /\ lock' = (IF p \in Held THEN lock \cup {r} ELSE lock \ {r})
        /\ pc[r] \notin {"done", "failed"}
        /\ p \in Held /\ pc[r] \notin Held => lock = {}
        /\ p \in {"check", "write"} => pc[r] = "password" \/ Reading = {}
        /\ p = "write" => pc[r] = "password"
        /\ pc[r] = "idle" /\ p # "failed" => opts[r].red # opts[r].blue
  <2>1. CASE Start(r)
    BY <2>1 DEF Start, Goto, States, Held, IInv, TypeOK
  <2>2. CASE Acquire(r) \/ Alter(r)
    BY <2>2 DEF Acquire, Alter, Goto, States, Held, IInv, TypeOK
  <2>3. CASE LockTimeout(r) \/ Interrupt(r)
    BY <2>3 DEF LockTimeout, Interrupt, Release, Goto, States, Held
  <2>4. CASE Passwords(r)
    BY <2>4 DEF Passwords, Release, Goto, States, Held, IInv, TypeOK
  <2>5. QED
    BY <2>1, <2>2, <2>3, <2>4 DEF Moves
<1>2. UNCHANGED <<opts, app, users, sessions, found, report>>
  BY DEF Moves, Start, Acquire, Alter, LockTimeout, Passwords, Interrupt
<1>3. pc \in [Runs -> States] /\ pc' \in [Runs -> States]
  BY <1>1 DEF IInv, TypeOK, States
<1>4. TypeOK'
  <2>1. \A q \in Runs : q \in lock' <=> pc'[q] \in Held
    BY <1>1, <1>3 DEF IInv, TypeOK, Held
  <2>2. (TableLocked => Reading = {})'
    BY <1>1, <1>2, <1>3 DEF IInv, TypeOK, TableLocked, Reading
  <2>3. \A q \in Runs : report'[q] # {} <=> pc'[q] = "done"
    BY <1>1, <1>2, <1>3 DEF IInv, TypeOK, States
  <2>4. QED
    BY <1>2, <1>3, <2>1, <2>2, <2>3 DEF IInv, TypeOK, States, Held
<1>5. Shape'
  <2>1. lock' \subseteq Runs /\ \A q, o \in lock' : q = o
    BY <1>1, <1>3 DEF IInv, TypeOK, Shape, Held
  <2>2. \A q \in Runs : pc'[q] \notin {"idle", "failed"} => opts[q].red # opts[q].blue
    BY <1>1, <1>3 DEF IInv, Shape
  <2>3. QED
    BY <1>2, <2>1, <2>2 DEF IInv, Shape
<1>6. Grows
  BY <1>2 DEF Grows, InLab
<1>7. Looked'
  <2> SUFFICES ASSUME NEW q \in Runs
               PROVE (/\ pc[q] \in {"password", "write", "print"} => KnownUsers(q) /\ KnownSession(q)
                      /\ pc[q] \in {"password", "write"} => found[q].session = InLab(opts[q].lab))'
    BY DEF Looked
  <2>1. pc'[q] \in {"password", "write", "print"} => pc[q] \in {"password", "write", "print"}
        /\ (pc'[q] \in {"password", "write"} => pc[q] \in {"password", "write"})
    BY <1>1, <1>3
  <2>2. pc'[q] \in {"password", "write", "print"} => KnownUsers(q)' /\ KnownSession(q)'
    BY <1>2, <1>6, <2>1, KnownStays DEF IInv, Looked
  <2>3. pc'[q] \in {"password", "write"} => found'[q].session = InLab(opts[q].lab)'
    BY <1>2, <2>1 DEF IInv, Looked, InLab
  <2>4. QED
    BY <2>2, <2>3
<1>8. Written'
  <2>1. \A q \in Runs : pc'[q] = "print" => pc[q] = "print"
    BY <1>1, <1>3
  <2>2. \A q \in Runs : NewUsers(q)' = NewUsers(q) /\ NewSessions(q)' = NewSessions(q)
    BY <1>2 DEF NewUsers, NewSessions, Missing, NameOf, TeamFor, UserFor
  <2>3. QED
    BY <1>2, <2>1, <2>2 DEF IInv, Written, InLab
<1>9. Reported' /\ WholeLabs'
  BY <1>2, <1>6, ReportedStays, WholeStays DEF IInv
<1>10. QED
  BY <1>4, <1>5, <1>7, <1>8, <1>9 DEF IInv

-----------------------------------------------------------------------------
(* The SELECTs.                                                            *)
LEMMA OneOrNone ==
    ASSUME NEW S, IsFiniteSet(S), Cardinality(S) <= 1, NEW s \in S PROVE S = {s}
<1> SUFFICES ASSUME NEW o \in S, o # s PROVE FALSE
  OBVIOUS
<1>1. IsFiniteSet({s}) /\ Cardinality({s}) = 1
  BY FS_Singleton
<1>2. Cardinality({s} \cup {o}) = 2
  <2>1. o \notin {s}
    OBVIOUS
  <2>2. Cardinality({s} \cup {o}) = Cardinality({s}) + 1
    BY <1>1, <2>1, FS_AddElement
  <2>3. QED
    BY <1>1, <2>2
<1>3. Cardinality({s} \cup {o}) <= Cardinality(S) /\ Cardinality(S) \in Nat
  BY FS_Subset, FS_CardinalityType
<1>4. QED
  BY ONLY <1>2, <1>3, Cardinality(S) <= 1

LEMMA CheckInv == ASSUME IInv, NEW r \in Runs, Check(r) PROVE IInv'
<1>1. PICK p \in {"password", "failed"} :
        /\ pc' = [pc EXCEPT ![r] = p]
        /\ lock' = (IF p = "password" THEN lock ELSE lock \ {r})
        /\ p = "password" => OwnUsers(r) /\ OwnSession(r)
        /\ p = "password" => found' = [found EXCEPT ![r] =
                  [user |-> [role \in Roles |-> Named(NameOf(r, role))],
                   session |-> InLab(opts[r].lab)]]
        /\ p = "failed" => found' = found
  BY DEF Check, Goto, Release
<1>2. UNCHANGED <<opts, app, users, sessions, report>> /\ pc[r] = "check"
  BY DEF Check
<1>3. pc \in [Runs -> States] /\ pc' \in [Runs -> States]
  BY <1>1 DEF IInv, TypeOK, States
<1>4. /\ found' = [q \in Runs |-> found'[q]]
      /\ \A q \in Runs : q # r => found'[q] = found[q]
      /\ pc'[r] = "password" => found'[r] = [user |-> [role \in Roles |-> Named(NameOf(r, role))],
                                             session |-> InLab(opts[r].lab)]
      /\ pc'[r] # "password" => found'[r] = found[r]
  BY <1>1, <1>3 DEF IInv, Shape
<1>5. TypeOK'
  <2>1. \A q \in Runs : q \in lock' <=> pc'[q] \in Held
    BY <1>1, <1>2, <1>3 DEF IInv, TypeOK, Held
  <2>2. (TableLocked => Reading = {})'
    BY <1>1, <1>2, <1>3 DEF IInv, TypeOK, TableLocked, Reading
  <2>3. \A q \in Runs : report'[q] # {} <=> pc'[q] = "done"
    BY <1>1, <1>2, <1>3 DEF IInv, TypeOK, States
  <2>4. \A q \in Runs : found'[q].session \subseteq sessions'
    BY <1>2, <1>3, <1>4 DEF IInv, TypeOK, InLab
  <2>5. QED
    BY <1>2, <1>3, <2>1, <2>2, <2>3, <2>4 DEF IInv, TypeOK, States, Held
<1>6. Shape'
  <2>1. lock' \subseteq Runs /\ \A q, o \in lock' : q = o
    BY <1>1 DEF IInv, Shape
  <2>2. \A q \in Runs : pc'[q] \notin {"idle", "failed"} => opts[q].red # opts[q].blue
    BY <1>1, <1>2, <1>3 DEF IInv, Shape
  <2>3. QED
    BY <1>2, <1>4, <2>1, <2>2 DEF IInv, Shape
<1>7. Grows
  BY <1>2 DEF Grows, InLab
<1>8. Looked'
  <2> SUFFICES ASSUME NEW q \in Runs
               PROVE (/\ pc[q] \in {"password", "write", "print"} => KnownUsers(q) /\ KnownSession(q)
                      /\ pc[q] \in {"password", "write"} => found[q].session = InLab(opts[q].lab))'
    BY DEF Looked
  <2>1. CASE q # r
    <3>1. pc'[q] = pc[q] /\ found'[q] = found[q]
      BY <1>1, <1>3, <1>4, <2>1
    <3>2. pc'[q] \in {"password", "write", "print"} => KnownUsers(q)' /\ KnownSession(q)'
      BY <1>7, <3>1, KnownStays DEF IInv, Looked
    <3>3. pc'[q] \in {"password", "write"} => found'[q].session = InLab(opts[q].lab)'
      BY <1>2, <3>1 DEF IInv, Looked, InLab
    <3>4. QED
      BY <3>2, <3>3
  <2>2. CASE q = r /\ pc'[r] = "password"
    <3>1. OwnUsers(r) /\ OwnSession(r)
      BY <1>1, <1>3, <2>2
    <3>2. KnownUsers(r)'
      BY <1>2, <1>4, <2>2, <3>1 DEF KnownUsers, OwnUsers, Named, NameOf
    <3>3. IsFiniteSet(InLab(opts[r].lab))
      BY FS_Subset DEF IInv, Shape, InLab
    <3>4. \A s \in InLab(opts[r].lab) : InLab(opts[r].lab) = {s}
      BY <3>1, <3>3, OneOrNone DEF OwnSession
    <3>5. KnownSession(r)'
      BY <1>2, <1>4, <2>2, <3>1, <3>4 DEF KnownSession, OwnSession, InLab
    <3>6. found'[r].session = InLab(opts[r].lab)'
      BY <1>2, <1>4, <2>2 DEF InLab
    <3>7. QED
      BY <2>2, <3>2, <3>5, <3>6
  <2>3. CASE q = r /\ pc'[r] # "password"
    BY <1>1, <1>3, <2>3
  <2>4. QED
    BY <2>1, <2>2, <2>3
<1>9. Written'
  <2>1. \A q \in Runs : pc'[q] = "print" => pc[q] = "print" /\ found'[q] = found[q]
    BY <1>1, <1>2, <1>3, <1>4
  <2>2. \A q \in Runs : found'[q] = found[q] => NewUsers(q)' = NewUsers(q) /\ NewSessions(q)' = NewSessions(q)
    BY <1>2 DEF NewUsers, NewSessions, Missing, NameOf, TeamFor, UserFor
  <2>3. QED
    BY <1>2, <2>1, <2>2 DEF IInv, Written, InLab
<1>10. Reported' /\ WholeLabs'
  BY <1>2, <1>7, ReportedStays, WholeStays DEF IInv
<1>11. QED
  BY <1>5, <1>6, <1>8, <1>9, <1>10 DEF IInv

-----------------------------------------------------------------------------
(* The rows a run commits or prints are those of its roles.                *)
LEMMA OwnRows ==
    ASSUME IInv, NEW r \in Runs, pc[r] \in {"write", "print"}, NEW role \in Roles
    PROVE  /\ UserFor(r, role) \in found[r].user[role] \cup NewUsers(r)
           /\ UserFor(r, role) = [id |-> UserFor(r, role).id, name |-> NameOf(r, role),
                                  role |-> role, lab |-> opts[r].lab]
<1>1. KnownUsers(r)
  BY DEF IInv, Looked
<1>2. \A u \in found[r].user[role] : u.role = role /\ u = [id |-> u.id, name |-> NameOf(r, role), role |-> role, lab |-> opts[r].lab]
  BY <1>1 DEF KnownUsers, IInv, Shape
<1>3. \A u \in NewUsers(r) : u.role = role => u = [id |-> u.id, name |-> NameOf(r, role), role |-> role, lab |-> opts[r].lab]
  BY DEF NewUsers
<1>4. \E u \in found[r].user[role] \cup NewUsers(r) : u.role = role
  <2>1. CASE found[r].user[role] = {}
    <3>1. [id |-> <<r, role>>, name |-> NameOf(r, role), role |-> role, lab |-> opts[r].lab] \in NewUsers(r)
      BY <2>1 DEF NewUsers, Missing
    <3>2. QED
      BY <3>1
  <2>2. CASE found[r].user[role] # {}
    BY <2>2, <1>2
  <2>3. QED
    BY <2>1, <2>2
<1>5. UserFor(r, role) \in found[r].user[role] \cup NewUsers(r) /\ UserFor(r, role).role = role
  BY <1>4 DEF UserFor
<1>6. QED
  BY <1>2, <1>3, <1>5

LEMMA TheTeam ==
    ASSUME IInv, NEW r \in Runs, pc[r] \in {"write", "print"}, NEW s \in NewSessions(r)
    PROVE  /\ s.lab = opts[r].lab /\ NewSessions(r) = {s} /\ found[r].session = {}
           /\ s.team = opts[r].team \/ s.team = UserFor(r, "red_team").id
           /\ opts[r].team # NoTeam => s.team = opts[r].team
BY DEF NewSessions, TeamFor

(* A commit that goes through.                                             *)
Commits(r) ==
    /\ \A u \in NewUsers(r) : Named(u.name) = {}
    /\ users' = users \cup NewUsers(r)
    /\ sessions' = sessions \cup NewSessions(r)

LEMMA CommitGrows == ASSUME IInv, NEW r \in Runs, Write(r) PROVE Grows
<1>1. pc[r] = "write" /\ UNCHANGED opts
  BY DEF Write
<1>2. CASE NewSessions(r) = {} \/ sessions' = sessions
  <2>1. sessions' = sessions /\ users \subseteq users'
    BY <1>2 DEF Write
  <2>2. QED
    BY <1>1, <2>1 DEF Grows, InLab
<1>3. CASE NewSessions(r) # {} /\ sessions' # sessions
  <2>1. PICK n : n \in NewSessions(r)
    BY <1>3
  <2>2. n.lab = opts[r].lab /\ NewSessions(r) = {n} /\ InLab(opts[r].lab) = {}
    BY <1>1, <2>1, TheTeam DEF IInv, Looked
  <2>3. sessions' = sessions \cup {n} /\ users \subseteq users'
    BY <1>3, <2>2 DEF Write
  <2>4. \A lab : \A s : InLab(lab) = {s} => InLab(lab)' = {s}
    BY <2>2, <2>3 DEF InLab
  <2>5. QED
    BY <1>1, <2>3, <2>4 DEF Grows
<1>4. QED
  BY <1>2, <1>3

LEMMA CommitWhole == ASSUME IInv, NEW r \in Runs, Write(r) PROVE WholeLabs'
<1> SUFFICES ASSUME NEW s \in sessions', s \notin OldSessions
             PROVE (/\ \A role \in Roles : \E u \in users : u.lab = s.lab /\ u.role = role
                    /\ \/ \E o \in Options : o.lab = s.lab /\ o.team = s.team /\ o.team # NoTeam
                       \/ \E u \in users : u.id = s.team /\ u.role = "red_team" /\ u.lab = s.lab)'
  BY DEF WholeLabs
<1>1. pc[r] = "write"
  BY DEF Write
<1>2. users \subseteq users'
  BY CommitGrows DEF Grows
<1>3. CASE s \in sessions
  BY <1>2, <1>3 DEF IInv, WholeLabs
<1>4. CASE s \notin sessions
  <2>1. s \in NewSessions(r) /\ NewUsers(r) \subseteq users'
    BY <1>4 DEF Write
  <2>2. s.lab = opts[r].lab /\ (s.team = UserFor(r, "red_team").id \/ s.team = opts[r].team)
        /\ (opts[r].team # NoTeam => s.team = opts[r].team)
    BY <1>1, <2>1, TheTeam
  <2>3. KnownUsers(r)
    BY <1>1 DEF IInv, Looked
  <2>4. \A role \in Roles : UserFor(r, role) \in users' /\ UserFor(r, role).lab = s.lab /\ UserFor(r, role).role = role
    <3> TAKE role \in Roles
    <3>1. UserFor(r, role) \in found[r].user[role] \cup NewUsers(r)
      BY <1>1, OwnRows
    <3>2. UserFor(r, role) = [id |-> UserFor(r, role).id, name |-> NameOf(r, role),
                              role |-> role, lab |-> opts[r].lab]
      BY <1>1, OwnRows
    <3>3. UserFor(r, role).lab = s.lab /\ UserFor(r, role).role = role
      BY <2>2, <3>2
    <3>4. UserFor(r, role) \in users'
      BY <1>2, <2>1, <2>3, <3>1 DEF KnownUsers
    <3>5. QED
      BY <3>3, <3>4
  <2>5. CASE opts[r].team # NoTeam
    <3>1. opts[r] \in Options /\ opts[r].lab = s.lab /\ opts[r].team = s.team
      BY <2>2, <2>5 DEF IInv, TypeOK
    <3>2. QED
      BY <2>4, <2>5, <3>1
  <2>6. CASE s.team = UserFor(r, "red_team").id
    BY <2>4, <2>6 DEF Roles
  <2>7. CASE opts[r].team = NoTeam
    <3>1. s.team = UserFor(r, "red_team").id
      BY <2>1, <2>7 DEF NewSessions, TeamFor
    <3>2. QED
      BY <2>6, <3>1
  <2>8. QED
    BY <2>5, <2>7
<1>5. QED
  BY <1>3, <1>4

LEMMA WriteInv == ASSUME IInv, NEW r \in Runs, Write(r) PROVE IInv'
<1>1. PICK p \in {"print", "failed"} :
        /\ pc' = [pc EXCEPT ![r] = p]
        /\ p = "print" => Commits(r)
        /\ Commits(r) \/ UNCHANGED <<users, sessions>>
  BY DEF Write, Goto, Commits
<1>2. pc[r] = "write" /\ lock' = lock \ {r} /\ UNCHANGED <<opts, app, found, report>>
  BY DEF Write, Release
<1>3. pc \in [Runs -> States] /\ pc' \in [Runs -> States]
  BY <1>1 DEF IInv, TypeOK, States
<1>4. Grows
  BY CommitGrows
<1>5. opts[r] \in Options /\ opts[r].lab \in Labs /\ opts[r].red # opts[r].blue
  BY <1>2 DEF IInv, TypeOK, Shape
<1>6. IsFiniteSet(sessions') /\ \A s \in sessions' : s.lab \in Labs
  <2>1. CASE sessions' = sessions
    BY <2>1 DEF IInv, TypeOK, Shape
  <2>2. CASE sessions' # sessions
    <3>1. PICK n : n \in NewSessions(r)
      BY <1>1, <2>2 DEF Commits
    <3>2. NewSessions(r) = {n} /\ n.lab = opts[r].lab
      BY <1>2, <3>1, TheTeam
    <3>3. sessions' = sessions \cup {n}
      BY <1>1, <2>2, <3>2 DEF Commits
    <3>4. IsFiniteSet(sessions')
      BY <3>3, FS_AddElement DEF IInv, Shape
    <3>5. QED
      BY <1>5, <3>2, <3>3, <3>4 DEF IInv, TypeOK
  <2>3. QED
    BY <2>1, <2>2
<1>7. \A u, v \in users' : u.name = v.name => u = v
  <2>1. CASE users' = users
    BY <2>1 DEF IInv, TypeOK
  <2>2. CASE Commits(r)
    <3>1. \A u, v \in NewUsers(r) : u.name = v.name => u = v
      BY <1>5 DEF NewUsers, NameOf, Roles, Missing
    <3>2. \A u \in NewUsers(r), v \in users : u.name # v.name
      BY <2>2 DEF Commits, Named
    <3>3. QED
      BY <2>2, <3>1, <3>2 DEF Commits, IInv, TypeOK
  <2>3. QED
    BY <1>1, <2>1, <2>2
<1>8. TypeOK'
  <2>1. \A q \in Runs : q \in lock' <=> pc'[q] \in Held
    BY <1>1, <1>2, <1>3 DEF IInv, TypeOK, Held
  <2>2. (TableLocked => Reading = {})'
    BY <1>1, <1>2, <1>3 DEF IInv, TypeOK, TableLocked, Reading
  <2>3. \A q \in Runs : report'[q] # {} <=> pc'[q] = "done"
    BY <1>1, <1>2, <1>3 DEF IInv, TypeOK, States
  <2>4. \A q \in Runs : found'[q].session \subseteq sessions'
    BY <1>2, <1>4 DEF IInv, TypeOK, Grows
  <2>5. QED
    BY <1>2, <1>3, <1>6, <1>7, <2>1, <2>2, <2>3, <2>4 DEF IInv, TypeOK, States, Held
<1>9. Shape'
  <2>1. lock' \subseteq Runs /\ \A q, o \in lock' : q = o
    BY <1>2 DEF IInv, Shape
  <2>2. \A q \in Runs : pc'[q] \notin {"idle", "failed"} => opts[q].red # opts[q].blue
    BY <1>1, <1>2, <1>3 DEF IInv, Shape
  <2>3. \A u \in NewUsers(r) : u = [id |-> u.id, name |-> u.name, role |-> u.role, lab |-> u.lab]
    BY DEF NewUsers
  <2>4. \A u \in users' : u = [id |-> u.id, name |-> u.name, role |-> u.role, lab |-> u.lab]
    BY <1>1, <2>3 DEF Commits, IInv, Shape
  <2>5. QED
    BY <1>2, <1>6, <2>1, <2>2, <2>4 DEF IInv, Shape
<1>10. \A q \in Runs : pc'[q] \notin {"password", "write"}
  <2>1. r \in lock /\ \A q \in Runs : pc[q] \in {"password", "write"} => q \in lock
    BY <1>2 DEF IInv, TypeOK
  <2>2. \A q \in Runs : pc[q] \in {"password", "write"} => q = r
    BY <2>1 DEF IInv, Shape
  <2>3. QED
    BY <1>1, <1>3, <2>2
<1>11. Looked'
  <2> SUFFICES ASSUME NEW q \in Runs, pc'[q] = "print" PROVE KnownUsers(q)' /\ KnownSession(q)'
    BY <1>10 DEF Looked
  <2>1. pc[q] \in {"print", "write"}
    BY <1>1, <1>2, <1>3
  <2>2. QED
    BY <1>2, <1>4, <2>1, KnownStays DEF IInv, Looked
<1>12. \A q \in Runs : NewUsers(q)' = NewUsers(q) /\ NewSessions(q)' = NewSessions(q)
  BY <1>2 DEF NewUsers, NewSessions, Missing, NameOf, TeamFor, UserFor
<1>13. Written'
  <2> SUFFICES ASSUME NEW q \in Runs, pc'[q] = "print"
               PROVE (NewUsers(q) \subseteq users /\ \A s \in NewSessions(q) : InLab(opts[q].lab) = {s})'
    BY DEF Written
  <2>1. CASE q # r
    <3>1. pc[q] = "print"
      BY <1>1, <1>3, <2>1
    <3>2. NewUsers(q) \subseteq users /\ \A s \in NewSessions(q) : InLab(opts[q].lab) = {s}
      BY <3>1 DEF IInv, Written
    <3>3. NewUsers(q) \subseteq users' /\ \A s \in NewSessions(q) : InLab(opts[q].lab)' = {s}
      BY <1>2, <1>4, <3>2 DEF Grows
    <3>4. QED
      BY <1>2, <1>12, <3>3
  <2>2. CASE q = r
    <3>1. Commits(r)
      BY <1>1, <1>3, <2>2
    <3>2. ASSUME NEW s \in NewSessions(r) PROVE InLab(opts[r].lab)' = {s}
      <4>1. s.lab = opts[r].lab /\ NewSessions(r) = {s} /\ InLab(opts[r].lab) = {}
        BY <1>2, <3>2, TheTeam DEF IInv, Looked
      <4>2. sessions' = sessions \cup {s}
        BY <3>1, <4>1 DEF Commits
      <4>3. QED
        BY <1>2, <4>1, <4>2 DEF InLab
    <3>3. QED
      BY <1>12, <2>2, <3>1, <3>2 DEF Commits
  <2>3. QED
    BY <2>1, <2>2
<1>14. Reported'
  BY <1>2, <1>4, ReportedStays DEF IInv
<1>15. QED
  BY <1>8, <1>9, <1>11, <1>13, <1>14, CommitWhole DEF IInv

-----------------------------------------------------------------------------
LEMMA PrintInv == ASSUME IInv, NEW r \in Runs, PrintReport(r) PROVE IInv'
<1>1. PICK s \in found[r].session \cup NewSessions(r) :
        report' = [report EXCEPT ![r] =
           {[lab |-> opts[r].lab, session |-> s,
             user |-> [role \in Roles |-> UserFor(r, role).id],
             created |-> Creates(r)]}]
  BY DEF PrintReport
<1>2. /\ pc[r] = "print" /\ pc' = [pc EXCEPT ![r] = "done"]
      /\ UNCHANGED <<opts, lock, app, users, sessions, found>>
  BY DEF PrintReport, Goto
<1>3. pc \in [Runs -> States] /\ pc' \in [Runs -> States]
  BY <1>2 DEF IInv, TypeOK, States
<1>4. /\ report' = [q \in Runs |-> report'[q]] /\ \A q \in Runs : q # r => report'[q] = report[q]
      /\ report'[r] = {[lab |-> opts[r].lab, session |-> s,
                        user |-> [role \in Roles |-> UserFor(r, role).id], created |-> Creates(r)]}
  BY <1>1 DEF IInv, Shape
<1>5. Grows
  BY <1>2 DEF Grows, InLab
<1>6. TypeOK'
  <2>1. \A q \in Runs : q \in lock' <=> pc'[q] \in Held
    BY <1>2, <1>3 DEF IInv, TypeOK, Held
  <2>2. (TableLocked => Reading = {})'
    BY <1>2, <1>3 DEF IInv, TypeOK, TableLocked, Reading
  <2>3. \A q \in Runs : report'[q] # {} <=> pc'[q] = "done"
    BY <1>2, <1>3, <1>4 DEF IInv, TypeOK
  <2>4. QED
    BY <1>2, <1>3, <2>1, <2>2, <2>3 DEF IInv, TypeOK, States, Held
<1>7. Shape'
  <2>1. \A q \in Runs : pc'[q] \notin {"idle", "failed"} => opts[q].red # opts[q].blue
    BY <1>2, <1>3 DEF IInv, Shape
  <2>2. QED
    BY <1>2, <1>4, <2>1 DEF IInv, Shape
<1>8. Looked' /\ Written'
  <2>1. \A q \in Runs : pc'[q] \in {"password", "write", "print"} => pc[q] = pc'[q]
    BY <1>2, <1>3
  <2>2. \A q \in Runs : KnownUsers(q)' = KnownUsers(q) /\ KnownSession(q)' = KnownSession(q)
    BY <1>2 DEF KnownUsers, KnownSession, NameOf, InLab
  <2>3. \A q \in Runs : NewUsers(q)' = NewUsers(q) /\ NewSessions(q)' = NewSessions(q)
    BY <1>2 DEF NewUsers, NewSessions, Missing, NameOf, TeamFor, UserFor
  <2>4. Looked'
    BY <1>2, <2>1, <2>2 DEF IInv, Looked, InLab
  <2>5. Written'
    BY <1>2, <2>1, <2>3 DEF IInv, Written, InLab
  <2>6. QED
    BY <2>4, <2>5
<1>9. s.lab = opts[r].lab /\ InLab(opts[r].lab) = {s} /\ opts[r].team \in {NoTeam, s.team}
  <2>1. CASE s \in found[r].session
    BY <1>2, <2>1 DEF IInv, Looked, KnownSession
  <2>2. CASE s \in NewSessions(r)
    <3>1. InLab(opts[r].lab) = {s}
      BY <1>2, <2>2 DEF IInv, Written
    <3>2. QED
      BY <1>2, <2>2, <3>1, TheTeam
  <2>3. QED
    BY <2>1, <2>2
<1>10. \A role \in Roles :
         [id |-> UserFor(r, role).id, name |-> NameOf(r, role), role |-> role, lab |-> opts[r].lab] \in users
  <2>1. KnownUsers(r) /\ NewUsers(r) \subseteq users
    BY <1>2 DEF IInv, Looked, Written
  <2> TAKE role \in Roles
  <2>2. UserFor(r, role) \in found[r].user[role] \cup NewUsers(r)
    BY <1>2, OwnRows
  <2>3. UserFor(r, role) = [id |-> UserFor(r, role).id, name |-> NameOf(r, role),
                            role |-> role, lab |-> opts[r].lab]
    BY <1>2, OwnRows
  <2>4. UserFor(r, role) \in users
    BY <2>1, <2>2 DEF KnownUsers
  <2>5. QED
    BY <2>3, <2>4
<1>11. \A i \in Creates(r) : i[1] = r
  BY DEF Creates, NewUsers, NewSessions
<1>12. Reported'
  <2> SUFFICES ASSUME NEW q \in Runs, NEW p \in report'[q]
               PROVE (/\ p.lab = opts[q].lab /\ p.session.lab = p.lab
                      /\ InLab(p.lab) = {p.session} /\ opts[q].team \in {NoTeam, p.session.team}
                      /\ \A role \in Roles :
                           [id |-> p.user[role], name |-> NameOf(q, role), role |-> role, lab |-> opts[q].lab] \in users
                      /\ \A i \in p.created : i[1] = q)'
    BY DEF Reported
  <2>1. opts' = opts /\ InLab(p.lab)' = InLab(p.lab) /\ users' = users
        /\ \A role \in Roles : NameOf(q, role)' = NameOf(q, role)
    BY <1>2 DEF InLab, NameOf
  <2>2. CASE q # r
    BY SMTT(30), <1>4, <2>1, <2>2 DEF IInv, Reported
  <2>3. CASE q = r
    <3>1. /\ p.lab = opts[r].lab /\ p.session = s /\ p.created = Creates(r)
          /\ \A role \in Roles : p.user[role] = UserFor(r, role).id
      BY <1>4, <2>3
    <3>2. QED
      BY <1>9, <1>10, <1>11, <2>1, <2>3, <3>1
  <2>4. QED
    BY <2>2, <2>3
<1>13. WholeLabs'
  BY <1>2, <1>5, WholeStays DEF IInv
<1>14. QED
  BY <1>6, <1>7, <1>8, <1>12, <1>13 DEF IInv

-----------------------------------------------------------------------------
(* Requests of the application and users other programs add.               *)
LEMMA OthersInv ==
    ASSUME IInv, (\E q \in Requests : Request(q)) \/ (\E name \in Names, lab \in Labs : HiddenUser(name, lab))
    PROVE  IInv' /\ Grows
<1>1. UNCHANGED <<pc, opts, lock, sessions, found, report>> /\ users \subseteq users'
  BY DEF Request, HiddenUser
<1>2. Grows
  BY <1>1 DEF Grows, InLab
<1>3. app' \in [Requests -> {"out", "asking", "reading"}] /\ (TableLocked => Reading = {})'
  <2>1. CASE \E q \in Requests : Request(q)
    BY <1>1, <2>1 DEF Request, Ask, Read, End, IInv, TypeOK, TableLocked, Reading
  <2>2. CASE \E name \in Names, lab \in Labs : HiddenUser(name, lab)
    BY <1>1, <2>2 DEF HiddenUser, IInv, TypeOK, TableLocked, Reading
  <2>3. QED
    BY <2>1, <2>2
<1>4. (\A u, v \in users' : u.name = v.name => u = v)
      /\ \A u \in users' : u = [id |-> u.id, name |-> u.name, role |-> u.role, lab |-> u.lab]
  <2>1. CASE \E q \in Requests : Request(q)
    BY <2>1 DEF Request, IInv, TypeOK, Shape
  <2>2. CASE \E name \in Names, lab \in Labs : HiddenUser(name, lab)
    BY <2>2 DEF HiddenUser, Named, IInv, TypeOK, Shape
  <2>3. QED
    BY <2>1, <2>2
<1>5. TypeOK' /\ Shape'
  BY <1>1, <1>3, <1>4 DEF IInv, TypeOK, Shape
<1>6. Looked'
  <2>1. \A q \in Runs : (KnownUsers(q) => KnownUsers(q)') /\ (KnownSession(q) => KnownSession(q)')
    BY <1>1, <1>2, KnownStays
  <2>2. QED
    BY <1>1, <2>1 DEF IInv, Looked, InLab
<1>7. Written'
  <2>1. \A q \in Runs : NewUsers(q)' = NewUsers(q) /\ NewSessions(q)' = NewSessions(q)
    BY <1>1 DEF NewUsers, NewSessions, Missing, NameOf, TeamFor, UserFor
  <2>2. QED
    BY <1>1, <2>1 DEF IInv, Written, InLab
<1>8. Reported' /\ WholeLabs'
  BY <1>1, <1>2, ReportedStays, WholeStays DEF IInv
<1>9. QED
  BY <1>2, <1>5, <1>6, <1>7, <1>8 DEF IInv

LEMMA NextInv == ASSUME IInv, [Next]_vars PROVE IInv'
<1>1. CASE Next
  <2>1. CASE \E r \in Runs : Step(r) \/ Interrupt(r)
    BY <2>1, MovesInv, CheckInv, WriteInv, PrintInv DEF Moves, Step
  <2>2. QED
    BY <1>1, <2>1, OthersInv DEF Next
<1>2. CASE UNCHANGED vars
  <2>1. TypeOK' /\ Shape' /\ WholeLabs'
    BY <1>2 DEF vars, IInv, TypeOK, Shape, WholeLabs, TableLocked, Reading
  <2>2. Grows
    BY <1>2 DEF vars, Grows, InLab
  <2>3. \A q \in Runs : NewUsers(q)' = NewUsers(q) /\ NewSessions(q)' = NewSessions(q)
    BY <1>2 DEF vars, NewUsers, NewSessions, Missing, NameOf, TeamFor, UserFor
  <2>4. \A q \in Runs : KnownUsers(q)' = KnownUsers(q) /\ KnownSession(q)' = KnownSession(q)
    BY <1>2 DEF vars, KnownUsers, KnownSession, NameOf, InLab
  <2>5. Looked'
    BY <1>2, <2>4 DEF vars, IInv, Looked, InLab
  <2>6. Written'
    BY <1>2, <2>3 DEF vars, IInv, Written, InLab
  <2>7. Reported'
    BY <1>2, <2>2, ReportedStays DEF vars, IInv
  <2>8. QED
    BY <2>1, <2>5, <2>6, <2>7 DEF IInv
<1>3. QED
  BY <1>1, <1>2

-----------------------------------------------------------------------------
LEMMA Agreement == ASSUME IInv PROVE RepeatsAgree
<1> SUFFICES ASSUME NEW r \in Runs, NEW q \in Runs, NEW p \in report[r], NEW o \in report[q], p.lab = o.lab
             PROVE  /\ p.session = o.session
                    /\ \A role \in Roles : NameOf(r, role) = NameOf(q, role) => p.user[role] = o.user[role]
                    /\ r = q \/ p.created \cap o.created = {}
  BY DEF RepeatsAgree
<1>1. InLab(p.lab) = {p.session} /\ InLab(o.lab) = {o.session}
  BY DEF IInv, Reported
<1>2. ASSUME NEW role \in Roles, NameOf(r, role) = NameOf(q, role) PROVE p.user[role] = o.user[role]
  <2> DEFINE u == [id |-> p.user[role], name |-> NameOf(r, role), role |-> role, lab |-> opts[r].lab]
             v == [id |-> o.user[role], name |-> NameOf(q, role), role |-> role, lab |-> opts[q].lab]
  <2>1. u \in users /\ v \in users
    BY DEF IInv, Reported
  <2>2. u = v
    BY <1>2, <2>1 DEF IInv, TypeOK
  <2>3. u.id = v.id
    BY <2>2
  <2>4. QED
    BY <2>3
<1>3. \A i \in p.created \cap o.created : i[1] = r /\ i[1] = q
  BY DEF IInv, Reported
<1>4. QED
  BY <1>1, <1>2, <1>3

LEMMA TrueReports == ASSUME IInv PROVE ReportTrue
<1> SUFFICES ASSUME NEW r \in Runs, NEW p \in report[r]
             PROVE  /\ p.session \in sessions /\ p.session.lab = opts[r].lab
                    /\ opts[r].team \in {NoTeam, p.session.team}
                    /\ \A role \in Roles :
                         [id |-> p.user[role], name |-> NameOf(r, role), role |-> role, lab |-> opts[r].lab] \in users
  BY DEF ReportTrue
<1>1. InLab(p.lab) = {p.session}
  BY DEF IInv, Reported
<1>2. p.session \in sessions
  BY <1>1 DEF InLab
<1>3. QED
  BY <1>2 DEF IInv, Reported

(* Setup runs that overlap, are killed, time out or lose their connection  *)
(* in the commit, and are repeated: reports are true and agree, and labs   *)
(* are whole (admin_setup.py:48-145).                                      *)
THEOREM WholeAndTrue == Spec => []LabsWhole
<1>1. Init => IInv
  BY InitInv
<1>2. IInv /\ [Next]_vars => IInv'
  BY NextInv
<1>3. IInv => LabsWhole
  BY Agreement, TrueReports DEF IInv, LabsWhole
<1>4. QED
  BY <1>1, <1>2, <1>3, PTL DEF Spec

LEMMA OneAtMost ==
    ASSUME IInv, [Next]_vars, NEW lab
    PROVE  \/ InLab(lab)' = InLab(lab)
           \/ InLab(lab) = {} /\ \E s : InLab(lab)' = {s}
<1>1. CASE sessions' = sessions
  BY <1>1 DEF InLab
<1>2. CASE sessions' # sessions
  <2>1. PICK r \in Runs : Write(r)
    BY <1>2 DEF Next, vars, Step, Start, Acquire, Alter, LockTimeout, Check, Passwords, PrintReport,
                Interrupt, Request, HiddenUser
  <2>2. pc[r] = "write" /\ sessions' = sessions \cup NewSessions(r)
    BY <1>2, <2>1 DEF Write
  <2>3. PICK n : n \in NewSessions(r)
    BY <1>2, <2>2
  <2>4. n.lab = opts[r].lab /\ NewSessions(r) = {n} /\ InLab(opts[r].lab) = {}
    BY <2>2, <2>3, TheTeam DEF IInv, Looked
  <2>5. CASE lab = opts[r].lab
    <3>1. InLab(lab)' = {n} /\ InLab(lab) = {}
      BY <2>2, <2>4, <2>5 DEF InLab
    <3>2. QED
      BY <3>1
  <2>6. CASE lab # opts[r].lab
    BY <2>2, <2>4, <2>6 DEF InLab
  <2>7. QED
    BY <2>5, <2>6
<1>3. QED
  BY <1>1, <1>2

(* No lab ever gets a second session, although no constraint of the table  *)
(* forbids one (LOCAL_RUN.md:159).                                         *)
THEOREM OneSession == Spec => NoSecondSession
<1>1. Init => IInv
  BY InitInv
<1>2. IInv /\ [Next]_vars => IInv'
  BY NextInv
<1>3. IInv /\ [Next]_vars =>
        [\A lab \in Labs : Cardinality({s \in sessions' : s.lab = lab}) > 1
          => {s \in sessions' : s.lab = lab} = {s \in sessions : s.lab = lab}]_vars
  <2> SUFFICES ASSUME IInv, [Next]_vars, NEW lab \in Labs,
                      Cardinality({s \in sessions' : s.lab = lab}) > 1
               PROVE  {s \in sessions' : s.lab = lab} = {s \in sessions : s.lab = lab}
    OBVIOUS
  <2>1. \A s : Cardinality({s}) = 1
    BY FS_Singleton
  <2>2. CASE InLab(lab)' = InLab(lab)
    BY <2>2 DEF InLab
  <2>3. CASE \E s : InLab(lab)' = {s}
    <3>1. PICK s : {n \in sessions' : n.lab = lab} = {s}
      BY <2>3 DEF InLab
    <3>2. Cardinality({n \in sessions' : n.lab = lab}) = 1
      BY <2>1, <3>1
    <3>3. QED
      BY <3>2
  <2>4. InLab(lab)' = InLab(lab) \/ \E s : InLab(lab)' = {s}
    BY OneAtMost
  <2>5. QED
    BY <2>2, <2>3, <2>4
<1>4. QED
  BY <1>1, <1>2, <1>3, PTL DEF Spec, NoSecondSession

-----------------------------------------------------------------------------
(* Seeding (ExerciseSeeding)                                               *)

(* The phases in which a run keeps the lock, unless its connection is lost. *)
SeedHolding == {"seed", "commit", "read", "add", "unlock", "abandon"}

(* What holds of the lock: one holder, and it is at work.                  *)
SeedLockKept ==
    /\ \A r \in seedLock : r \in Seeders /\ seedPc[r] \in SeedHolding
    /\ \A r, q \in seedLock : r = q
    /\ ~lost => \A r \in Seeders : seedPc[r] \in SeedHolding => r \in seedLock

(* A row is as its run drew it.                                            *)
SeedDrawn(s) ==
    /\ s \in Seeding!Row
    /\ s.lab = SeedLabOf[s.flag[1]] /\ s.flag[2] = s.exercise
    /\ s.exercise \in Seeding!RuntimeSecrets => s.value = s.flag

(* A lab has all its rows or none, one for each exercise.                  *)
SeedRowsWhole ==
    /\ \A s \in secrets : SeedDrawn(s)
    /\ \A s, u \in secrets : s.lab = u.lab /\ s.exercise = u.exercise => s = u
    /\ \A s \in secrets : \A ex \in Seeding!Exercises : \E u \in secrets :
         u.lab = s.lab /\ u.exercise = ex

(* The flags and the staff threads tell what the rows tell.                *)
SeedRegistered ==
    /\ flags = {<<s.lab, s.flag>> : s \in secrets}
    /\ notes = {<<s.lab, s.flag>> : s \in {u \in secrets : u.exercise = "EX-04"}}

(* A run that found nothing missing, or whose transaction is over, has a   *)
(* lab with rows, its own among them.                                      *)
SeedProgress(r) ==
    /\ missing[r] \in {{}, Seeding!Exercises}
    /\ seedPc[r] = "commit" /\ missing[r] = {} => \E s \in secrets : s.lab = SeedLabOf[r]
    /\ seedPc[r] \in {"read", "add", "unlock", "print"} =>
         (\E s \in secrets : s.lab = SeedLabOf[r]) /\ Seeding!NewRows(r) \subseteq secrets
    /\ seedPc[r] \in {"done", "partial"} => \A v \in Seeding!Created(r) : <<v, r>> \in shown

(* A printed value is a committed one that the run itself drew.            *)
SeedShownDrawn ==
    \A s \in shown :
        /\ s[1][1] = s[2]
        /\ \E row \in secrets : row.flag = s[1] /\ row.lab = SeedLabOf[s[2]]

(* Whoever holds the lock has removed what it is about to add.             *)
SeedRemoved ==
    lost \/ \A r \in Seeders : seedPc[r] = "add" => \A d \in index : d[1] # SeedLabOf[r]

(* A run that touched the document last has got so far; if it indexed the  *)
(* document, there is one.                                                 *)
SeedLastTouch ==
    /\ \A lab \in SeedLabs : \A r \in last[lab] :
         /\ SeedLabOf[r] = lab
         /\ seedPc[r] \in {"add", "unlock", "print", "done", "partial", "killed"}
              \/ (lost /\ seedPc[r] = "failed")
         /\ r \in built => \E d \in index : d[1] = lab
    /\ \A r \in built : seedPc[r] \in {"unlock", "print", "done", "partial", "failed", "killed"}
    /\ \A r \in Seeders : seedPc[r] = "done" => r \in built

SeedTypes ==
    /\ seedPc \in [Seeders -> Seeding!Phases]
    /\ lost \in BOOLEAN
    /\ seedLabs \subseteq SeedLabs
    /\ index \subseteq SeedLabs \X Seeding!Value \X Seeders
    /\ missing \in [Seeders -> SUBSET Seeding!Exercises]
    /\ built \subseteq Seeders /\ shown \subseteq Seeding!Value \X Seeders
    /\ last \in [SeedLabs -> SUBSET Seeders]
    /\ faults \in 0 .. MaxFaults

SeedInv ==
    /\ SeedTypes /\ SeedLockKept
    /\ SeedRowsWhole /\ SeedRegistered
    /\ \A r \in Seeders : SeedProgress(r)
    /\ SeedShownDrawn
    /\ Seeding!IndexKnown /\ Seeding!OneDocument /\ SeedRemoved /\ SeedLastTouch

LEMMA SeedInitInv == Seeding!Init => SeedInv
<1> SUFFICES ASSUME Seeding!Init PROVE SeedInv
  OBVIOUS
<1> USE DEF Seeding!Init
<1>1. SeedTypes
  <2>1. 0 \in 0 .. MaxFaults
    BY CommandsAssumption DEF Seeding!SeedingAssumption
  <2>2. lost \in BOOLEAN
    OBVIOUS
  <2> QED
    BY <2>1, <2>2 DEF SeedTypes, Seeding!Phases
<1>2. SeedLockKept
  BY DEF SeedLockKept, SeedHolding
<1>3. SeedRowsWhole /\ SeedRegistered
  BY DEF SeedRowsWhole, SeedRegistered
<1>4. \A r \in Seeders : SeedProgress(r)
  BY DEF SeedProgress
<1>5. SeedShownDrawn /\ Seeding!IndexKnown /\ Seeding!OneDocument
  BY DEF SeedShownDrawn, Seeding!IndexKnown, Seeding!OneDocument
<1>6. SeedRemoved /\ SeedLastTouch
  BY DEF SeedRemoved, SeedLastTouch
<1> QED
  BY <1>1, <1>2, <1>3, <1>4, <1>5, <1>6 DEF SeedInv

LEMMA SeedStutterInv == SeedInv /\ UNCHANGED Seeding!vars => SeedInv'
  BY DEF Seeding!vars, Seeding!store, SeedInv, SeedTypes, SeedLockKept, SeedRowsWhole, SeedDrawn,
       SeedRegistered, SeedProgress, SeedShownDrawn, Seeding!IndexKnown, Seeding!OneDocument,
       SeedRemoved, SeedLastTouch, Seeding!NewRows, Seeding!Created

(* Two runs do not both work while no connection was lost.                 *)
LEMMA SeedAlone ==
    ASSUME SeedInv, ~lost, NEW r \in Seeders, NEW q \in Seeders, seedPc[r] \in SeedHolding,
           seedPc[q] \in SeedHolding
    PROVE  r = q
  BY DEF SeedInv, SeedLockKept

(* Steps that leave the rows and what was shown alone.                     *)
LEMMA SeedSameRowsInv ==
    ASSUME SeedInv, UNCHANGED secrets, UNCHANGED <<flags, notes>>
    PROVE  SeedRowsWhole' /\ SeedRegistered'
  BY DEF SeedInv, SeedRowsWhole, SeedDrawn, SeedRegistered

LEMMA SeedSameIndexInv ==
    ASSUME SeedInv, index' \subseteq index, UNCHANGED Seeding!store
    PROVE  Seeding!IndexKnown' /\ (lost' \/ ~lost => Seeding!OneDocument')
  BY DEF SeedInv, Seeding!IndexKnown, Seeding!OneDocument, Seeding!store

(* A run that only changes its phase.                                      *)
LEMMA SeedGotoInv ==
    ASSUME SeedInv, NEW r \in Seeders, NEW p \in Seeding!Phases, Seeding!Goto(r, p),
           UNCHANGED <<secrets, flags, notes, seedLabs, index, missing, built, last>>,
           SeedLockKept', lost => lost', lost' \in BOOLEAN, faults' \in 0 .. MaxFaults,
           shown' \subseteq Seeding!Value \X Seeders, shown \subseteq shown',
           SeedShownDrawn',
           \/ p = "seed" /\ seedPc[r] = "idle"
           \/ p = "abandon" /\ seedPc[r] = "seed"
           \/ p = "print" /\ seedPc[r] = "unlock"
           \/ p = "failed" /\ (seedPc[r] = "abandon" \/ (seedPc[r] = "unlock" /\ lost'))
           \/ p = "killed"
           \/ /\ p \in {"done", "partial"} /\ seedPc[r] = "print" /\ (p = "done" => r \in built)
              /\ \A v \in Seeding!Created(r) : <<v, r>> \in shown'
    PROVE  SeedInv'
<1> USE DEF SeedInv, SeedTypes, Seeding!Goto
<1>1. SeedTypes'
  BY DEF Seeding!Phases
<1>2. SeedRowsWhole' /\ SeedRegistered'
  BY SeedSameRowsInv
<1>3. ASSUME NEW q \in Seeders PROVE SeedProgress(q)'
  BY DEF SeedProgress, Seeding!NewRows, Seeding!Created
<1>4. Seeding!IndexKnown' /\ Seeding!OneDocument'
  BY DEF Seeding!IndexKnown, Seeding!OneDocument
<1>5. SeedRemoved'
  BY DEF SeedRemoved
<1>6. SeedLastTouch'
  <2>1. ASSUME NEW lab \in SeedLabs, NEW q \in last[lab]
        PROVE  /\ SeedLabOf[q] = lab
               /\ seedPc'[q] \in {"add", "unlock", "print", "done", "partial", "killed"}
                    \/ (lost' /\ seedPc'[q] = "failed")
               /\ q \in built => \E d \in index : d[1] = lab
    BY <2>1 DEF SeedLastTouch
  <2>2. \A q \in built :
          seedPc'[q] \in {"unlock", "print", "done", "partial", "failed", "killed"}
    BY DEF SeedLastTouch
  <2>3. \A q \in Seeders : seedPc'[q] = "done" => q \in built
    BY DEF SeedLastTouch
  <2> QED
    BY <2>1, <2>2, <2>3 DEF SeedLastTouch
<1> QED
  BY <1>1, <1>2, <1>3, <1>4, <1>5, <1>6

LEMMA SeedSetUpInv ==
    ASSUME SeedInv, NEW lab \in SeedLabs, Seeding!SetUp(lab)
    PROVE  SeedInv'
  BY DEF Seeding!SetUp, Seeding!store, SeedInv, SeedTypes, SeedLockKept, SeedRowsWhole, SeedDrawn,
       SeedRegistered, SeedProgress, SeedShownDrawn, Seeding!IndexKnown, Seeding!OneDocument,
       SeedRemoved, SeedLastTouch, Seeding!NewRows, Seeding!Created

LEMMA SeedTakeLockInv ==
    ASSUME SeedInv, NEW r \in Seeders, Seeding!TakeLock(r)
    PROVE  SeedInv'
<1> USE DEF Seeding!TakeLock, Seeding!store
<1>1. SeedLockKept'
  BY DEF SeedInv, SeedTypes, SeedLockKept, SeedHolding, Seeding!Goto
<1>2. SeedShownDrawn'
  BY DEF SeedInv, SeedShownDrawn
<1> QED
  BY <1>1, <1>2, SeedGotoInv DEF Seeding!Phases, SeedInv, SeedTypes

LEMMA SeedLookInv ==
    ASSUME SeedInv, NEW r \in Seeders, Seeding!Look(r)
    PROVE  SeedInv'
<1> USE DEF Seeding!Look, Seeding!store
<1>1. SeedLockKept'
  BY DEF SeedInv, SeedTypes, SeedLockKept, SeedHolding, Seeding!Goto
<1>2. SeedShownDrawn' /\ r \notin built
  BY DEF SeedInv, SeedShownDrawn, SeedLastTouch
<1>3. CASE SeedLabOf[r] \notin seedLabs
  BY <1>1, <1>2, <1>3, SeedGotoInv DEF Seeding!Phases, SeedInv, SeedTypes
<1>4. CASE SeedLabOf[r] \in seedLabs
  <2>1. missing' = [missing EXCEPT ![r]
          = Seeding!Exercises \ {s.exercise : s \in Seeding!RowsOf(SeedLabOf[r])}]
        /\ Seeding!Goto(r, "commit")
    BY <1>4
  <2>2. \/ Seeding!RowsOf(SeedLabOf[r]) = {} /\ missing'[r] = Seeding!Exercises
        \/ Seeding!RowsOf(SeedLabOf[r]) # {} /\ missing'[r] = {}
    BY <2>1 DEF SeedInv, SeedTypes, SeedRowsWhole, Seeding!RowsOf
  <2>3. SeedTypes'
    BY <2>1 DEF SeedInv, SeedTypes, Seeding!Goto, Seeding!Phases
  <2>4. SeedRowsWhole' /\ SeedRegistered'
    BY SeedSameRowsInv
  <2>5. ASSUME NEW q \in Seeders PROVE SeedProgress(q)'
    <3>1. CASE q # r
      BY <3>1, <2>1 DEF SeedInv, SeedTypes, SeedProgress, Seeding!NewRows, Seeding!Created,
           Seeding!Goto
    <3>2. CASE q = r
      <4>1. seedPc'[r] = "commit"
        BY <2>1 DEF Seeding!Goto, SeedInv, SeedTypes
      <4>2. missing'[r] = {} => \E s \in secrets : s.lab = SeedLabOf[r]
        BY <2>2 DEF Seeding!RowsOf, Seeding!Exercises
      <4> QED
        BY <3>2, <4>1, <4>2, <2>2 DEF SeedProgress
    <3> QED
      BY <3>1, <3>2
  <2>6. Seeding!IndexKnown' /\ Seeding!OneDocument' /\ SeedRemoved' /\ SeedLastTouch'
    BY <2>1, <1>2 DEF SeedInv, SeedTypes, Seeding!IndexKnown, Seeding!OneDocument, SeedRemoved,
         SeedLastTouch, Seeding!Goto
  <2> QED
    BY <1>1, <1>2, <2>3, <2>4, <2>5, <2>6 DEF SeedInv
<1> QED
  BY <1>3, <1>4

(* A run has one new row for each exercise it found missing.               *)
LEMMA SeedNewRowsDrawn ==
    ASSUME NEW r \in Seeders
    PROVE  /\ \A ex \in missing[r] : \E s \in Seeding!NewRows(r) :
                s.lab = SeedLabOf[r] /\ s.exercise = ex /\ s.flag = <<r, ex>>
           /\ \A s \in Seeding!NewRows(r) :
                s.lab = SeedLabOf[r] /\ s.exercise \in missing[r] /\ s.flag = <<r, s.exercise>>
<1> DEFINE row(ex) == [lab |-> SeedLabOf[r], exercise |-> ex, flag |-> <<r, ex>>,
                       value |-> IF ex \in Seeding!RuntimeSecrets THEN <<r, ex>>
                         ELSE Seeding!NotKept]
<1>1. Seeding!NewRows(r) = {row(ex) : ex \in missing[r]}
  BY DEF Seeding!NewRows
<1>2. \A ex : row(ex).lab = SeedLabOf[r] /\ row(ex).exercise = ex /\ row(ex).flag = <<r, ex>>
  OBVIOUS
<1> HIDE DEF row
<1> QED
  BY SMTT(30), <1>1, <1>2

(* The transaction keeps the rows whole and registered.                    *)
LEMMA SeedInsertRows ==
    ASSUME SeedInv, NEW r \in Seeders, seedPc[r] = "commit", Seeding!Insert(r)
    PROVE  /\ SeedRowsWhole' /\ SeedRegistered'
           /\ secrets' = secrets \cup Seeding!NewRows(r)
           /\ flags \subseteq flags'
           /\ \E s \in secrets' : s.lab = SeedLabOf[r]
<1>1. SeedLabOf[r] \in SeedLabs
  BY CommandsAssumption DEF Seeding!SeedingAssumption
<1>2. \A s \in Seeding!NewRows(r) :
        SeedDrawn(s) /\ s.flag[1] = r /\ s.lab = SeedLabOf[r] /\ s.exercise \in missing[r]
  BY <1>1 DEF Seeding!NewRows, SeedDrawn, Seeding!Row, Seeding!Value, Seeding!Exercises,
       Seeding!RuntimeSecrets, SeedInv, SeedTypes
<1>3. secrets' = secrets \cup Seeding!NewRows(r)
  BY DEF Seeding!Insert
<1>4. CASE missing[r] = {}
  <2>1. Seeding!NewRows(r) = {} /\ UNCHANGED <<secrets, flags, notes>>
    BY <1>4 DEF Seeding!NewRows, Seeding!Insert
  <2>2. \E s \in secrets : s.lab = SeedLabOf[r]
    BY <1>4 DEF SeedInv, SeedProgress
  <2> QED
    BY <1>3, <2>1, <2>2, SeedSameRowsInv
<1>5. CASE missing[r] = Seeding!Exercises
  <2>1. \A s \in secrets : s.lab # SeedLabOf[r]
    BY <1>5 DEF Seeding!Insert, Seeding!Distinct, Seeding!RowsOf, SeedInv, SeedRowsWhole,
         SeedDrawn, Seeding!Row
  <2>2. \A s, u \in Seeding!NewRows(r) : s.exercise = u.exercise => s = u
    BY DEF Seeding!NewRows
  <2>3. \A ex \in Seeding!Exercises : \E u \in Seeding!NewRows(r) :
          u.lab = SeedLabOf[r] /\ u.exercise = ex
    BY <1>5, SeedNewRowsDrawn
  <2>4. SeedRowsWhole'
    <3>1. \A s \in secrets' : SeedDrawn(s)
      BY <1>2, <1>3 DEF SeedInv, SeedRowsWhole
    <3>2. \A s, u \in secrets' : s.lab = u.lab /\ s.exercise = u.exercise => s = u
      BY <1>2, <1>3, <2>1, <2>2 DEF SeedInv, SeedRowsWhole
    <3>3. \A s \in secrets' : \A ex \in Seeding!Exercises : \E u \in secrets' :
            u.lab = s.lab /\ u.exercise = ex
      BY <1>2, <1>3, <2>3 DEF SeedInv, SeedRowsWhole
    <3> QED
      BY <3>1, <3>2, <3>3 DEF SeedRowsWhole, SeedDrawn
  <2>5. SeedRegistered'
    <3>1. {<<s.lab, s.flag>> : s \in Seeding!NewRows(r)}
            = {<<SeedLabOf[r], <<r, ex>>>> : ex \in missing[r]}
      BY SeedNewRowsDrawn
    <3>2. {<<s.lab, s.flag>> : s \in {u \in Seeding!NewRows(r) : u.exercise = "EX-04"}}
            = {<<SeedLabOf[r], <<r, ex>>>> : ex \in missing[r] \cap {"EX-04"}}
      BY SeedNewRowsDrawn
    <3>3. {<<s.lab, s.flag>> : s \in secrets'} =
            {<<s.lab, s.flag>> : s \in secrets} \cup {<<s.lab, s.flag>> : s \in Seeding!NewRows(r)}
      BY <1>3
    <3>4. {<<s.lab, s.flag>> : s \in {u \in secrets' : u.exercise = "EX-04"}} =
            {<<s.lab, s.flag>> : s \in {u \in secrets : u.exercise = "EX-04"}}
              \cup {<<s.lab, s.flag>> : s \in {u \in Seeding!NewRows(r) : u.exercise = "EX-04"}}
      BY <1>3
    <3> QED
      BY <3>1, <3>2, <3>3, <3>4 DEF SeedInv, SeedRegistered, Seeding!Insert
  <2>6. \E s \in secrets' : s.lab = SeedLabOf[r]
    BY <1>3, <2>3 DEF Seeding!Exercises
  <2> QED
    BY <1>3, <2>4, <2>5, <2>6 DEF Seeding!Insert
<1> QED
  BY <1>4, <1>5 DEF SeedInv, SeedProgress

(* A run whose transaction ends, rows inserted or not, in phase p.         *)
LEMMA SeedTransactionInv ==
    ASSUME SeedInv, NEW r \in Seeders, seedPc[r] = "commit", NEW p \in {"read", "abandon"},
           Seeding!Goto(r, p),
           Seeding!Insert(r) \/ (UNCHANGED Seeding!store /\ p = "abandon"),
           UNCHANGED <<seedLock, seedLabs, index, missing, built, shown, last, lost>>,
           faults' \in 0 .. MaxFaults
    PROVE  SeedInv'
<1> USE DEF Seeding!Goto
<1>1. /\ SeedRowsWhole' /\ SeedRegistered' /\ secrets \subseteq secrets' /\ flags \subseteq flags'
      /\ p = "read" => (\E s \in secrets' : s.lab = SeedLabOf[r])
           /\ Seeding!NewRows(r) \subseteq secrets'
  BY SeedInsertRows, SeedSameRowsInv DEF Seeding!store
<1>2. SeedTypes'
  BY DEF SeedInv, SeedTypes, Seeding!Phases
<1>3. SeedLockKept'
  BY DEF SeedInv, SeedTypes, SeedLockKept, SeedHolding
<1>4. ASSUME NEW q \in Seeders PROVE SeedProgress(q)'
  <2>1. Seeding!NewRows(q)' = Seeding!NewRows(q) /\ Seeding!Created(q)' = Seeding!Created(q)
    BY DEF Seeding!NewRows, Seeding!Created
  <2>2. CASE q # r
    BY <1>1, <2>1, <2>2 DEF SeedInv, SeedTypes, SeedProgress
  <2>3. CASE q = r
    BY <1>1, <2>1, <2>3 DEF SeedInv, SeedTypes, SeedProgress
  <2> QED
    BY <2>2, <2>3
<1>5. SeedShownDrawn'
  BY <1>1 DEF SeedInv, SeedShownDrawn
<1>6. Seeding!IndexKnown' /\ Seeding!OneDocument' /\ SeedRemoved'
  BY <1>1 DEF SeedInv, SeedTypes, Seeding!IndexKnown, Seeding!OneDocument, SeedRemoved
<1>7. SeedLastTouch'
  BY DEF SeedInv, SeedTypes, SeedLastTouch
<1> QED
  BY <1>1, <1>2, <1>3, <1>4, <1>5, <1>6, <1>7 DEF SeedInv

LEMMA SeedCommitInv ==
    ASSUME SeedInv, NEW r \in Seeders, Seeding!Commit(r) \/ Seeding!CommitFails(r)
    PROVE  SeedInv'
<1>1. CASE Seeding!Commit(r)
  BY <1>1, SeedTransactionInv DEF Seeding!Commit, SeedInv, SeedTypes
<1>2. CASE Seeding!CommitFails(r)
  <2>1. faults' \in 0 .. MaxFaults
    BY <1>2, CommandsAssumption DEF Seeding!CommitFails, Seeding!Fault, SeedInv, SeedTypes,
         Seeding!SeedingAssumption
  <2> QED
    BY <1>2, <2>1, SeedTransactionInv DEF Seeding!CommitFails
<1> QED
  BY <1>1, <1>2

LEMMA SeedRemoveInv ==
    ASSUME SeedInv, NEW r \in Seeders, Seeding!Remove(r)
    PROVE  SeedInv'
<1> USE DEF Seeding!Remove, Seeding!Goto
<1>1. SeedLabOf[r] \in SeedLabs
  BY CommandsAssumption DEF Seeding!SeedingAssumption
<1>2. SeedTypes'
  BY DEF SeedInv, SeedTypes, Seeding!Phases
<1>3. SeedLockKept'
  BY DEF SeedInv, SeedTypes, SeedLockKept, SeedHolding
<1>4. SeedRowsWhole' /\ SeedRegistered' /\ Seeding!IndexKnown' /\ Seeding!OneDocument'
        /\ SeedShownDrawn'
  BY SeedSameRowsInv, SeedSameIndexInv DEF Seeding!store, SeedInv, Seeding!OneDocument,
       SeedShownDrawn
<1>5. ASSUME NEW q \in Seeders PROVE SeedProgress(q)'
  BY DEF SeedInv, SeedTypes, SeedProgress, Seeding!NewRows, Seeding!Created, Seeding!store
<1>6. SeedRemoved'
  BY DEF SeedInv, SeedTypes, SeedRemoved
<1>7. SeedLastTouch'
  BY <1>1 DEF SeedInv, SeedTypes, SeedLastTouch
<1> QED
  BY <1>2, <1>3, <1>4, <1>5, <1>6, <1>7 DEF SeedInv

(* The value a run indexes is the lab's registered EX-05 flag.             *)
LEMMA SeedDocumentKnown ==
    ASSUME SeedInv, NEW r \in Seeders, seedPc[r] \in {"read", "add"}
    PROVE  \E s \in secrets : /\ s.lab = SeedLabOf[r] /\ s.exercise = "EX-05"
                              /\ s.value = Seeding!DocumentValue(r) /\ s.value \in Seeding!Value
                              /\ <<SeedLabOf[r], s.value>> \in flags
<1>1. \E s \in Seeding!RowsOf(SeedLabOf[r]) : s.exercise = "EX-05"
  BY DEF SeedInv, SeedProgress, SeedRowsWhole, Seeding!Exercises, Seeding!RowsOf
<1> DEFINE row == CHOOSE s \in Seeding!RowsOf(SeedLabOf[r]) : s.exercise = "EX-05"
<1>2. row \in Seeding!RowsOf(SeedLabOf[r]) /\ row.exercise = "EX-05"
  BY <1>1
<1>3. Seeding!DocumentValue(r) = row.value
  BY DEF Seeding!DocumentValue
<1> HIDE DEF row
<1>4. row \in secrets /\ row.lab = SeedLabOf[r]
  BY <1>2 DEF Seeding!RowsOf
<1>5. row.value = row.flag /\ row.flag \in Seeding!Value
  BY <1>2, <1>4 DEF SeedInv, SeedRowsWhole, SeedDrawn, Seeding!RuntimeSecrets, Seeding!Row
<1>6. <<row.lab, row.flag>> \in flags
  BY <1>4 DEF SeedInv, SeedRegistered
<1> QED
  BY <1>2, <1>3, <1>4, <1>5, <1>6

(* The document is added, or not, and the run goes to unlock.              *)
LEMMA SeedIndexedInv ==
    ASSUME SeedInv, NEW r \in Seeders, Seeding!Goto(r, "unlock"),
           \/ seedPc[r] = "add" /\ Seeding!AddChunk(r) /\ built' = built \cup {r} /\ UNCHANGED last
           \/ /\ seedPc[r] \in {"read", "add"}
              /\ UNCHANGED index \/ (seedPc[r] = "add" /\ Seeding!AddChunk(r))
              /\ last' = [last EXCEPT ![SeedLabOf[r]] = {r}] /\ UNCHANGED built,
           UNCHANGED <<seedLock, seedLabs, Seeding!store, missing, shown, lost>>,
           faults' \in 0 .. MaxFaults
    PROVE  SeedInv'
<1> USE DEF Seeding!Goto
<1> DEFINE d == <<SeedLabOf[r], Seeding!DocumentValue(r), r>>
<1>1. SeedLabOf[r] \in SeedLabs
  BY CommandsAssumption DEF Seeding!SeedingAssumption
<1>2. /\ d \in SeedLabs \X Seeding!Value \X Seeders
      /\ \E s \in secrets : /\ s.lab = d[1] /\ s.exercise = "EX-05"
                            /\ s.value = d[2] /\ <<d[1], d[2]>> \in flags
  BY <1>1, SeedDocumentKnown
<1>3. d[1] = SeedLabOf[r] /\ (UNCHANGED index \/ (seedPc[r] = "add" /\ index' = index \cup {d}))
  BY DEF Seeding!AddChunk
<1> HIDE DEF d
<1>4. SeedTypes'
  BY <1>1, <1>2, <1>3 DEF SeedInv, SeedTypes, Seeding!Phases
<1>5. SeedLockKept'
  BY DEF SeedInv, SeedTypes, SeedLockKept, SeedHolding
<1>6. SeedRowsWhole' /\ SeedRegistered' /\ SeedShownDrawn'
  BY SeedSameRowsInv DEF Seeding!store, SeedInv, SeedShownDrawn
<1>7. ASSUME NEW q \in Seeders PROVE SeedProgress(q)'
  BY DEF SeedInv, SeedTypes, SeedProgress, Seeding!NewRows, Seeding!Created, Seeding!store
<1>8. Seeding!IndexKnown'
  BY <1>2, <1>3 DEF SeedInv, Seeding!IndexKnown, Seeding!store
<1>9. Seeding!OneDocument'
  BY <1>3 DEF SeedInv, Seeding!OneDocument, SeedRemoved
<1>10. SeedRemoved'
  <2> SUFFICES ASSUME ~lost, NEW q \in Seeders, seedPc'[q] = "add"
               PROVE  \A e \in index' : e[1] # SeedLabOf[q]
    BY DEF SeedRemoved
  <2>1. q # r /\ seedPc[q] = "add"
    BY DEF SeedInv, SeedTypes
  <2>2. seedPc[r] # "add" => index' = index
    BY <1>3
  <2>3. seedPc[r] \notin {"read", "add"}
    BY <2>1, SeedAlone DEF SeedHolding
  <2> QED
    BY <2>3
<1>11. SeedLastTouch'
  <2>1. CASE seedPc[r] = "add" /\ index' = index \cup {d} /\ built' = built \cup {r}
               /\ UNCHANGED last
    BY <1>1, <1>3, <2>1 DEF SeedInv, SeedTypes, SeedLastTouch
  <2>2. CASE /\ last' = [last EXCEPT ![SeedLabOf[r]] = {r}] /\ UNCHANGED built
             /\ index \subseteq index' /\ seedPc[r] \in {"read", "add"}
    <3>1. r \notin built
      BY <2>2 DEF SeedInv, SeedLastTouch
    <3>2. ASSUME NEW lab \in SeedLabs, NEW q \in last'[lab]
          PROVE  /\ SeedLabOf[q] = lab
                 /\ seedPc'[q] \in {"add", "unlock", "print", "done", "partial", "killed"}
                      \/ (lost' /\ seedPc'[q] = "failed")
                 /\ q \in built' => \E e \in index' : e[1] = lab
      BY <1>1, <2>2, <3>1, <3>2 DEF SeedInv, SeedTypes, SeedLastTouch
    <3>3. /\ \A q \in built' : seedPc'[q] \in {"unlock", "print", "done", "partial", "failed",
               "killed"}
          /\ \A q \in Seeders : seedPc'[q] = "done" => q \in built'
      BY <2>2 DEF SeedInv, SeedTypes, SeedLastTouch
    <3> QED
      BY <3>2, <3>3 DEF SeedLastTouch
  <2> QED
    BY <1>3, <2>1, <2>2 DEF d, Seeding!AddChunk
<1> QED
  BY <1>4, <1>5, <1>6, <1>7, <1>8, <1>9, <1>10, <1>11 DEF SeedInv

LEMMA SeedAddInv ==
    ASSUME SeedInv, NEW r \in Seeders, Seeding!Add(r) \/ Seeding!IndexFails(r)
    PROVE  SeedInv'
<1>1. CASE Seeding!Add(r)
  BY <1>1, SeedIndexedInv DEF Seeding!Add, SeedInv, SeedTypes
<1>2. CASE Seeding!IndexFails(r)
  <2>1. faults' \in 0 .. MaxFaults
    BY <1>2, CommandsAssumption DEF Seeding!IndexFails, Seeding!Fault, SeedInv, SeedTypes,
         Seeding!SeedingAssumption
  <2> QED
    BY <1>2, <2>1, SeedIndexedInv DEF Seeding!IndexFails
<1> QED
  BY <1>1, <1>2

LEMMA SeedUnlockInv ==
    ASSUME SeedInv, NEW r \in Seeders, Seeding!Unlock(r)
    PROVE  SeedInv'
<1> USE DEF Seeding!Unlock, Seeding!store
<1>1. SeedLockKept'
  BY DEF SeedInv, SeedTypes, SeedLockKept, SeedHolding, Seeding!Goto
<1>2. SeedShownDrawn'
  BY DEF SeedInv, SeedShownDrawn
<1>3. seedPc[r] = "unlock" /\ r \notin seedLock => lost
  BY DEF SeedInv, SeedLockKept, SeedHolding
<1>4. CASE seedPc[r] = "unlock" /\ r \in seedLock
  BY <1>1, <1>2, <1>4, SeedGotoInv DEF Seeding!Phases, SeedInv, SeedTypes
<1>5. CASE ~(seedPc[r] = "unlock" /\ r \in seedLock)
  BY <1>1, <1>2, <1>3, <1>5, SeedGotoInv DEF Seeding!Phases, SeedInv, SeedTypes
<1> QED
  BY <1>4, <1>5

LEMMA SeedPrintResultInv ==
    ASSUME SeedInv, NEW r \in Seeders, Seeding!PrintResult(r)
    PROVE  SeedInv'
<1> USE DEF Seeding!PrintResult, Seeding!store
<1>1. SeedLockKept'
  BY DEF SeedInv, SeedTypes, SeedLockKept, SeedHolding, Seeding!Goto
<1>2. \A v \in Seeding!Created(r) : <<v, r>> \in Seeding!Value \X Seeders /\ v[1] = r
                                    /\ \E row \in secrets : row.flag = v /\ row.lab = SeedLabOf[r]
  <2>1. Seeding!NewRows(r) \subseteq secrets
    BY DEF SeedInv, SeedProgress
  <2>2. missing[r] \subseteq Seeding!Exercises
    BY DEF SeedInv, SeedTypes
  <2> QED
    BY <2>1, <2>2, SeedNewRowsDrawn DEF Seeding!Created, Seeding!Value
<1>3. SeedShownDrawn' /\ shown' \subseteq Seeding!Value \X Seeders
  BY <1>2 DEF SeedInv, SeedTypes, SeedShownDrawn
<1>4. \A v \in Seeding!Created(r) : <<v, r>> \in shown'
  OBVIOUS
<1>5. CASE r \in built
  BY <1>1, <1>3, <1>4, <1>5, SeedGotoInv DEF Seeding!Phases, SeedInv, SeedTypes
<1>6. CASE r \notin built
  BY <1>1, <1>3, <1>4, <1>6, SeedGotoInv DEF Seeding!Phases, SeedInv, SeedTypes
<1> QED
  BY <1>5, <1>6

LEMMA SeedKillInv ==
    ASSUME SeedInv, NEW r \in Seeders, Seeding!Kill(r)
    PROVE  SeedInv'
<1> USE DEF Seeding!Kill, Seeding!Fault, Seeding!store, Seeding!Active
<1>1. SeedLockKept'
  BY DEF SeedInv, SeedTypes, SeedLockKept, SeedHolding, Seeding!Goto
<1>2. SeedShownDrawn' /\ faults' \in 0 .. MaxFaults
  BY CommandsAssumption DEF SeedInv, SeedTypes, SeedShownDrawn, Seeding!SeedingAssumption
<1> QED
  BY <1>1, <1>2, SeedGotoInv DEF Seeding!Phases, SeedInv, SeedTypes

LEMMA SeedLoseLockInv ==
    ASSUME SeedInv, NEW r \in Seeders, Seeding!LoseLock(r)
    PROVE  SeedInv'
<1> USE DEF Seeding!LoseLock, Seeding!Fault, Seeding!store
<1>1. SeedTypes'
  BY CommandsAssumption DEF SeedInv, SeedTypes, Seeding!SeedingAssumption
<1>2. SeedLockKept'
  BY DEF SeedInv, SeedTypes, SeedLockKept
<1>3. SeedRowsWhole' /\ SeedRegistered' /\ SeedShownDrawn'
  BY SeedSameRowsInv DEF SeedInv, SeedShownDrawn
<1>4. ASSUME NEW q \in Seeders PROVE SeedProgress(q)'
  BY DEF SeedInv, SeedProgress, Seeding!NewRows, Seeding!Created
<1>5. Seeding!IndexKnown' /\ Seeding!OneDocument' /\ SeedRemoved' /\ SeedLastTouch'
  BY DEF SeedInv, Seeding!IndexKnown, Seeding!OneDocument, SeedRemoved, SeedLastTouch
<1> QED
  BY <1>1, <1>2, <1>3, <1>4, <1>5 DEF SeedInv

LEMMA SeedNextInv == SeedInv /\ [Seeding!Next]_(Seeding!vars) => SeedInv'
  BY SeedSetUpInv, SeedTakeLockInv, SeedLookInv, SeedCommitInv, SeedRemoveInv, SeedAddInv,
       SeedUnlockInv, SeedPrintResultInv, SeedKillInv, SeedLoseLockInv, SeedStutterInv
       DEF Seeding!Next, Seeding!Step

LEMMA SeedInvGivesTypes == SeedInv => Seeding!TypeOK
<1>1. SeedInv => seedLock \subseteq Seeding!Active
  BY DEF SeedInv, SeedLockKept, SeedHolding, Seeding!Active
<1>2. SeedInv => (~lost => \A r \in Seeding!Active : seedPc[r] # "print" => r \in seedLock)
  BY DEF SeedInv, SeedTypes, SeedLockKept, SeedHolding, Seeding!Active, Seeding!Phases
<1>3. SeedInv => secrets \subseteq Seeding!Row
  BY DEF SeedInv, SeedRowsWhole, SeedDrawn
<1>4. SeedInv => flags \subseteq SeedLabs \X Seeding!Value
        /\ notes \subseteq SeedLabs \X Seeding!Value
  BY <1>3 DEF SeedInv, SeedRegistered, Seeding!Row
<1> QED
  BY <1>1, <1>2, <1>3, <1>4 DEF Seeding!TypeOK, SeedInv, SeedTypes, SeedLockKept

LEMMA SeedInvGivesOneFlagEach == SeedInv => Seeding!OneFlagEach
<1> SUFFICES ASSUME SeedInv, NEW lab \in SeedLabs
             PROVE  /\ {s.exercise : s \in Seeding!RowsOf(lab)} \in {{}, Seeding!Exercises}
                    /\ \A s, u \in Seeding!RowsOf(lab) : s.exercise = u.exercise => s = u
                    /\ {f[2] : f \in {g \in flags : g[1] = lab}}
                         = {s.flag : s \in Seeding!RowsOf(lab)}
                    /\ {n[2] : n \in {m \in notes : m[1] = lab}}
                         = {s.flag : s \in {u \in Seeding!RowsOf(lab) : u.exercise = "EX-04"}}
  BY DEF Seeding!OneFlagEach
<1> USE DEF Seeding!RowsOf
<1>1. {s.exercise : s \in Seeding!RowsOf(lab)} \in {{}, Seeding!Exercises}
  BY DEF SeedInv, SeedRowsWhole, SeedDrawn, Seeding!Row
<1>2. \A s, u \in Seeding!RowsOf(lab) : s.exercise = u.exercise => s = u
  BY DEF SeedInv, SeedRowsWhole
<1>3. {f[2] : f \in {g \in flags : g[1] = lab}} = {s.flag : s \in Seeding!RowsOf(lab)}
  <2>1. \A s \in Seeding!RowsOf(lab) : <<lab, s.flag>> \in flags
    BY DEF SeedInv, SeedRegistered
  <2>2. \A f \in flags : f[1] = lab => \E s \in Seeding!RowsOf(lab) : f[2] = s.flag
    BY DEF SeedInv, SeedRegistered
  <2> QED
    BY <2>1, <2>2
<1>4. {n[2] : n \in {m \in notes : m[1] = lab}}
        = {s.flag : s \in {u \in Seeding!RowsOf(lab) : u.exercise = "EX-04"}}
  <2>1. \A s \in Seeding!RowsOf(lab) : s.exercise = "EX-04" => <<lab, s.flag>> \in notes
    BY DEF SeedInv, SeedRegistered
  <2>2. \A n \in notes : n[1] = lab => \E s \in Seeding!RowsOf(lab) :
          s.exercise = "EX-04" /\ n[2] = s.flag
    BY DEF SeedInv, SeedRegistered
  <2> QED
    BY <2>1, <2>2
<1> QED
  BY <1>1, <1>2, <1>3, <1>4

LEMMA SeedInvGivesRest == SeedInv => Seeding!GapReported /\ Seeding!ValuesShown /\ Seeding!ShownOnce
<1> SUFFICES ASSUME SeedInv PROVE Seeding!GapReported /\ Seeding!ValuesShown /\ Seeding!ShownOnce
  OBVIOUS
<1>1. Seeding!GapReported
  BY DEF SeedInv, Seeding!GapReported, SeedLastTouch, SeedTypes
<1>2. Seeding!ValuesShown
  BY CommandsAssumption DEF Seeding!SeedingAssumption, SeedInv, Seeding!ValuesShown, SeedLastTouch,
       Seeding!Active, SeedProgress, Seeding!Created
<1>3. Seeding!ShownOnce
  BY DEF SeedInv, SeedTypes, Seeding!ShownOnce, SeedShownDrawn
<1> QED
  BY <1>1, <1>2, <1>3

LEMMA SeedFlagsKnown == SeedInv => FlagsKnown
  BY SeedInvGivesTypes, SeedInvGivesOneFlagEach, SeedInvGivesRest DEF FlagsKnown, SeedInv

(* Seeding by any number of runs, which lose their connection, are killed  *)
(* or fail to index, and set up labs meanwhile: one flag for each exercise, *)
(* in the table, the registry and the index, and every gap reported        *)
(* (seed_exercises.py:148-224).                                            *)
THEOREM EveryFlagKnown == Seeding!Spec => []FlagsKnown
<1>1. Seeding!Init => SeedInv
  BY SeedInitInv
<1>2. SeedInv /\ [Seeding!Next]_(Seeding!vars) => SeedInv'
  BY SeedNextInv
<1>3. SeedInv => FlagsKnown
  BY SeedFlagsKnown
<1> QED
  BY <1>1, <1>2, <1>3, PTL DEF Seeding!Spec

-----------------------------------------------------------------------------
(* The demo (SqliDemo)                                                     *)

(* Where a run is tells what the files hold, since runs overlap only after *)
(* one of them is over; what a run that is not committed wrote claims no   *)
(* success.                                                                *)
DemoFilesOf(r) ==
    /\ demoPc[r] \in {"provision", "save", "rewrite"} => state = Demo!Empty
    /\ demoPc[r] \in {"commit", "truncate"} => state = Demo!Content(r, "not_committed")
    /\ demoPc[r] = "map" => state # Demo!Absent
    /\ demoPc[r] = "fill" => state # Demo!Absent /\ readers = Demo!Empty
    /\ demoPc[r] \in {"truncate", "rewrite", "map", "fill"} => r \in db

DemoInv == Demo!TypeOK /\ Demo!NoEarlySuccess /\ \A r \in Runs : DemoFilesOf(r)

LEMMA DemoFiles ==
    /\ Demo!Absent # Demo!Empty
    /\ \A r, s : Demo!Content(r, s) # Demo!Absent /\ Demo!Content(r, s) # Demo!Empty
         /\ Demo!Content(r, s).run = {r}
    /\ \A r, q, s, u : Demo!Content(r, s) = Demo!Content(q, u) => r = q /\ s = u
    /\ \A r : ~Demo!Holds(Demo!Absent, r) /\ ~Demo!Holds(Demo!Empty, r)
    /\ \A r, q, s : Demo!Holds(Demo!Content(r, s), q) => r = q
<1>1. \A r, s : {r} # {} /\ Demo!Content(r, s) = [run |-> {r}, status |-> s]
  BY DEF Demo!Content
<1>2. /\ Demo!Absent = [run |-> {}, status |-> "absent"]
           /\ Demo!Empty = [run |-> {}, status |-> "empty"]
      /\ Demo!Absent.status = "absent" /\ Demo!Empty.status = "empty" /\ Demo!Absent.run = {}
           /\ Demo!Empty.run = {}
  BY DEF Demo!Absent, Demo!Empty
<1>3. \A r, s : Demo!Content(r, s).run = {r} /\ Demo!Content(r, s).status = s
  BY DEF Demo!Content
<1>4. \A r, q : {r} = {q} => r = q
  OBVIOUS
<1> QED
  BY <1>1, <1>2, <1>3, <1>4 DEF Demo!Holds

DemoFileSet ==
    {Demo!Absent, Demo!Empty}
      \cup {Demo!Content(r, status) : r \in Runs, status \in {"not_committed", "committed", "map"}}

LEMMA DemoFileTypes ==
    /\ Demo!Absent \in DemoFileSet /\ Demo!Empty \in DemoFileSet
    /\ \A r \in Runs : /\ Demo!Content(r, "not_committed") \in DemoFileSet
                       /\ Demo!Content(r, "committed") \in DemoFileSet
                            /\ Demo!Content(r, "map") \in DemoFileSet
  BY DEF DemoFileSet

LEMMA DemoInitInv == Demo!Init => DemoInv
  BY DemoFiles, DemoFileTypes DEF Demo!Init, DemoInv, Demo!TypeOK, Demo!NoEarlySuccess,
       DemoFilesOf, DemoFileSet, Demo!Working, Demo!Over

LEMMA DemoStepInv == ASSUME DemoInv, NEW r \in Runs, Demo!Step(r) PROVE DemoInv'
<1> USE DemoFiles, DemoFileTypes DEF DemoInv, Demo!Goto
<1>1. /\ demoPc \in [Runs -> Demo!Over
           \cup {"provision", "save", "commit", "truncate", "rewrite", "map", "fill"}]
      /\ state \in DemoFileSet /\ readers \in DemoFileSet /\ db \subseteq Runs
      /\ \A q, x \in Runs : demoPc[q] \notin Demo!Over /\ demoPc[x] \notin Demo!Over => q = x
  BY DEF Demo!TypeOK, DemoFileSet, Demo!Working
<1>2. \A q \in Runs : demoPc[q] \notin Demo!Over => state # Demo!Absent
  BY <1>1 DEF DemoFilesOf, Demo!Over
<1>3. /\ demoPc' \in [Runs -> Demo!Over
           \cup {"provision", "save", "commit", "truncate", "rewrite", "map", "fill"}]
      /\ state' \in DemoFileSet /\ readers' \in DemoFileSet /\ db' \subseteq Runs
      /\ \A q \in Runs : q # r => demoPc'[q] = demoPc[q]
  BY <1>1 DEF Demo!Step, Demo!OpenState, Demo!Provision, Demo!Save, Demo!Commit, Demo!RollBack,
       Demo!Truncate, Demo!Rewrite, Demo!OpenMap, Demo!Fill, Demo!Kill, Demo!Over
<1>4. \A q, x \in Runs : demoPc'[q] \notin Demo!Over /\ demoPc'[x] \notin Demo!Over => q = x
  BY <1>1, <1>2, <1>3 DEF Demo!Step, Demo!OpenState, Demo!Provision, Demo!Save, Demo!Commit,
       Demo!RollBack, Demo!Truncate, Demo!Rewrite, Demo!OpenMap, Demo!Fill, Demo!Kill, Demo!Over
<1>5. Demo!TypeOK'
  BY <1>3, <1>4 DEF Demo!TypeOK, DemoFileSet, Demo!Working, Demo!Over, Demo!Absent, Demo!Empty,
       Demo!Content
<1>6. Demo!NoEarlySuccess'
  BY <1>1, <1>3 DEF Demo!Step, Demo!OpenState, Demo!Provision, Demo!Save, Demo!Commit,
       Demo!RollBack, Demo!Truncate, Demo!Rewrite, Demo!OpenMap, Demo!Fill, Demo!Kill,
       Demo!NoEarlySuccess, DemoFilesOf
<1>7. ASSUME NEW q \in Runs PROVE DemoFilesOf(q)'
  <2>1. CASE q = r
    BY <1>1, <2>1 DEF Demo!Step, Demo!OpenState, Demo!Provision, Demo!Save, Demo!Commit,
         Demo!RollBack, Demo!Truncate, Demo!Rewrite, Demo!OpenMap, Demo!Fill, Demo!Kill, DemoFilesOf
  <2>2. CASE q # r /\ demoPc[q] \in Demo!Over
    BY <1>3, <2>2 DEF DemoFilesOf, Demo!Over
  <2>3. CASE q # r /\ demoPc[q] \notin Demo!Over
    <3>1. demoPc[r] \in Demo!Over /\ state # Demo!Absent /\ demoPc'[q] = demoPc[q]
      BY <1>1, <1>2, <1>3, <2>3
    <3>2. UNCHANGED <<state, readers, db>>
      BY <3>1 DEF Demo!Step, Demo!OpenState, Demo!Provision, Demo!Save, Demo!Commit, Demo!RollBack,
           Demo!Truncate, Demo!Rewrite, Demo!OpenMap, Demo!Fill, Demo!Kill, Demo!Over
    <3> QED
      BY <3>1, <3>2 DEF DemoFilesOf
  <2> QED
    BY <2>1, <2>2, <2>3
<1> QED
  BY <1>5, <1>6, <1>7

LEMMA DemoInspectInv == DemoInv /\ Demo!Inspect => DemoInv'
<1> SUFFICES ASSUME DemoInv, Demo!Inspect PROVE DemoInv'
  OBVIOUS
<1> USE DemoFiles, DemoFileTypes DEF DemoInv, Demo!Inspect
<1>1. Demo!TypeOK'
  BY DEF Demo!TypeOK, Demo!Working, Demo!Over, Demo!Absent, Demo!Empty, Demo!Content
<1>2. Demo!NoEarlySuccess'
  BY DEF Demo!NoEarlySuccess
<1>3. ASSUME NEW q \in Runs PROVE DemoFilesOf(q)'
  BY DEF DemoFilesOf
<1> QED
  BY <1>1, <1>2, <1>3

LEMMA DemoNextInv == DemoInv /\ [Demo!Next]_(Demo!vars) => DemoInv'
<1>1. DemoInv /\ UNCHANGED Demo!vars => DemoInv'
  BY DEF Demo!vars, DemoInv, Demo!TypeOK, Demo!NoEarlySuccess, DemoFilesOf, Demo!Working,
       Demo!Over, Demo!Absent, Demo!Empty, Demo!Content, Demo!Holds
<1> QED
  BY <1>1, DemoStepInv, DemoInspectInv DEF Demo!Next

(* A file is written only while it is empty, or by its own run.            *)
LEMMA DemoStepKeepsFiles == DemoInv /\ [Demo!Next]_(Demo!vars) => Demo!KeepsFiles
<1> SUFFICES ASSUME DemoInv, [Demo!Next]_(Demo!vars), NEW r \in Runs
             PROVE  /\ Demo!Holds(readers, r) => Demo!Holds(readers', r)
                    /\ Demo!Holds(state, r) => Demo!Holds(state', r) \/ demoPc[r] = "truncate"
                         \/ state' = Demo!Absent
  BY DEF Demo!KeepsFiles
<1> USE DemoFiles DEF DemoInv
<1>1. CASE UNCHANGED Demo!vars
  BY <1>1 DEF Demo!vars
<1>2. CASE Demo!Inspect
  BY <1>2 DEF Demo!Inspect
<1>3. ASSUME NEW q \in Runs, Demo!Step(q)
      PROVE  /\ Demo!Holds(readers, r) => Demo!Holds(readers', r)
             /\ Demo!Holds(state, r) => Demo!Holds(state', r) \/ demoPc[r] = "truncate"
                  \/ state' = Demo!Absent
  BY <1>3 DEF Demo!Step, Demo!OpenState, Demo!Provision, Demo!Save, Demo!Commit, Demo!RollBack,
       Demo!Truncate, Demo!Rewrite, Demo!OpenMap, Demo!Fill, Demo!Kill, DemoFilesOf
<1> QED
  BY <1>1, <1>2, <1>3 DEF Demo!Next

-----------------------------------------------------------------------------
(* Isolation (SqliIsolation)                                               *)

(* SqliIsolation counts with the FiniteSets of its own instance.           *)
LEMMA IsoCounts ==
    /\ \A S : Isolation!IsFiniteSet(S) <=> IsFiniteSet(S)
    /\ \A S : Isolation!Cardinality(S) = Cardinality(S)
<1>1. \A S : Isolation!IsFiniteSet(S) <=> IsFiniteSet(S)
  BY DEF Isolation!IsFiniteSet, IsFiniteSet
<1>2. \A S : Isolation!Cardinality(S) = Cardinality(S)
  BY DEF Isolation!Cardinality, Cardinality, Isolation!IsFiniteSet, IsFiniteSet
<1> QED
  BY <1>1, <1>2

IsoProvisioned == {"done", "failed"}

IsoTypes ==
    /\ sqliPc \in [Isolation!Walkers -> Isolation!Phases]
    /\ \A s \in Searches : sqliPc[s] \notin {"wait", "look"} /\ sqliPc[s] \notin IsoProvisioned
    /\ \A p \in Provisioners : sqliPc[p] \notin {"connect", "query", "rows", "error", "unavailable"}
    /\ sqliLock = {p \in Provisioners : sqliPc[p] \in {"look", "check"}}
         /\ \A p, q \in sqliLock : p = q
    /\ objects \in [SqliLabs -> SUBSET Provisioners] /\ file \in [SqliLabs -> SUBSET Provisioners]
    /\ broken \subseteq SqliLabs \X Isolation!Checks
    /\ at \in [Isolation!Walkers -> 1 .. 7]
         /\ always \in [Isolation!Walkers -> SUBSET Isolation!Checks]
    /\ changes \in 0 .. MaxChanges

(* A reader has no more connections than its limit.                        *)
IsoLimited ==
    \A lab \in SqliLabs : IsFiniteSet(Isolation!Connected(lab))
      /\ Cardinality(Isolation!Connected(lab)) <= ReaderLimit

(* What has been failing all along fails now, and is not behind the walk.  *)
IsoWalk(w) ==
    /\ sqliPc[w] \in {"idle", "wait", "look", "connect"} => at[w] = 1
    /\ sqliPc[w] \in {"query", "rows", "done"} => at[w] = 7
    /\ \A c \in always[w] : <<SqliLabOf[w], c>> \in broken /\ c >= at[w]

(* A provisioner that checks is the only one of a lab without objects; the *)
(* objects a lab has are of a provisioner of its own that is over.         *)
IsoOwned ==
    /\ \A p \in Provisioners :
         sqliPc[p] = "check" => objects[SqliLabOf[p]] = {} /\ SqliLabOf[p] \in Sessions
    /\ \A lab \in SqliLabs :
         /\ objects[lab] # {} => lab \in Sessions
         /\ \A p \in objects[lab] : SqliLabOf[p] = lab /\ sqliPc[p] \in IsoProvisioned
    /\ \A s \in Searches : sqliPc[s] \in {"check", "query", "rows"} => objects[SqliLabOf[s]] # {}

IsoInv == IsoTypes /\ IsoLimited /\ (\A w \in Isolation!Walkers : IsoWalk(w)) /\ IsoOwned

LEMMA IsoConstants ==
    /\ SqliLabOf \in [Isolation!Walkers -> SqliLabs] /\ Sessions \subseteq SqliLabs
    /\ Provisioners \cap Searches = {} /\ Isolation!Walkers = Provisioners \cup Searches
    /\ ReaderLimit \in Nat \ {0} /\ MaxChanges \in Nat
  BY CommandsAssumption DEF Isolation!IsolationAssumption, Isolation!Walkers

LEMMA IsoInitInv == Isolation!Init => IsoInv
<1> SUFFICES ASSUME Isolation!Init PROVE IsoInv
  OBVIOUS
<1> USE IsoConstants DEF Isolation!Init
<1>1. IsoTypes
  BY DEF IsoTypes, Isolation!Phases, IsoProvisioned, Isolation!Checks
<1>2. IsoLimited
  <2>1. ASSUME NEW lab \in SqliLabs PROVE Isolation!Connected(lab) = {}
    BY DEF Isolation!Connected
  <2>2. IsFiniteSet({}) /\ Cardinality({}) = 0 /\ 0 <= ReaderLimit
    BY FS_EmptySet
  <2> QED
    BY ONLY <2>1, <2>2 DEF IsoLimited
<1>3. ASSUME NEW w \in Isolation!Walkers PROVE IsoWalk(w)
  BY DEF IsoWalk
<1>4. IsoOwned
  BY DEF IsoOwned
<1> QED
  BY <1>1, <1>2, <1>3, <1>4 DEF IsoInv

(* A step by which nobody connects.                                        *)
LEMMA IsoLimitKept ==
    ASSUME IsoLimited, \A s \in Searches : sqliPc'[s] \in {"check", "query"}
           => sqliPc[s] \in {"check", "query"}
    PROVE  IsoLimited'
<1> SUFFICES ASSUME NEW lab \in SqliLabs
             PROVE  IsFiniteSet(Isolation!Connected(lab)')
                      /\ Cardinality(Isolation!Connected(lab)') <= ReaderLimit
  BY DEF IsoLimited
<1> DEFINE old == Isolation!Connected(lab)
           new == Isolation!Connected(lab)'
<1>1. IsFiniteSet(old) /\ Cardinality(old) <= ReaderLimit
  BY DEF IsoLimited
<1>2. new \subseteq old
  BY DEF Isolation!Connected
<1> HIDE DEF old, new
<1>3. IsFiniteSet(new) /\ Cardinality(new) <= Cardinality(old) /\ Cardinality(new) \in Nat
        /\ Cardinality(old) \in Nat
  BY <1>1, <1>2, FS_Subset, FS_CardinalityType
<1>4. Cardinality(new) <= ReaderLimit
  BY <1>1, <1>3, IsoConstants
<1> QED
  BY <1>3, <1>4 DEF new

(* A provisioner's step: its own place, the lock, a password or objects.   *)
LEMMA IsoProvisionInv ==
    ASSUME IsoInv, NEW p \in Provisioners,
           Isolation!Ask(p) \/ Isolation!Acquire(p) \/ Isolation!Create(p) \/ Isolation!Abort(p)
             \/ Isolation!Commit(p) \/ Isolation!Store(p)
    PROVE  IsoInv'
<1> USE IsoConstants DEF IsoInv
<1>1. SqliLabOf[p] \in SqliLabs /\ p \in Isolation!Walkers /\ p \notin Searches
  OBVIOUS
<1>2. IsoTypes'
  <2>1. CASE Isolation!Ask(p)
    BY <1>1, <2>1 DEF Isolation!Ask, Isolation!Goto, IsoTypes, Isolation!Phases, IsoProvisioned
  <2>2. CASE Isolation!Acquire(p)
    <3>1. always' \in [Isolation!Walkers -> SUBSET Isolation!Checks]
      BY <1>1, <2>2 DEF Isolation!Acquire, Isolation!Begin, IsoTypes
    <3> QED
      BY <1>1, <2>2, <3>1 DEF Isolation!Acquire, Isolation!Goto, IsoTypes, Isolation!Phases,
           IsoProvisioned
  <2>3. CASE Isolation!Create(p)
    BY <1>1, <2>3 DEF Isolation!Create, Isolation!Goto, IsoTypes, Isolation!Phases, IsoProvisioned
  <2>4. CASE Isolation!Abort(p)
    BY <1>1, <2>4 DEF Isolation!Abort, Isolation!Goto, IsoTypes, Isolation!Phases, IsoProvisioned
  <2>5. CASE Isolation!Commit(p)
    BY <1>1, <2>5 DEF Isolation!Commit, Isolation!Goto, IsoTypes, Isolation!Phases, IsoProvisioned
  <2>6. CASE Isolation!Store(p)
    <3>1. changes' \in 0 .. MaxChanges /\ file' \in [SqliLabs -> SUBSET Provisioners]
      BY <1>1, <2>6 DEF Isolation!Store, IsoTypes
    <3> QED
      BY <2>6, <3>1 DEF Isolation!Store, IsoTypes
  <2> QED
    BY <2>1, <2>2, <2>3, <2>4, <2>5, <2>6
<1>3. IsoLimited'
  BY <1>1, IsoLimitKept DEF Isolation!Ask, Isolation!Acquire, Isolation!Create, Isolation!Abort,
       Isolation!Commit, Isolation!Store, Isolation!Goto, IsoTypes
<1>4. ASSUME NEW w \in Isolation!Walkers PROVE IsoWalk(w)'
  <2>1. CASE w # p
    BY <1>1, <2>1 DEF Isolation!Ask, Isolation!Acquire, Isolation!Create, Isolation!Abort,
         Isolation!Commit, Isolation!Store, Isolation!Goto, Isolation!Begin, IsoTypes, IsoWalk
  <2>2. CASE w = p
    <3>1. CASE Isolation!Acquire(p)
      BY <1>1, <2>2, <3>1 DEF Isolation!Acquire, Isolation!Goto, Isolation!Begin, IsoTypes,
           IsoWalk, Isolation!Checks
    <3>2. CASE Isolation!Commit(p)
      BY <1>1, <2>2, <3>2 DEF Isolation!Commit, Isolation!Goto, IsoTypes, IsoWalk, Isolation!Checks
    <3>3. CASE Isolation!Ask(p) \/ Isolation!Create(p) \/ Isolation!Abort(p) \/ Isolation!Store(p)
      BY <1>1, <2>2, <3>3 DEF Isolation!Ask, Isolation!Create, Isolation!Abort, Isolation!Store,
           Isolation!Goto, IsoTypes, IsoWalk
    <3> QED
      BY <3>1, <3>2, <3>3
  <2> QED
    BY <2>1, <2>2
<1>5. IsoOwned'
  <2>1. CASE Isolation!Ask(p) \/ Isolation!Acquire(p) \/ Isolation!Create(p)
               \/ Isolation!Abort(p) \/ Isolation!Store(p)
    BY <1>1, <2>1 DEF Isolation!Ask, Isolation!Acquire, Isolation!Create, Isolation!Fresh,
         Isolation!Abort, Isolation!Store, Isolation!Goto, IsoTypes, IsoOwned, IsoProvisioned
  <2>2. CASE Isolation!Commit(p)
    <3>1. /\ p \in sqliLock /\ \A q \in Provisioners : sqliPc[q] = "check" => q = p
          /\ objects' = [objects EXCEPT ![SqliLabOf[p]] = {p}]
               /\ objects \in [SqliLabs -> SUBSET Provisioners]
          /\ sqliPc \in [Isolation!Walkers -> Isolation!Phases]
      BY <2>2 DEF Isolation!Commit, IsoTypes
    <3>2. sqliPc'[p] \in IsoProvisioned
            /\ \A w \in Isolation!Walkers : w # p => sqliPc'[w] = sqliPc[w]
      BY <1>1, <2>2, <3>1 DEF Isolation!Commit, Isolation!Goto, IsoProvisioned
    <3>3. SqliLabOf[p] \in Sessions /\ objects[SqliLabOf[p]] = {}
      BY <2>2 DEF Isolation!Commit, IsoOwned
    <3>4. \A q \in Provisioners : sqliPc'[q] # "check"
      BY <3>1, <3>2 DEF IsoProvisioned
    <3>5. ASSUME NEW lab \in SqliLabs
          PROVE  /\ objects'[lab] # {} => lab \in Sessions
                 /\ \A q \in objects'[lab] : SqliLabOf[q] = lab /\ sqliPc'[q] \in IsoProvisioned
      BY <1>1, <3>1, <3>2, <3>3 DEF IsoOwned
    <3>6. ASSUME NEW s \in Searches, sqliPc'[s] \in {"check", "query", "rows"}
          PROVE  objects'[SqliLabOf[s]] # {}
      BY <1>1, <3>1, <3>2, <3>6 DEF IsoOwned
    <3> QED
      BY <3>4, <3>5, <3>6 DEF IsoOwned, IsoProvisioned
  <2> QED
    BY <2>1, <2>2
<1> QED
  BY <1>2, <1>3, <1>4, <1>5

LEMMA IsoSearchInv ==
    ASSUME IsoInv, NEW s \in Searches, Isolation!Search(s) \/ Isolation!Connect(s)
           \/ Isolation!Query(s) \/ Isolation!Answer(s) \/ Isolation!Fail(s)
    PROVE  IsoInv'
<1> USE IsoConstants DEF IsoInv
<1>1. SqliLabOf[s] \in SqliLabs /\ s \in Isolation!Walkers /\ s \notin Provisioners
  OBVIOUS
<1>2. IsoTypes'
  <2>1. always' \in [Isolation!Walkers -> SUBSET Isolation!Checks]
    <3>1. CASE Isolation!Connect(s)
      BY <1>1, <3>1 DEF Isolation!Connect, Isolation!Begin, IsoTypes
    <3>2. CASE Isolation!Search(s) \/ Isolation!Query(s) \/ Isolation!Answer(s) \/ Isolation!Fail(s)
      BY <3>2 DEF Isolation!Search, Isolation!Query, Isolation!Answer, Isolation!Fail, IsoTypes
    <3> QED
      BY <3>1, <3>2
  <2> QED
    BY <1>1, <2>1 DEF Isolation!Search, Isolation!Connect, Isolation!Query, Isolation!Answer,
         Isolation!Fail, Isolation!Goto, IsoTypes, Isolation!Phases, IsoProvisioned
<1>3. IsoLimited'
  <2>1. CASE Isolation!Connect(s)
    <3> SUFFICES ASSUME NEW lab \in SqliLabs
                 PROVE  IsFiniteSet(Isolation!Connected(lab)')
                          /\ Cardinality(Isolation!Connected(lab)') <= ReaderLimit
      BY DEF IsoLimited
    <3> DEFINE old == Isolation!Connected(lab)
               new == Isolation!Connected(lab)'
    <3>1. IsFiniteSet(old) /\ Cardinality(old) <= ReaderLimit /\ s \notin old
      BY <2>1 DEF IsoLimited, Isolation!Connected, Isolation!Connect
    <3>2. \/ new = old
          \/ new = old \cup {s} /\ Cardinality(old) < ReaderLimit
      <4>1. CASE SqliLabOf[s] = lab
        <5>1. new = old \cup {s}
          BY <1>1, <2>1, <4>1 DEF Isolation!Connect, Isolation!Goto, Isolation!Connected, IsoTypes
        <5>2. Cardinality(old) < ReaderLimit
          BY <2>1, <4>1, IsoCounts DEF Isolation!Connect
        <5> QED
          BY <5>1, <5>2
      <4>2. CASE SqliLabOf[s] # lab
        <5>1. new = old
          BY <1>1, <2>1, <4>2 DEF Isolation!Connect, Isolation!Goto, Isolation!Connected, IsoTypes
        <5> QED
          BY <5>1
      <4> QED
        BY <4>1, <4>2
    <3> HIDE DEF old, new
    <3>3. IsFiniteSet(old \cup {s}) /\ Cardinality(old \cup {s}) = Cardinality(old) + 1
            /\ Cardinality(old) \in Nat
      BY <3>1, FS_AddElement, FS_CardinalityType
    <3>5. ReaderLimit \in Nat
      OBVIOUS
    <3>4. IsFiniteSet(new) /\ Cardinality(new) <= ReaderLimit
      <4>1. CASE new = old
        BY <3>1, <4>1
      <4>2. CASE new = old \cup {s} /\ Cardinality(old) < ReaderLimit
        <5>1. Cardinality(old) + 1 <= ReaderLimit
          BY ONLY <3>3, <3>5, <4>2
        <5> QED
          BY ONLY <3>3, <4>2, <5>1
      <4> QED
        BY <3>2, <4>1, <4>2
    <3> QED
      BY <3>4 DEF new
  <2>2. CASE Isolation!Search(s) \/ Isolation!Query(s) \/ Isolation!Answer(s) \/ Isolation!Fail(s)
    BY <1>1, <2>2, IsoLimitKept DEF Isolation!Search, Isolation!Query, Isolation!Answer,
         Isolation!Fail, Isolation!Goto, IsoTypes
  <2> QED
    BY <2>1, <2>2
<1>4. ASSUME NEW w \in Isolation!Walkers PROVE IsoWalk(w)'
  <2>1. CASE w # s
    BY <1>1, <2>1 DEF Isolation!Search, Isolation!Connect, Isolation!Query, Isolation!Answer,
         Isolation!Fail, Isolation!Goto, Isolation!Begin, IsoTypes, IsoWalk
  <2>2. CASE w = s
    <3>1. CASE Isolation!Connect(s)
      BY <1>1, <2>2, <3>1 DEF Isolation!Connect, Isolation!Goto, Isolation!Begin, IsoTypes,
           IsoWalk, Isolation!Checks
    <3>2. CASE Isolation!Query(s)
      BY <1>1, <2>2, <3>2 DEF Isolation!Query, Isolation!Goto, IsoTypes, IsoWalk, Isolation!Checks
    <3>3. CASE Isolation!Search(s) \/ Isolation!Answer(s) \/ Isolation!Fail(s)
      BY <1>1, <2>2, <3>3 DEF Isolation!Search, Isolation!Answer, Isolation!Fail, Isolation!Goto,
           IsoTypes, IsoWalk
    <3> QED
      BY <3>1, <3>2, <3>3
  <2> QED
    BY <2>1, <2>2
<1>5. IsoOwned'
  BY <1>1 DEF Isolation!Search, Isolation!Connect, Isolation!Accepted, Isolation!Query,
       Isolation!Answer, Isolation!Fail, Isolation!Goto, IsoTypes, IsoOwned, IsoProvisioned
<1> QED
  BY <1>2, <1>3, <1>4, <1>5

LEMMA IsoCheckInv == ASSUME IsoInv, NEW w \in Isolation!Walkers, Isolation!Check(w) PROVE IsoInv'
<1> USE IsoConstants DEF IsoInv, Isolation!Check
<1>1. /\ at[w] \in 1 .. 6 /\ <<SqliLabOf[w], at[w]>> \notin broken
      /\ at' = [at EXCEPT ![w] = at[w] + 1] /\ at' \in [Isolation!Walkers -> 1 .. 7]
  BY DEF IsoTypes, Isolation!Checks, Isolation!NextCheck
<1>2. IsoTypes'
  BY <1>1 DEF IsoTypes
<1>3. IsoLimited'
  BY IsoLimitKept
<1>4. ASSUME NEW v \in Isolation!Walkers PROVE IsoWalk(v)'
  <2>1. CASE v = w
    <3>1. at'[w] = at[w] + 1 /\ always[w] \subseteq Isolation!Checks
      BY <1>1 DEF IsoTypes
    <3>2. \A c \in always[w] : <<SqliLabOf[w], c>> \in broken /\ c >= at[w] /\ c # at[w]
            /\ c \in Nat
      BY <1>1, <3>1 DEF IsoWalk, Isolation!Checks
    <3> QED
      BY <1>1, <2>1, <3>1, <3>2 DEF IsoWalk
  <2>2. CASE v # w
    BY <1>1, <2>2 DEF IsoWalk, IsoTypes
  <2> QED
    BY <2>1, <2>2
<1>5. IsoOwned'
  BY DEF IsoOwned, IsoTypes
<1> QED
  BY <1>2, <1>3, <1>4, <1>5

LEMMA IsoChangeInv ==
    ASSUME IsoInv, NEW lab \in SqliLabs, NEW c \in Isolation!Checks, Isolation!Break(lab, c)
           \/ Isolation!Repair(lab, c)
    PROVE  IsoInv'
<1> USE IsoConstants DEF IsoInv
<1>1. changes' \in 0 .. MaxChanges /\ broken' \subseteq SqliLabs \X Isolation!Checks
  BY DEF Isolation!Break, Isolation!Repair, IsoTypes
<1>2. always' \in [Isolation!Walkers -> SUBSET Isolation!Checks]
  BY DEF Isolation!Break, Isolation!Repair, IsoTypes
<1>3. IsoTypes'
  BY <1>1, <1>2 DEF Isolation!Break, Isolation!Repair, IsoTypes
<1>4. IsoLimited'
  BY IsoLimitKept DEF Isolation!Break, Isolation!Repair
<1>5. ASSUME NEW w \in Isolation!Walkers PROVE IsoWalk(w)'
  <2>1. CASE Isolation!Break(lab, c)
    BY <2>1 DEF Isolation!Break, IsoWalk
  <2>2. CASE Isolation!Repair(lab, c)
    <3>1. always'[w] = IF SqliLabOf[w] = lab THEN always[w] \ {c} ELSE always[w]
      BY <2>2 DEF Isolation!Repair
    <3>2. \A d \in always'[w] : <<SqliLabOf[w], d>> \in broken' /\ d >= at[w]
      BY <2>2, <3>1 DEF Isolation!Repair, IsoWalk
    <3> QED
      BY <2>2, <3>2 DEF Isolation!Repair, IsoWalk
  <2> QED
    BY <2>1, <2>2
<1>6. IsoOwned'
  BY DEF Isolation!Break, Isolation!Repair, IsoOwned
<1> QED
  BY <1>3, <1>4, <1>5, <1>6

LEMMA IsoNextInv == IsoInv /\ [Isolation!Next]_(Isolation!vars) => IsoInv'
<1>1. IsoInv /\ UNCHANGED Isolation!vars => IsoInv'
  <2> SUFFICES ASSUME IsoInv, UNCHANGED Isolation!vars PROVE IsoInv'
    OBVIOUS
  <2>1. IsoTypes' /\ IsoOwned' /\ \A w \in Isolation!Walkers : IsoWalk(w)'
    BY DEF Isolation!vars, IsoInv, IsoTypes, IsoOwned, IsoWalk
  <2>2. IsoLimited'
    BY IsoLimitKept DEF Isolation!vars, IsoInv
  <2> QED
    BY <2>1, <2>2 DEF IsoInv
<1> QED
  BY <1>1, IsoProvisionInv, IsoSearchInv, IsoCheckInv, IsoChangeInv DEF Isolation!Next

LEMMA IsoInvGivesTypes == IsoInv => Isolation!TypeOK
  BY IsoCounts DEF IsoInv, IsoTypes, IsoLimited, Isolation!TypeOK

LEMMA IsoInvGivesChecked == IsoInv => Isolation!CheckedThenRun
<1> SUFFICES ASSUME IsoInv, NEW w \in Isolation!Walkers, sqliPc[w] \in {"query", "rows", "done"}
             PROVE  always[w] = {}
  BY DEF Isolation!CheckedThenRun
<1>1. at[w] = 7 /\ always[w] \subseteq 1 .. 6 /\ \A c \in always[w] : c >= at[w]
  BY DEF IsoInv, IsoTypes, IsoWalk, Isolation!Checks
<1> QED
  BY <1>1

LEMMA IsoInvGivesOwn == IsoInv => Isolation!OwnReaderOnly
  BY IsoConstants DEF IsoInv, IsoOwned, Isolation!OwnReaderOnly, IsoProvisioned

(* Only a commit gives a lab objects, and it found none.                   *)
LEMMA IsoStepKeepsObjects == IsoInv /\ [Isolation!Next]_(Isolation!vars) => Isolation!KeepsObjects
<1> SUFFICES ASSUME IsoInv, [Isolation!Next]_(Isolation!vars), NEW lab \in SqliLabs,
                    objects[lab] # {}
             PROVE  objects'[lab] = objects[lab]
  BY DEF Isolation!KeepsObjects
<1>1. CASE objects' = objects
  BY <1>1
<1>2. ASSUME NEW p \in Provisioners, Isolation!Commit(p) PROVE objects'[lab] = objects[lab]
  BY <1>2, IsoConstants DEF Isolation!Commit, IsoInv, IsoOwned, IsoTypes
<1> QED
  BY <1>1, <1>2 DEF Isolation!Next, Isolation!vars, Isolation!Ask, Isolation!Acquire,
       Isolation!Create, Isolation!Abort, Isolation!Store, Isolation!Search, Isolation!Connect,
       Isolation!Query, Isolation!Answer, Isolation!Fail, Isolation!Check, Isolation!Break,
       Isolation!Repair

(* Searches and provisioners of any labs, while checks come to fail and    *)
(* hold again: who runs a query is the reader of the own lab and has       *)
(* passed the checks; and no file of the demo claims a commit too early    *)
(* (chat/sqli_isolation.py, prepare_sqli_demo.py).                         *)
THEOREM Confined == Isolation!Spec /\ Demo!Spec => []ReadersConfined
<1>1. Isolation!Init /\ Demo!Init => IsoInv /\ DemoInv
  BY IsoInitInv, DemoInitInv
<1>2. IsoInv /\ [Isolation!Next]_(Isolation!vars) => IsoInv'
  BY IsoNextInv
<1>3. DemoInv /\ [Demo!Next]_(Demo!vars) => DemoInv'
  BY DemoNextInv
<1>4. IsoInv /\ DemoInv => ReadersConfined
  BY IsoInvGivesTypes, IsoInvGivesChecked, IsoInvGivesOwn DEF DemoInv, ReadersConfined
<1> QED
  BY <1>1, <1>2, <1>3, <1>4, PTL DEF Isolation!Spec, Demo!Spec

(* A run that is repeated, or overlaps with another, replaces neither the  *)
(* objects of a lab nor a file another run still relies on                 *)
(* (provision_sqli.py, prepare_sqli_demo.py).                              *)
THEOREM NothingIsReplaced == Isolation!Spec /\ Demo!Spec => NothingReplaced
<1>1. Isolation!Init /\ Demo!Init => IsoInv /\ DemoInv
  BY IsoInitInv, DemoInitInv
<1>2. IsoInv /\ [Isolation!Next]_(Isolation!vars) => IsoInv'
  BY IsoNextInv
<1>3. DemoInv /\ [Demo!Next]_(Demo!vars) => DemoInv'
  BY DemoNextInv
<1>4. IsoInv /\ DemoInv /\ [Isolation!Next]_(Isolation!vars) /\ [Demo!Next]_(Demo!vars)
        => [Isolation!KeepsObjects /\ Demo!KeepsFiles]_<<sqliVars, demoVars>>
  BY IsoStepKeepsObjects, DemoStepKeepsFiles
<1> QED
  BY <1>1, <1>2, <1>3, <1>4, PTL DEF Isolation!Spec, Demo!Spec, NothingReplaced

=============================================================================
