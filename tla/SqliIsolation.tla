---------------------------- MODULE SqliIsolation ----------------------------
(***************************************************************************)
(* The SQLi exercise's database side: scripts/provision_sqli.py creates a  *)
(* lab's roles and views once (chat/sqli_isolation.py), and every history  *)
(* search connects as the lab's reader and checks the boundary again       *)
(* before its query (chat/sqli_search.py).  Administrators may change      *)
(* grants, roles and views at any time, and store the reader's password in *)
(* the API's connections file.  The boundary's six checks are statements   *)
(* of a READ COMMITTED transaction: each sees what is committed by then.   *)
(* A provisioner names its password; labs' rows are the views' matter.     *)
(***************************************************************************)
EXTENDS Naturals, FiniteSets

CONSTANTS
    Provisioners, Searches,
    Labs,
    LabOf,       \* the lab of each of them
    Sessions,    \* labs with a game session
    ReaderLimit,       \* CONNECTION LIMIT of a reader
    MaxChanges   \* bound on changes by administrators

Walkers == Provisioners \cup Searches

IsolationAssumption ==
    /\ LabOf \in [Walkers -> Labs] /\ Sessions \subseteq Labs
    /\ Provisioners \cap Searches = {}
    /\ ReaderLimit \in Nat \ {0} /\ MaxChanges \in Nat

(* check_reader_boundary: attributes, memberships, creation rights, data   *)
(* access, routines and the like, views.                                   *)
Checks == 1 .. 6
OfPublic == {3, 4, 5}   \* may fail before the lab has its objects

VARIABLES
    pc,       \* where each provisioner and search is
    lock,     \* the holder of pg_advisory_xact_lock(721034, 59), as a set
    objects,  \* the provisioner whose roles, schema and views a lab has
    file,     \* the provisioner whose password the connections file has
    broken,   \* <<lab, check>> that would fail now
    at,       \* the next check of each walker
    always,   \* checks that have been failing ever since a walk began (history)
    changes

vars == <<pc, lock, objects, file, broken, at, always, changes>>

Init ==
    /\ pc = [w \in Walkers |-> "idle"]
    /\ lock = {}
    /\ objects = [lab \in Labs |-> {}]
    /\ file = [lab \in Labs |-> {}]
    /\ broken = {}
    /\ at = [w \in Walkers |-> 1]
    /\ always = [w \in Walkers |-> {}]
    /\ changes = 0

Goto(w, p) == pc' = [pc EXCEPT ![w] = p]
Begin(w) == always' = [always EXCEPT ![w] = {c \in Checks : <<LabOf[w], c>> \in broken}]

(* The password is long enough, or the run is over.                        *)
Ask(p) ==
    /\ pc[p] = "idle" /\ (Goto(p, "wait") \/ Goto(p, "failed"))
    /\ UNCHANGED <<lock, objects, file, broken, at, always, changes>>

(* Mutant: the lock is not taken.                                          *)
AcquireAny(p) ==
    /\ pc[p] = "wait"
    /\ lock' = lock \cup {p} /\ Begin(p) /\ Goto(p, "look")
    /\ UNCHANGED <<objects, file, broken, at, changes>>

Acquire(p) ==
    /\ pc[p] = "wait" /\ lock = {}
    /\ lock' = {p} /\ Begin(p) /\ Goto(p, "look")
    /\ UNCHANGED <<objects, file, broken, at, changes>>

(* Mutant: a lab is provisioned before it has a session.                   *)
Unprepared(p) == objects[LabOf[p]] = {}

Fresh(p) == objects[LabOf[p]] = {} /\ LabOf[p] \in Sessions

(* Mutant: roles and views that exist are replaced.                        *)
Replace(p) ==
    /\ pc[p] = "look" /\ LabOf[p] \in Sessions
    /\ Goto(p, "check")
    /\ UNCHANGED <<lock, objects, file, broken, at, always, changes>>

(* Existing objects or a missing session end the run; otherwise the roles, *)
(* grants, schema and views are created, seen by this transaction only.    *)
Create(p) ==
    /\ pc[p] = "look" /\ Fresh(p)
    /\ Goto(p, "check")
    /\ UNCHANGED <<lock, objects, file, broken, at, always, changes>>

(* A conflict, an error, a timeout or the end of the process: the          *)
(* transaction is rolled back.                                             *)
Abort(p) ==
    /\ pc[p] \in {"wait", "look", "check"}
    /\ lock' = lock \ {p} /\ Goto(p, "failed")
    /\ UNCHANGED <<objects, file, broken, at, always, changes>>

(* Mutant: the last check, of the views, is left out.                      *)
Short(w) == IF at[w] \in 1 .. 4 THEN at[w] + 1 ELSE 7

NextCheck(w) == at[w] + 1

(* One statement of check_reader_boundary.                                 *)
Check(w) ==
    /\ pc[w] = "check" /\ at[w] \in Checks
    /\ <<LabOf[w], at[w]>> \notin broken
    /\ at' = [at EXCEPT ![w] = NextCheck(w)]
    /\ UNCHANGED <<pc, lock, objects, file, broken, always, changes>>

(* A failing commit is Abort; one whose outcome is unknown was a success.  *)
Commit(p) ==
    /\ pc[p] = "check" /\ at[p] \notin Checks
    /\ objects' = [objects EXCEPT ![LabOf[p]] = {p}]
    /\ lock' = lock \ {p}
    /\ Goto(p, "done") \/ Goto(p, "failed")
    /\ UNCHANGED <<file, broken, at, always, changes>>

(* External: the operator saves a password, of this run or of another.     *)
Store(p) ==
    /\ pc[p] \in {"done", "failed"} /\ file[LabOf[p]] # {p}
    /\ changes < MaxChanges /\ changes' = changes + 1
    /\ file' = [file EXCEPT ![LabOf[p]] = {p}]
    /\ UNCHANGED <<pc, lock, objects, broken, at, always>>

(* reader_url.                                                             *)
Search(s) ==
    /\ pc[s] = "idle"
    /\ Goto(s, IF file[LabOf[s]] = {} THEN "unavailable" ELSE "connect")
    /\ UNCHANGED <<lock, objects, file, broken, at, always, changes>>

Connected(lab) == {s \in Searches : LabOf[s] = lab /\ pc[s] \in {"check", "query"}}

Accepted(s) == objects[LabOf[s]] # {} /\ file[LabOf[s]] = objects[LabOf[s]]

(* PostgreSQL accepts the reader's password and has a connection to spare; *)
(* session_user and current_user are the reader.                           *)
Connect(s) ==
    /\ pc[s] = "connect"
    /\ Accepted(s) /\ Cardinality(Connected(LabOf[s])) < ReaderLimit
    /\ Begin(s) /\ Goto(s, "check")
    /\ UNCHANGED <<lock, objects, file, broken, at, changes>>

Query(s) ==
    /\ pc[s] = "check" /\ at[s] \notin Checks
    /\ Goto(s, "query")
    /\ UNCHANGED <<lock, objects, file, broken, at, always, changes>>

Answer(s) ==
    /\ pc[s] = "query"
    /\ Goto(s, "rows")
    /\ UNCHANGED <<lock, objects, file, broken, at, always, changes>>

(* Mutant: neither connecting nor the query is given a limit.              *)
NoLimit(s) ==
    /\ pc[s] = "check"
    /\ Goto(s, "error")
    /\ UNCHANGED <<lock, objects, file, broken, at, always, changes>>

(* A refused connection, a failing check, an SQL error, a timeout: an      *)
(* error, the connection closed.                                           *)
Fail(s) ==
    /\ pc[s] \in {"connect", "check", "query"}
    /\ Goto(s, "error")
    /\ UNCHANGED <<lock, objects, file, broken, at, always, changes>>

(* External: an administrator grants, alters or drops something ...        *)
Break(lab, c) ==
    /\ <<lab, c>> \notin broken /\ changes < MaxChanges
    /\ c \in OfPublic \/ objects[lab] # {}
    /\ broken' = broken \cup {<<lab, c>>} /\ changes' = changes + 1
    /\ UNCHANGED <<pc, lock, objects, file, at, always>>

(* ... and puts it right again.                                            *)
Repair(lab, c) ==
    /\ <<lab, c>> \in broken /\ changes < MaxChanges
    /\ broken' = broken \ {<<lab, c>>} /\ changes' = changes + 1
    /\ always' = [w \in Walkers |-> IF LabOf[w] = lab THEN always[w] \ {c} ELSE always[w]]
    /\ UNCHANGED <<pc, lock, objects, file, at>>

Next ==
    \/ \E p \in Provisioners : Ask(p) \/ Acquire(p) \/ Create(p) \/ Abort(p) \/ Commit(p) \/ Store(p)
    \/ \E s \in Searches : Search(s) \/ Connect(s) \/ Query(s) \/ Answer(s) \/ Fail(s)
    \/ \E w \in Walkers : Check(w)
    \/ \E lab \in Labs, c \in Checks : Break(lab, c) \/ Repair(lab, c)

Spec == Init /\ [][Next]_vars

(* Timeouts end what is waiting: 10 s to connect, 5 s and 3 s a statement, *)
(* 5 s for the advisory lock.                                              *)
Fairness ==
    /\ \A p \in Provisioners : WF_vars(Abort(p))
    /\ \A s \in Searches : WF_vars(Fail(s))

FairSpec == Spec /\ Fairness

-----------------------------------------------------------------------------
(* Properties *)

Phases ==
    {"idle", "wait", "look", "connect", "check", "query", "rows", "done", "failed", "error", "unavailable"}

(* Type invariant: at most one provisioner works, and a reader never has   *)
(* more connections than its limit.                                        *)
TypeOK ==
    /\ pc \in [Walkers -> Phases]
    /\ lock = {p \in Provisioners : pc[p] \in {"look", "check"}} /\ \A p, q \in lock : p = q
    /\ objects \in [Labs -> SUBSET Provisioners] /\ file \in [Labs -> SUBSET Provisioners]
    /\ \A lab \in Labs : Cardinality(Connected(lab)) <= ReaderLimit
    /\ broken \subseteq Labs \X Checks
    /\ at \in [Walkers -> 1 .. 7] /\ always \in [Walkers -> SUBSET Checks]
    /\ changes \in 0 .. MaxChanges

(* "Existing objects cause an error, never takeover, password rotation or  *)
(* repair" (sqli_isolation.py:162), whatever runs overlap or are repeated. *)
KeepsObjects == \A lab \in Labs : objects[lab] # {} => objects'[lab] = objects[lab]
NeverTakenOver == [][KeepsObjects]_vars

(* Nothing is provisioned or answered across a boundary that was broken    *)
(* all the while: each check held at some time between the beginning of    *)
(* the transaction and its end (sqli_search.py:79-87), even if an          *)
(* administrator changes things between two of the checks.                 *)
CheckedThenRun == \A w \in Walkers : pc[w] \in {"query", "rows", "done"} => always[w] = {}

(* Only a lab that has a session is provisioned, and a query runs as the   *)
(* reader of its own lab: a wrong or missing entry in the file, or one of  *)
(* a run that was rolled back, runs nothing.                               *)
OwnReaderOnly ==
    /\ \A lab \in Labs : objects[lab] # {} => lab \in Sessions
    /\ \A s \in Searches : pc[s] \in {"check", "query", "rows"} =>
         \E p \in objects[LabOf[s]] : LabOf[p] = LabOf[s] /\ pc[p] \in {"done", "failed"}

(* Searches and provisioning end, and with them their connections, though  *)
(* no statement ever returns.                                              *)
AllEnd ==
    \A w \in Walkers : (pc[w] \in {"wait", "look", "connect", "check", "query"})
                         ~> (pc[w] \in {"rows", "done", "failed", "error"})

=============================================================================
