------------------------------- MODULE SqliDemo -------------------------------
(***************************************************************************)
(* scripts/prepare_sqli_demo.py: two labs provisioned in one transaction,  *)
(* whose readers' passwords exist only in the files the script writes:     *)
(* connections.json before the commit and again after it, readers.json     *)
(* last.  Both are created exclusively; what json.dump writes reaches the  *)
(* file when it is flushed or closed.  A run names its two passwords.      *)
(***************************************************************************)
EXTENDS Naturals, FiniteSets

CONSTANT Runs   \* invocations, any of which may be killed at any time

Absent == [run |-> {}, status |-> "absent"]
Empty == [run |-> {}, status |-> "empty"]
Content(r, status) == [run |-> {r}, status |-> status]

VARIABLES
    pc,       \* where each run is
    state,    \* connections.json: the run whose manifest it is, and its status
    readers,  \* readers.json: the run whose map it is
    db        \* runs whose labs are committed

vars == <<pc, state, readers, db>>

Init ==
    /\ pc = [r \in Runs |-> "idle"]
    /\ state = Absent /\ readers = Absent
    /\ db = {}

Goto(r, p) == pc' = [pc EXCEPT ![r] = p]

(* Mutant: the file is opened without O_EXCL.                              *)
Reopen(r) ==
    /\ pc[r] = "idle"
    /\ state' = Empty /\ Goto(r, "provision")
    /\ UNCHANGED <<readers, db>>

(* os.open with O_EXCL.                                                    *)
OpenState(r) ==
    /\ pc[r] = "idle"
    /\ IF state = Absent THEN state' = Empty /\ Goto(r, "provision")
       ELSE Goto(r, "refused") /\ UNCHANGED state
    /\ UNCHANGED <<readers, db>>

(* Lab A, then lab B: rows, roles and views, all uncommitted.              *)
Provision(r) ==
    /\ pc[r] = "provision"
    /\ Goto(r, "save")
    /\ UNCHANGED <<state, readers, db>>

(* Mutant: the status is set before the commit.                            *)
SaveEarly(r) ==
    /\ pc[r] = "save"
    /\ state' = Content(r, "committed") /\ Goto(r, "commit")
    /\ UNCHANGED <<readers, db>>

(* json.dump, flush, fsync.                                                *)
Save(r) ==
    /\ pc[r] = "save"
    /\ state' = Content(r, "not_committed") /\ Goto(r, "commit")
    /\ UNCHANGED <<readers, db>>

(* The outcome of a commit may be unknown: the run ends with an error.     *)
Commit(r) ==
    /\ pc[r] = "commit"
    /\ db' = db \cup {r}
    /\ Goto(r, "truncate") \/ Goto(r, "failed")
    /\ UNCHANGED <<state, readers>>

(* The transaction is rolled back and the file closed, which flushes what  *)
(* json.dump has left in its buffer.                                       *)
RollBack(r) ==
    /\ pc[r] \in {"provision", "save", "commit"}
    /\ Goto(r, "failed")
    /\ \/ UNCHANGED state
       \/ pc[r] = "save" /\ state' = Content(r, "not_committed")
    /\ UNCHANGED <<readers, db>>

(* seek(0), truncate().                                                    *)
Truncate(r) ==
    /\ pc[r] = "truncate"
    /\ state' = Empty /\ Goto(r, "rewrite")
    /\ UNCHANGED <<readers, db>>

(* json.dump, flush, fsync; nothing of it is in the file before the flush. *)
Rewrite(r) ==
    /\ pc[r] = "rewrite"
    /\ state' = Content(r, "committed") /\ Goto(r, "map")
    /\ UNCHANGED <<readers, db>>

(* Mutant: a reader map that exists is written over.                       *)
MapAnyway(r) ==
    /\ pc[r] = "map"
    /\ readers' = Empty /\ Goto(r, "fill")
    /\ UNCHANGED <<state, db>>

(* readers.json, with O_EXCL; an operator may have made it by hand.        *)
OpenMap(r) ==
    /\ pc[r] = "map"
    /\ IF readers = Absent THEN readers' = Empty /\ Goto(r, "fill")
       ELSE Goto(r, "failed") /\ UNCHANGED readers
    /\ UNCHANGED <<state, db>>

Fill(r) ==
    /\ pc[r] = "fill"
    /\ readers' = Content(r, "map") /\ Goto(r, "done")
    /\ UNCHANGED <<state, db>>

(* The process is killed: its transaction is rolled back, its buffer lost. *)
Kill(r) ==
    /\ pc[r] \notin {"idle", "refused", "failed", "done", "killed"}
    /\ Goto(r, "killed")
    /\ UNCHANGED <<state, readers, db>>

(* External: an operator moves connections.json away after inspection.     *)
Inspect ==
    /\ \A r \in Runs : pc[r] \in {"idle", "refused", "failed", "done", "killed"}
    /\ state # Absent /\ state' = Absent
    /\ UNCHANGED <<pc, readers, db>>

Step(r) ==
    \/ OpenState(r) \/ Provision(r) \/ Save(r) \/ Commit(r) \/ RollBack(r) \/ Truncate(r)
    \/ Rewrite(r) \/ OpenMap(r) \/ Fill(r) \/ Kill(r)

Next == Inspect \/ \E r \in Runs : Step(r)

Spec == Init /\ [][Next]_vars

-----------------------------------------------------------------------------
(* Properties *)

Over == {"idle", "refused", "failed", "done", "killed"}
Working == {r \in Runs : pc[r] \notin Over}
Holds(file, r) == file.run = {r}

(* Type invariant; one run at a time is past the exclusive creation.       *)
TypeOK ==
    /\ pc \in [Runs -> Over \cup {"provision", "save", "commit", "truncate", "rewrite", "map", "fill"}]
    /\ \A file \in {state, readers} :
         file \in {Absent, Empty} \cup {Content(r, status) : r \in Runs, status \in {"not_committed", "committed", "map"}}
    /\ db \subseteq Runs
    /\ \A r, q \in Working : r = q

(* "No success state is written until the outer DB transaction commits"    *)
(* (prepare_sqli_demo.py:113), nor a reader map.                           *)
NoEarlySuccess ==
    \A r \in Runs \ db : state # Content(r, "committed") /\ ~Holds(readers, r)

(* A repeated run never replaces what an earlier one saved (:38): a reader *)
(* map is for good, and a manifest is gone only while its own run rewrites *)
(* it, or when an operator moved it.                                       *)
KeepsFiles ==
    \A r \in Runs :
        /\ Holds(readers, r) => Holds(readers', r)
        /\ Holds(state, r) => Holds(state', r) \/ pc[r] = "truncate" \/ state' = Absent
NothingReplaced == [][KeepsFiles]_vars

=============================================================================
