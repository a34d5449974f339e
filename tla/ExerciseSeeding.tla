--------------------------- MODULE ExerciseSeeding ---------------------------
(***************************************************************************)
(* scripts/seed_exercises.py and labs/exercises.py: runs of the command    *)
(* give a lab its missing exercise flags in one transaction, then rebuild  *)
(* the private document that holds EX-05's flag in the vector store, and   *)
(* print the new values last.  A session-level advisory lock spans commit  *)
(* and indexing; PostgreSQL frees it when its connection goes.             *)
(* A flag value is named by the run and the exercise it was drawn for.     *)
(***************************************************************************)
EXTENDS Naturals, FiniteSets

CONSTANTS
    Runs,      \* invocations of the command
    Labs,
    LabOf,     \* the --lab-id of each run
    MaxFaults  \* bound on failing calls, lost connections and killed runs

SeedingAssumption == LabOf \in [Runs -> Labs] /\ MaxFaults \in Nat

Exercises == {"EX-03", "EX-04", "EX-05"}
RuntimeSecrets == {"EX-03", "EX-05"}
Value == Runs \X Exercises
NotKept == <<>>

VARIABLES
    pc,       \* where each run is
    lock,     \* the holder of pg_advisory_lock(721034, 2), as a set
    labs,     \* labs that have a game session
    flags,    \* ctf_flags: rows <<lab, value>> (the hash stands for the value)
    secrets,  \* lab_secrets: rows [lab, exercise, flag, value]
    notes,    \* the staff user's threads: rows <<lab, value>>
    index,    \* the private document's chunks: rows <<lab, value, run>>
    missing,  \* exercises the run found unseeded
    built,    \* runs whose indexing succeeded
    shown,    \* values printed, with the run that printed them
    last,     \* the latest run that touched a lab's document (history)
    lost,     \* some holder's connection was lost (history)
    faults

vars == <<pc, lock, labs, flags, secrets, notes, index, missing, built, shown, last, lost, faults>>
store == <<flags, secrets, notes>>

Init ==
    /\ pc = [r \in Runs |-> "idle"]
    /\ lock = {} /\ labs = {}
    /\ flags = {} /\ secrets = {} /\ notes = {} /\ index = {}
    /\ missing = [r \in Runs |-> {}]
    /\ built = {} /\ shown = {}
    /\ last = [lab \in Labs |-> {}]
    /\ lost = FALSE /\ faults = 0

Goto(r, p) == pc' = [pc EXCEPT ![r] = p]
Fault == faults < MaxFaults /\ faults' = faults + 1
RowsOf(lab) == {s \in secrets : s.lab = lab}

(* External: admin_setup gives a lab its session.                          *)
SetUp(lab) ==
    /\ lab \notin labs /\ labs' = labs \cup {lab}
    /\ UNCHANGED <<pc, lock, store, index, missing, built, shown, last, lost, faults>>

(* Mutant: runs are not serialized.                                        *)
TakeAnyway(r) ==
    /\ pc[r] = "idle"
    /\ lock' = lock \cup {r} /\ Goto(r, "seed")
    /\ UNCHANGED <<labs, store, index, missing, built, shown, last, lost, faults>>

TakeLock(r) ==
    /\ pc[r] = "idle" /\ lock = {}
    /\ lock' = {r} /\ Goto(r, "seed")
    /\ UNCHANGED <<labs, store, index, missing, built, shown, last, lost, faults>>

(* seed_exercise_flags: the session must exist; the missing exercises.     *)
Look(r) ==
    /\ pc[r] = "seed"
    /\ IF LabOf[r] \in labs
       THEN /\ missing' = [missing EXCEPT ![r] = Exercises \ {s.exercise : s \in RowsOf(LabOf[r])}]
            /\ Goto(r, "commit")
       ELSE Goto(r, "abandon") /\ UNCHANGED missing
    /\ UNCHANGED <<lock, labs, store, index, built, shown, last, lost, faults>>

NewRows(r) ==
    {[lab |-> LabOf[r], exercise |-> ex, flag |-> <<r, ex>>,
      value |-> IF ex \in RuntimeSecrets THEN <<r, ex>> ELSE NotKept] : ex \in missing[r]}

(* Mutant: the constraint is not declared.                                 *)
AlwaysDistinct(r) == TRUE

(* UniqueConstraint("lab_instance_id", "exercise").                        *)
Distinct(r) == missing[r] \cap {s.exercise : s \in RowsOf(LabOf[r])} = {}

(* Flags, secrets and the EX-04 thread are one transaction.                *)
Insert(r) ==
    /\ Distinct(r)
    /\ secrets' = secrets \cup NewRows(r)
    /\ flags' = flags \cup {<<LabOf[r], <<r, ex>>>> : ex \in missing[r]}
    /\ notes' = notes \cup {<<LabOf[r], <<r, ex>>>> : ex \in missing[r] \cap {"EX-04"}}

Commit(r) ==
    /\ pc[r] = "commit"
    /\ Insert(r) /\ Goto(r, "read")
    /\ UNCHANGED <<lock, labs, index, missing, built, shown, last, lost, faults>>

(* The transaction is rolled back, or its outcome is not known.            *)
CommitFails(r) ==
    /\ pc[r] = "commit"
    /\ \/ ~Distinct(r) /\ UNCHANGED <<store, faults>>
       \/ Fault /\ UNCHANGED store
       \/ Fault /\ Insert(r)
    /\ Goto(r, "abandon")
    /\ UNCHANGED <<lock, labs, index, missing, built, shown, last, lost>>

(* Mutant: the old chunks are looked for under another source.             *)
KeepOld(r) ==
    /\ pc[r] = "read"
    /\ last' = [last EXCEPT ![LabOf[r]] = {r}]
    /\ Goto(r, "add")
    /\ UNCHANGED <<lock, labs, store, index, missing, built, shown, lost, faults>>

(* index_private_document reads the committed flag and drops the old       *)
(* chunks ...                                                              *)
Remove(r) ==
    /\ pc[r] = "read"
    /\ index' = {d \in index : d[1] # LabOf[r]}
    /\ last' = [last EXCEPT ![LabOf[r]] = {r}]
    /\ Goto(r, "add")
    /\ UNCHANGED <<lock, labs, store, missing, built, shown, lost, faults>>

(* Mutant: the document is built from the flag this run drew.              *)
DrawnHere(r) == <<r, "EX-05">>

DocumentValue(r) ==
    LET row == CHOOSE s \in RowsOf(LabOf[r]) : s.exercise = "EX-05" IN row.value

AddChunk(r) == index' = index \cup {<<LabOf[r], DocumentValue(r), r>>}

(* ... and sends the new one, of one chunk, through the upload pipeline.   *)
Add(r) ==
    /\ pc[r] = "add"
    /\ AddChunk(r)
    /\ built' = built \cup {r} /\ Goto(r, "unlock")
    /\ UNCHANGED <<lock, labs, store, missing, shown, last, lost, faults>>

(* Mutant: the 0 chunks of a failed pipeline are taken for a success.      *)
ZeroIsFine(r) ==
    /\ pc[r] = "add" /\ Fault
    /\ built' = built \cup {r} /\ Goto(r, "unlock")
    /\ UNCHANGED <<lock, labs, store, index, missing, shown, last, lost>>

(* Mutant: a failure of the indexing is not caught.                        *)
HideValues(r) ==
    /\ pc[r] \in {"read", "add"} /\ Fault
    /\ last' = [last EXCEPT ![LabOf[r]] = {r}]
    /\ Goto(r, "abandon")
    /\ UNCHANGED <<lock, labs, store, index, missing, built, shown, lost>>

(* Chroma, Redis or the embedding fails; process_pdf returns 0 for a       *)
(* failure of its own, after the chunk was added or before it.             *)
IndexFails(r) ==
    /\ pc[r] \in {"read", "add"} /\ Fault
    /\ \/ UNCHANGED index
       \/ pc[r] = "add" /\ AddChunk(r)
    /\ last' = [last EXCEPT ![LabOf[r]] = {r}]
    /\ Goto(r, "unlock")
    /\ UNCHANGED <<lock, labs, store, missing, built, shown, lost>>

(* pg_advisory_unlock in the finally clause: an exception of its own, or   *)
(* the one being handled, keeps the result from being printed.             *)
Unlock(r) ==
    /\ pc[r] \in {"unlock", "abandon"}
    /\ lock' = lock \ {r}
    /\ Goto(r, IF pc[r] = "unlock" /\ r \in lock THEN "print" ELSE "failed")
    /\ UNCHANGED <<labs, store, index, missing, built, shown, last, lost, faults>>

(* Mutant: the exercise's flags are printed, whoever drew them.            *)
AllValues(r) == {s.flag : s \in RowsOf(LabOf[r])}

Created(r) == {<<r, ex>> : ex \in missing[r]}

(* The exit code is 0 when the document was indexed.                       *)
PrintResult(r) ==
    /\ pc[r] = "print"
    /\ shown' = shown \cup {<<v, r>> : v \in Created(r)}
    /\ Goto(r, IF r \in built THEN "done" ELSE "partial")
    /\ UNCHANGED <<lock, labs, store, index, missing, built, last, lost, faults>>

Active == {r \in Runs : pc[r] \notin {"idle", "done", "partial", "failed", "killed"}}

(* The run is killed or interrupted.                                       *)
Kill(r) ==
    /\ r \in Active /\ Fault
    /\ lock' = lock \ {r} /\ Goto(r, "killed")
    /\ UNCHANGED <<labs, store, index, missing, built, shown, last, lost>>

(* The idle connection of the lock is lost; the run goes on.               *)
LoseLock(r) ==
    /\ r \in lock /\ pc[r] # "abandon" /\ Fault
    /\ lock' = lock \ {r} /\ lost' = TRUE
    /\ UNCHANGED <<pc, labs, store, index, missing, built, shown, last>>

Step(r) ==
    \/ TakeLock(r) \/ Look(r) \/ Commit(r) \/ CommitFails(r) \/ Remove(r) \/ Add(r)
    \/ IndexFails(r) \/ Unlock(r) \/ PrintResult(r) \/ Kill(r) \/ LoseLock(r)

Next == (\E lab \in Labs : SetUp(lab)) \/ \E r \in Runs : Step(r)

Spec == Init /\ [][Next]_vars

-----------------------------------------------------------------------------
(* Properties *)

Phases == {"idle", "seed", "commit", "read", "add", "unlock", "abandon", "print",
           "done", "partial", "failed", "killed"}
Row == [lab : Labs, exercise : Exercises, flag : Value, value : Value \cup {NotKept}]

(* Type invariant; unless a connection was lost, every active run that has *)
(* not yet unlocked holds the lock.                                        *)
TypeOK ==
    /\ pc \in [Runs -> Phases]
    /\ lock \subseteq Active /\ \A r, q \in lock : r = q
    /\ lost \in BOOLEAN
    /\ ~lost => \A r \in Active : pc[r] # "print" => r \in lock
    /\ labs \subseteq Labs
    /\ flags \subseteq Labs \X Value /\ notes \subseteq Labs \X Value
    /\ secrets \subseteq Row
    /\ index \subseteq Labs \X Value \X Runs
    /\ missing \in [Runs -> SUBSET Exercises]
    /\ built \subseteq Runs /\ shown \subseteq Value \X Runs
    /\ last \in [Labs -> SUBSET Runs]
    /\ faults \in 0 .. MaxFaults

(* "the index never holds a flag the database does not know"               *)
(* (labs/exercises.py:131), nor one of another lab or exercise.            *)
IndexKnown ==
    \A d \in index : \E s \in secrets :
        s.lab = d[1] /\ s.exercise = "EX-05" /\ s.value = d[2] /\ <<d[1], d[2]>> \in flags

(* Runs that overlap, fail or are repeated leave one flag per exercise     *)
(* that can be found and submitted, and none that cannot: a lab's rows,    *)
(* its registered flags and its staff thread tell the same values, even if *)
(* the lock was lost (exercises.py:99-124; LOCAL_RUN.md:203).              *)
OneFlagEach ==
    \A lab \in Labs :
        /\ {s.exercise : s \in RowsOf(lab)} \in {{}, Exercises}
        /\ \A s, u \in RowsOf(lab) : s.exercise = u.exercise => s = u
        /\ {f[2] : f \in {g \in flags : g[1] = lab}} = {s.flag : s \in RowsOf(lab)}
        /\ {n[2] : n \in {m \in notes : m[1] = lab}}
             = {s.flag : s \in {u \in RowsOf(lab) : u.exercise = "EX-04"}}

(* Every run replaces the document instead of adding a copy                *)
(* (LOCAL_RUN.md:201-202), as long as no connection of the lock was lost.  *)
OneDocument == lost \/ \A d, e \in index : d[1] = e[1] => d = e

(* A lab that has flags and no document knows: the last run that touched   *)
(* the document has not ended, or ended with a nonzero exit code, even if  *)
(* the lock was lost.                                                      *)
GapReported ==
    \A lab \in Labs :
        RowsOf(lab) # {} /\ (\A d \in index : d[1] # lab) => \A r \in last[lab] : pc[r] # "done"

(* "A failure here must not hide the values just committed"                *)
(* (seed_exercises.py:42): the last run that got as far as the document,   *)
(* unless killed, prints the values it drew.  A lost lock does hide them:  *)
(* the unlock raises instead of the result being printed.                  *)
ValuesShown ==
    lost \/ \A r \in Runs :
        r \in last[LabOf[r]] => r \in Active \/ pc[r] = "killed" \/ \A v \in Created(r) : <<v, r>> \in shown

(* A printed value is a committed flag, printed by one run.                *)
ShownOnce ==
    \A s \in shown :
        /\ \E row \in secrets : row.flag = s[1] /\ row.lab = LabOf[s[2]]
        /\ \A t \in shown : s[1] = t[1] => s = t

=============================================================================
