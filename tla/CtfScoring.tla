------------------------------ MODULE CtfScoring ------------------------------
(***************************************************************************)
(* Flag submissions of the Red Team (POST /api/red/ctf/submit): concurrent *)
(* requests that look a flag up, check that the team has not captured it,  *)
(* insert a ctf_submissions row and report the capture to the SIEM, each   *)
(* in a transaction of its own.  Nothing locks the flag between the check  *)
(* and the insert, and no constraint makes (team_id, flag_id) unique.      *)
(***************************************************************************)
EXTENDS Naturals, FiniteSets

CONSTANTS
    Requests,   \* submissions, each served once
    Labs,       \* lab instances
    TeamOf,     \* team_id of each lab's game session
    Flags,      \* ctf_flags rows
    LabOfFlag,  \* lab_id of each flag
    Values,     \* what players submit (its hash is looked up)
    ValueOf,    \* flag_value of each flag; labs may use the same value
    MaxFaults   \* bound on crashes, failed inserts and failed event writes

ASSUME CtfAssumption ==
    /\ LabOfFlag \in [Flags -> Labs]
    /\ ValueOf \in [Flags -> Values]
    /\ MaxFaults \in Nat

VARIABLES
    phase,        \* where each request is
    lab, value,   \* lab_instance_id of its token, and the submitted value
    flag,         \* the flag it found (a set of at most one)
    submissions,  \* committed ctf_submissions rows, named by their request
    events,       \* CTF_* rows of the audit log, named by their request
    known,        \* rows already committed when the request arrived (history)
    lost,         \* requests whose event was lost (history)
    faults

input == <<lab, value>>
vars == <<phase, input, flag, submissions, events, known, lost, faults>>

Phases == {"idle", "lookup", "reject", "check", "insert", "report", "done"}

Init ==
    /\ phase = [r \in Requests |-> "idle"]
    /\ lab \in [Requests -> Labs]
    /\ value \in [Requests -> Values]
    /\ flag = [r \in Requests |-> {}]
    /\ submissions = {}
    /\ events = {}
    /\ known = [r \in Requests |-> {}]
    /\ lost = {}
    /\ faults = 0

Goto(r, p) == phase' = [phase EXCEPT ![r] = p]

Arrive(r) ==
    /\ phase[r] = "idle"
    /\ Goto(r, "lookup")
    /\ known' = [known EXCEPT ![r] = submissions]
    /\ UNCHANGED <<input, flag, submissions, events, lost, faults>>

(* Mutant: the flag is looked up in every lab.                             *)
AnyMatch(l, v) == {f \in Flags : ValueOf[f] = v}

(* get_flag_by_value: the flags of the lab with the submitted hash.        *)
Matching(l, v) == {f \in Flags : ValueOf[f] = v /\ LabOfFlag[f] = l}

(* Mutant: a value that matches no flag is checked like any other.         *)
SkipNotFound(r) ==
    /\ phase[r] = "lookup"
    /\ \E F \in SUBSET Matching(lab[r], value[r]) : flag' = [flag EXCEPT ![r] = F]
    /\ Goto(r, "check")
    /\ UNCHANGED <<input, submissions, events, known, lost, faults>>

LookUp(r) ==
    /\ phase[r] = "lookup"
    /\ \/ /\ Matching(lab[r], value[r]) = {}
          /\ Goto(r, "reject")
          /\ UNCHANGED flag
       \/ \E f \in Matching(lab[r], value[r]) :
            /\ flag' = [flag EXCEPT ![r] = {f}]
            /\ Goto(r, "check")
    /\ UNCHANGED <<input, submissions, events, known, lost, faults>>

Row(r, f) == [request |-> r, team |-> TeamOf[lab[r]], flag |-> f, lab |-> lab[r]]

(* Mutant: submissions are compared by lab and player, not by team.        *)
CapturedByRequest(r, f) == \E s \in submissions : s.request = r /\ s.flag = f

(* has_team_submitted_flag.                                                *)
Captured(r, f) == \E s \in submissions : s.team = TeamOf[lab[r]] /\ s.flag = f

Check(r) ==
    /\ phase[r] = "check"
    /\ \E f \in flag[r] : Goto(r, IF Captured(r, f) THEN "done" ELSE "insert")
    /\ UNCHANGED <<input, flag, submissions, events, known, lost, faults>>

(* Insert and commit.                                                      *)
Insert(r) ==
    /\ phase[r] = "insert"
    /\ \E f \in flag[r] : submissions' = submissions \cup {Row(r, f)}
    /\ Goto(r, "report")
    /\ UNCHANGED <<input, flag, events, known, lost, faults>>

InsertFails(r) ==
    /\ phase[r] = "insert"
    /\ faults < MaxFaults
    /\ faults' = faults + 1
    /\ Goto(r, "done")
    /\ UNCHANGED <<input, flag, submissions, events, known, lost>>

Event(r) == [request |-> r, lab |-> lab[r], captured |-> flag[r]]

(* Mutant: the event is written when the flag is found.                    *)
EarlyReport(r) ==
    /\ phase[r] \in {"check", "insert", "reject", "report"}
    /\ events' = events \cup {Event(r)}
    /\ Goto(r, IF phase[r] \in {"reject", "report"} THEN "done" ELSE "insert")
    /\ UNCHANGED <<input, flag, submissions, known, lost, faults>>

(* log_security_event: CTF_SUBMIT_FAILED of a rejected flag (then 400) or  *)
(* CTF_FLAG_CAPTURED of a committed capture.                               *)
Report(r) ==
    /\ phase[r] \in {"reject", "report"}
    /\ events' = events \cup {Event(r)}
    /\ Goto(r, "done")
    /\ UNCHANGED <<input, flag, submissions, known, lost, faults>>

(* The event write fails: it is rolled back and the request goes on.       *)
ReportFails(r) ==
    /\ phase[r] \in {"reject", "report"}
    /\ faults < MaxFaults
    /\ faults' = faults + 1
    /\ lost' = lost \cup {r}
    /\ Goto(r, "done")
    /\ UNCHANGED <<input, flag, submissions, events, known>>

(* The server process dies: what is committed stays.                       *)
Crash ==
    /\ faults < MaxFaults
    /\ faults' = faults + 1
    /\ lost' = lost \cup {r \in Requests : phase[r] = "report"}
    /\ phase' = [r \in Requests |-> IF phase[r] = "idle" THEN "idle" ELSE "done"]
    /\ UNCHANGED <<input, flag, submissions, events, known>>

Serve(r) ==
    \/ Arrive(r) \/ LookUp(r) \/ Check(r) \/ Insert(r) \/ InsertFails(r)
    \/ Report(r) \/ ReportFails(r)

Next == Crash \/ \E r \in Requests : Serve(r)

Spec == Init /\ [][Next]_vars

-----------------------------------------------------------------------------
(* Properties *)

(* Type invariant; a request past the lookup has found one flag.           *)
TypeOK ==
    /\ phase \in [Requests -> Phases]
    /\ lab \in [Requests -> Labs] /\ value \in [Requests -> Values]
    /\ flag \in [Requests -> SUBSET Flags]
    /\ \A r \in Requests : phase[r] \in {"check", "insert", "report"} =>
         \E f \in Flags : flag[r] = {f}
    /\ submissions \subseteq [request: Requests, team: {TeamOf[l] : l \in Labs},
                             flag: Flags, lab: Labs]
    /\ known \in [Requests -> SUBSET submissions]
    /\ faults \in 0 .. MaxFaults

(* A capture is credited to the team whose lab hides the flag, also when   *)
(* two labs use the same value (docs/exercises.md:102, "only in your own   *)
(* lab").                                                                  *)
OwnLabOnly ==
    \A s \in submissions :
        LabOfFlag[s.flag] = lab[s.request] /\ s.team = TeamOf[LabOfFlag[s.flag]]

(* A duplicate that arrives after the capture was committed is rejected    *)
(* (README.md:33, "sequential duplicate rejection"), whatever else is in   *)
(* progress.                                                               *)
NoLateDuplicate ==
    [][\A s \in submissions' \ submissions :
         \A t \in known[s.request] : ~(t.team = s.team /\ t.flag = s.flag)]_vars

(* The audit log follows the submissions: a capture event stands for a     *)
(* committed row, and a committed row has its event, is about to get it,   *)
(* or lost it to a crash or a failed write.                                *)
CapturesReported ==
    /\ \A e \in events : e.captured # {} =>
         \E s \in submissions : s.request = e.request /\ e.captured = {s.flag}
    /\ \A s \in submissions :
         \/ \E e \in events : e.request = s.request /\ e.captured = {s.flag}
         \/ phase[s.request] = "report"
         \/ s.request \in lost

=============================================================================
