-------------------------- MODULE CtfScoring_proofs --------------------------
(***************************************************************************)
(* Theorems about CtfScoring for any number of concurrent submissions.     *)
(***************************************************************************)
EXTENDS CtfScoring, TLAPS

USE CtfAssumption DEF CtfAssumption

(* A request about to insert saw, when it checked, every row that had been *)
(* committed when it arrived, and none of them was a duplicate.            *)
Checked ==
    \A r \in Requests : phase[r] = "insert" =>
        \A f \in flag[r] : \A t \in known[r] : ~(t.team = TeamOf[lab[r]] /\ t.flag = f)

(* A row was inserted by a request that found its flag in its own lab.     *)
FoundInLab ==
    /\ \A r \in Requests : \A f \in flag[r] : LabOfFlag[f] = lab[r]
    /\ \A s \in submissions : s.request \in Requests /\ flag[s.request] = {s.flag}
                              /\ s.team = TeamOf[lab[s.request]]

(* Who has inserted and who has reported.                                  *)
Reported ==
    /\ \A r \in Requests : phase[r] = "report" =>
         \E s \in submissions : s.request = r
    /\ \A r \in Requests : phase[r] \in {"idle", "lookup", "reject"} => flag[r] = {}
    /\ \A s \in submissions : phase[s.request] \in {"report", "done"}
    /\ \A e \in events :
         /\ e.request \in Requests
         /\ e.captured = flag[e.request] /\ phase[e.request] = "done"

IInv == TypeOK /\ Checked /\ FoundInLab /\ Reported /\ CapturesReported

LEMMA InitInv == Init => IInv
BY DEF Init, IInv, TypeOK, Checked, FoundInLab, Reported, CapturesReported, Phases

LEMMA ArriveInv == ASSUME IInv, NEW r \in Requests, Arrive(r) PROVE IInv'
<1> USE DEF IInv, Arrive, Goto, input, Phases
<1>1. TypeOK'
  BY DEF TypeOK
<1>2. Checked'
  BY DEF TypeOK, Checked
<1>3. FoundInLab'
  BY DEF FoundInLab
<1>4. Reported'
  BY DEF TypeOK, FoundInLab, Reported
<1>5. CapturesReported'
  BY DEF TypeOK, FoundInLab, Reported, CapturesReported
<1>6. QED
  BY <1>1, <1>2, <1>3, <1>4, <1>5

LEMMA LookUpInv == ASSUME IInv, NEW r \in Requests, LookUp(r) PROVE IInv'
<1> USE DEF IInv, Goto, input, Phases
<1>1. CASE /\ phase[r] = "lookup"
           /\ Goto(r, "reject")
           /\ UNCHANGED <<flag, input, submissions, events, known, lost, faults>>
  <2>1. TypeOK'
    BY <1>1 DEF TypeOK
  <2>2. Checked' /\ FoundInLab'
    BY <1>1 DEF TypeOK, Checked, FoundInLab
  <2>3. Reported' /\ CapturesReported'
    BY <1>1 DEF TypeOK, FoundInLab, Reported, CapturesReported
  <2>4. QED
    BY <2>1, <2>2, <2>3
<1>2. ASSUME NEW f \in Flags, LabOfFlag[f] = lab[r],
             phase[r] = "lookup", flag' = [flag EXCEPT ![r] = {f}], Goto(r, "check"),
             UNCHANGED <<input, submissions, events, known, lost, faults>>
      PROVE  IInv'
  <2>1. TypeOK'
    BY <1>2 DEF TypeOK
  <2>2. Checked'
    BY <1>2 DEF TypeOK, Checked
  <2>3. \A s \in submissions : s.request # r
    BY <1>2 DEF Reported
  <2>4. \A e \in events : e.request # r
    BY <1>2 DEF Reported
  <2>5. FoundInLab'
    BY <1>2, <2>3 DEF TypeOK, FoundInLab
  <2>6. Reported'
    BY <1>2, <2>3, <2>4 DEF TypeOK, FoundInLab, Reported
  <2>7. CapturesReported'
    BY <1>2, <2>3, <2>4 DEF TypeOK, FoundInLab, CapturesReported
  <2>8. QED
    BY <2>1, <2>2, <2>5, <2>6, <2>7
<1>3. QED
  BY <1>1, <1>2 DEF LookUp, Matching

LEMMA CheckInv == ASSUME IInv, NEW r \in Requests, Check(r) PROVE IInv'
<1> USE DEF IInv, Goto, input, Phases
<1>1. PICK f \in Flags : flag[r] = {f}
  BY DEF Check, TypeOK
<1>2. \/ Captured(r, f) /\ Goto(r, "done")
      \/ ~Captured(r, f) /\ Goto(r, "insert")
  BY <1>1 DEF Check
<1>3. TypeOK'
  BY <1>1, <1>2 DEF Check, TypeOK
<1>4. Checked'
  BY <1>1, <1>2 DEF Check, TypeOK, Checked, Captured
<1>5. FoundInLab'
  BY DEF Check, FoundInLab
<1>6. Reported' /\ CapturesReported'
  BY <1>1, <1>2 DEF Check, TypeOK, FoundInLab, Reported, CapturesReported
<1>7. QED
  BY <1>3, <1>4, <1>5, <1>6

LEMMA InsertInv == ASSUME IInv, NEW r \in Requests, Insert(r) PROVE IInv'
<1> USE DEF IInv, Goto, input, Phases
<1>1. PICK f \in Flags : flag[r] = {f}
  BY DEF Insert, TypeOK
<1>2. submissions' = submissions \cup {Row(r, f)}
  BY <1>1 DEF Insert
<1>3. /\ Row(r, f) \in [request: Requests, team: {TeamOf[l] : l \in Labs},
                        flag: Flags, lab: Labs]
      /\ Row(r, f).request = r /\ Row(r, f).flag = f /\ Row(r, f).team = TeamOf[lab[r]]
  BY DEF Row, TypeOK
<1>4. TypeOK'
  BY <1>1, <1>2, <1>3 DEF Insert, TypeOK
<1>5. Checked'
  BY DEF Insert, TypeOK, Checked
<1>6. FoundInLab'
  BY <1>1, <1>2, <1>3 DEF Insert, FoundInLab
<1>7. Reported' /\ CapturesReported'
  BY <1>1, <1>2, <1>3 DEF Insert, TypeOK, FoundInLab, Reported, CapturesReported
<1>8. QED
  BY <1>4, <1>5, <1>6, <1>7

LEMMA InsertFailsInv == ASSUME IInv, NEW r \in Requests, InsertFails(r) PROVE IInv'
<1>1. TypeOK'
  BY DEF IInv, InsertFails, Goto, input, Phases, TypeOK
<1>2. Checked' /\ FoundInLab'
  BY DEF IInv, InsertFails, Goto, input, Phases, TypeOK, Checked, FoundInLab
<1>3. \A s \in submissions : s.request \in Requests /\ s.request # r
  BY DEF IInv, InsertFails, FoundInLab, Reported
<1>4. \A e \in events : e.request \in Requests /\ e.request # r
  BY DEF IInv, InsertFails, Reported
<1>5. \A q \in Requests : q # r => phase'[q] = phase[q]
  BY DEF IInv, InsertFails, Goto, TypeOK
<1>6. submissions' = submissions /\ events' = events /\ lost' = lost
  BY DEF InsertFails
<1>7. Reported'
  BY <1>3, <1>4 DEF IInv, InsertFails, Goto, input, Phases, TypeOK, Reported
<1>8. CapturesReported'
  <2>1. ASSUME NEW s \in submissions
        PROVE  \/ \E e \in events : e.request = s.request /\ e.captured = {s.flag}
               \/ phase'[s.request] = "report"
               \/ s.request \in lost
    BY <1>3, <1>5 DEF IInv, CapturesReported
  <2>2. \A e \in events : e.captured # {} =>
          \E s \in submissions : s.request = e.request /\ e.captured = {s.flag}
    BY DEF IInv, CapturesReported
  <2>3. QED
    BY <1>6, <2>1, <2>2 DEF CapturesReported
<1>9. QED
  BY <1>1, <1>2, <1>7, <1>8 DEF IInv

LEMMA ReportInv == ASSUME IInv, NEW r \in Requests, Report(r) PROVE IInv'
<1> USE DEF IInv, Goto, input, Phases
<1>1. /\ events' = events \cup {Event(r)}
      /\ Event(r).request = r /\ Event(r).captured = flag[r]
  BY DEF Report, Event
<1>2. TypeOK'
  BY DEF Report, TypeOK
<1>3. Checked' /\ FoundInLab'
  BY DEF Report, TypeOK, Checked, FoundInLab
<1>4. Reported'
  BY <1>1 DEF Report, TypeOK, FoundInLab, Reported
<1>5. /\ submissions' = submissions /\ lost' = lost
      /\ \A q \in Requests : q # r => phase'[q] = phase[q]
  BY DEF Report, TypeOK
<1>6. CapturesReported'
  <2>1. ASSUME NEW s \in submissions
        PROVE  \/ \E e \in events' : e.request = s.request /\ e.captured = {s.flag}
               \/ phase'[s.request] = "report"
               \/ s.request \in lost
    <3>1. s.request \in Requests /\ flag[s.request] = {s.flag}
      BY DEF FoundInLab
    <3>2. CASE s.request = r
      BY <1>1, <3>1, <3>2
    <3>3. CASE s.request # r
      BY <1>1, <1>5, <3>1, <3>3 DEF CapturesReported
    <3>4. QED
      BY <3>2, <3>3
  <2>2. flag[r] # {} => \E s \in submissions : s.request = r /\ flag[r] = {s.flag}
    BY DEF Report, Reported, FoundInLab
  <2>3. ASSUME NEW e \in events', e.captured # {}
        PROVE  \E s \in submissions : s.request = e.request /\ e.captured = {s.flag}
    BY <1>1, <2>2, <2>3 DEF CapturesReported
  <2>4. QED
    BY <1>5, <2>1, <2>3 DEF CapturesReported
<1>7. QED
  BY <1>2, <1>3, <1>4, <1>6

LEMMA ReportFailsInv == ASSUME IInv, NEW r \in Requests, ReportFails(r) PROVE IInv'
<1> USE DEF IInv, ReportFails, Goto, input, Phases
<1>1. TypeOK'
  BY DEF TypeOK
<1>2. Checked' /\ FoundInLab'
  BY DEF TypeOK, Checked, FoundInLab
<1>3. Reported' /\ CapturesReported'
  BY DEF TypeOK, FoundInLab, Reported, CapturesReported
<1>4. QED
  BY <1>1, <1>2, <1>3

LEMMA CrashInv == ASSUME IInv, Crash PROVE IInv'
<1> USE DEF IInv, Crash, input, Phases
<1>1. TypeOK'
  BY DEF TypeOK
<1>2. Checked' /\ FoundInLab'
  BY DEF TypeOK, Checked, FoundInLab
<1>3. Reported'
  BY DEF TypeOK, FoundInLab, Reported
<1>4. CapturesReported'
  BY DEF TypeOK, FoundInLab, Reported, CapturesReported
<1>5. QED
  BY <1>1, <1>2, <1>3, <1>4

(* The inductive invariant holds.                                          *)
THEOREM Invariance == Spec => []IInv
<1>1. ASSUME IInv, [Next]_vars PROVE IInv'
  <2>1. ASSUME NEW r \in Requests, Serve(r) PROVE IInv'
    BY <1>1, <2>1, ArriveInv, LookUpInv, CheckInv, InsertInv, InsertFailsInv, ReportInv,
       ReportFailsInv DEF Serve
  <2>2. CASE UNCHANGED vars
    BY <1>1, <2>2 DEF vars, input, IInv, TypeOK, Checked, FoundInLab, Reported,
                      CapturesReported
  <2>3. QED
    BY <1>1, <2>1, <2>2, CrashInv DEF Next
<1>2. QED
  BY <1>1, InitInv, PTL DEF Spec

(* Every variable keeps its type.                                          *)
THEOREM CtfTypes == Spec => []TypeOK
<1>1. IInv => TypeOK
  BY DEF IInv
<1>2. QED
  BY <1>1, Invariance, PTL

(* A capture is credited to the team of the lab that hides the flag.       *)
THEOREM CreditedInOwnLab == Spec => []OwnLabOnly
<1>1. IInv => OwnLabOnly
  BY DEF IInv, TypeOK, FoundInLab, OwnLabOnly
<1>2. QED
  BY <1>1, Invariance, PTL

(* The audit log follows the submissions, however crashes and failed       *)
(* writes fall.                                                            *)
THEOREM AuditFollows == Spec => []CapturesReported
<1>1. IInv => CapturesReported
  BY DEF IInv
<1>2. QED
  BY <1>1, Invariance, PTL

(* A duplicate that arrives after the capture was committed is never       *)
(* inserted, for any number of concurrent submissions.                     *)
THEOREM LateDuplicatesRejected == Spec => NoLateDuplicate
<1> DEFINE A == \A s \in submissions' \ submissions :
                  \A t \in known[s.request] : ~(t.team = s.team /\ t.flag = s.flag)
<1>1. ASSUME IInv, [Next]_vars PROVE [A]_vars
  <2>1. ASSUME NEW r \in Requests, Insert(r) PROVE A
    <3>1. PICK f \in flag[r] : submissions' = submissions \cup {Row(r, f)}
      BY <2>1 DEF Insert
    <3>2. Row(r, f).request = r /\ Row(r, f).flag = f /\ Row(r, f).team = TeamOf[lab[r]]
      BY DEF Row
    <3>3. QED
      BY <1>1, <2>1, <3>1, <3>2 DEF IInv, Checked, Insert
  <2>2. CASE UNCHANGED submissions
    BY <2>2
  <2>3. QED
    BY <1>1, <2>1, <2>2 DEF Next, Serve, Crash, Arrive, LookUp, Check, InsertFails, Report,
                            ReportFails, vars
<1>2. QED
  BY <1>1, Invariance, PTL DEF Spec, NoLateDuplicate

=============================================================================
