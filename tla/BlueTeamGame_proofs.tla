-------------------------- MODULE BlueTeamGame_proofs --------------------------
(***************************************************************************)
(* Proofs about BlueTeamGame.                                              *)
(*                                                                         *)
(* The argument: a row is locked by one actor at a time (Exclusive), and a *)
(* committed row is changed only by the holder of its lock.  So what an    *)
(* actor read when it took a lock is still true when it commits            *)
(* (RequestInv, SocInv), and each commit is one step of DefenseLedger.     *)
(***************************************************************************)
EXTENDS BlueTeamGame, FiniteSetTheorems, TLAPS

Open == {"authorized", "logLocked", "locked"}

Exclusive ==
    \A a, b \in Actors : a # b => holds[a] \cap holds[b] = {}

Investigates(r) == job[r].kind = "investigate"

(* What a request may rely on in each phase.                               *)
RequestInv(r) ==
    /\ phase[r] \in {"idle", "authorized", "done"} => holds[r] = {}
    /\ phase[r] \in Open => job[r] \in Jobs /\ job[r].session = job[r].lab
    /\ phase[r] = "logLocked" => Investigates(r)
    /\ phase[r] \in {"logLocked", "locked"} /\ Investigates(r) =>
         job[r].event \in holds[r] /\ Pending(job[r].event)
    /\ phase[r] = "locked" =>
         job[r].session \in holds[r] /\ view[r] = session[job[r].session]

(* What the worker may rely on.                                            *)
SocInv ==
    /\ holds[Soc] \subseteq Events
    /\ socPhase \notin {"closing", "saving"} => holds[Soc] = {}
    /\ \A e \in holds[Soc] : SoloPending(e)
    /\ socPhase = "closing" => holds[Soc] \subseteq RuleJudged
    /\ socPhase = "saving" => \E e \in Events \ RuleJudged : holds[Soc] = {e}
    /\ batch \cap RuleJudged = {}
    /\ \A e \in batch : LabOf[e] \in SoloLabs

(* An open row carries no verdict yet and no points; a closed one was      *)
(* written.                                                                *)
RowInv ==
    \A e \in Events :
        /\ log[e].investigated => log[e].timestamp > 0
        /\ ~log[e].investigated =>
             log[e].by = NoPlayer /\ ~log[e].compromised /\ credited[e] = 0

Inv ==
    /\ TypeOK
    /\ Exclusive
    /\ \A r \in Requests : RequestInv(r)
    /\ SocInv
    /\ RowInv

USE GameAssumption, ActorAssumption
  DEF GameAssumption, ActorAssumption, Actors

-----------------------------------------------------------------------------
(* Data *)

(* The fields of a request to investigate or to buy.                       *)
LEMMA JobFields ==
    ASSUME NEW j \in Jobs
    PROVE  /\ j.lab \in Labs
           /\ j.session \in Labs
           /\ j.kind \in {"investigate", "buy"}
           /\ j.kind = "investigate" => j.event \in Events /\ j.claim \in BOOLEAN
           /\ j.kind = "buy" => j.defense \in Defenses
  BY DEF Jobs

(* A verdict earns a natural number of points.                             *)
LEMMA CreditType ==
    ASSUME NEW claim \in BOOLEAN, NEW e \in Events
    PROVE  Credit(claim, e) \in Nat
  BY DEF Credit

LEMMA InitInv == Init => Inv
<1> SUFFICES ASSUME Init PROVE Inv
  OBVIOUS
<1> USE DEF Init, Ledger!Init, Ledger!UnwrittenRow, Ledger!FreshSession
<1>1. TypeOK
  BY DEF TypeOK, LogRow, UnwrittenRow, SessionRow, FreshSession, NoJob
<1>2. Exclusive
  BY DEF Exclusive
<1>3. ASSUME NEW r \in Requests PROVE RequestInv(r)
  BY DEF RequestInv, Open
<1>4. SocInv
  BY DEF SocInv
<1>5. RowInv
  BY DEF RowInv, UnwrittenRow
<1> QED
  BY <1>1, <1>2, <1>3, <1>4, <1>5 DEF Inv

LEMMA StutterInv == Inv /\ UNCHANGED vars => Inv'
  BY DEF Inv, TypeOK, Exclusive, RequestInv, SocInv, RowInv, vars, rows,
         requestVars, socVars, Investigates, Pending, Written, SoloPending

-----------------------------------------------------------------------------
(* Frame: what a step of one actor leaves alone *)

(* A step of actor a changes only rows that a has locked, and only a's     *)
(* locks; it may write new log rows.                                       *)
Frame(a) ==
    /\ \A e \in Events : Written(e) /\ e \notin holds[a] => log'[e] = log[e]
    /\ \A l \in Labs : l \notin holds[a] => session'[l] = session[l]
    /\ \A b \in Actors : b # a => holds'[b] = holds[b]

(* What another request relies on stays true.                              *)
LEMMA RequestUndisturbed ==
    ASSUME Inv, NEW a \in Actors, NEW q \in Requests, q # a, Frame(a),
           phase'[q] = phase[q], job'[q] = job[q], view'[q] = view[q]
    PROVE  RequestInv(q)'
<1> USE DEF RequestInv, Investigates
<1>1. RequestInv(q) /\ holds'[q] = holds[q] /\ holds[q] \cap holds[a] = {}
  BY DEF Inv, Exclusive, Frame
<1>2. (phase[q] \in {"idle", "authorized", "done"} => holds[q] = {})'
  BY <1>1
<1>3. (phase[q] \in Open => job[q] \in Jobs /\ job[q].session = job[q].lab)'
  BY <1>1 DEF Open
<1>4. (phase[q] = "logLocked" => Investigates(q))'
  BY <1>1
<1>5. ASSUME phase'[q] \in {"logLocked", "locked"}, job'[q].kind = "investigate"
      PROVE  (job[q].event \in holds[q] /\ Pending(job[q].event))'
  <2>1. job[q].event \in Events
    BY <1>1, <1>5, JobFields DEF Open
  <2>2. job[q].event \in holds[q] /\ Pending(job[q].event)
    BY <1>1, <1>5
  <2>3. log'[job[q].event] = log[job[q].event]
    BY <1>1, <2>1, <2>2 DEF Frame, Pending
  <2> QED
    BY <1>1, <2>2, <2>3 DEF Pending, Written
<1>6. ASSUME phase'[q] = "locked"
      PROVE  (job[q].session \in holds[q] /\ view[q] = session[job[q].session])'
  <2>1. job[q].session \in Labs
    BY <1>1, <1>6, JobFields DEF Open
  <2> QED
    BY <1>1, <1>6, <2>1 DEF Frame
<1> QED
  BY <1>2, <1>3, <1>4, <1>5, <1>6

(* What the worker relies on stays true.                                   *)
LEMMA SocUndisturbed ==
    ASSUME Inv, NEW r \in Requests, Frame(r), UNCHANGED socVars
    PROVE  SocInv'
<1>1. SocInv /\ holds'[Soc] = holds[Soc] /\ holds[Soc] \cap holds[r] = {}
  BY DEF Inv, Exclusive, Frame
<1>2. ASSUME NEW e \in holds[Soc] PROVE SoloPending(e)'
  BY <1>1, <1>2 DEF Frame, SocInv, SoloPending, Pending, Written
<1> QED
  BY <1>1, <1>2 DEF SocInv, socVars

(* Locking a free row, or giving up locks, leaves one holder per row.      *)
LEMMA StillExclusive ==
    ASSUME Inv, NEW a \in Actors, NEW S \in SUBSET (Events \cup Labs),
           \A row \in S : row \in holds[a] \/ Free(row),
           holds' = [holds EXCEPT ![a] = S]
    PROVE  Exclusive'
  BY DEF Inv, TypeOK, Exclusive, Free

(* Rows that did not change are as they were.                              *)
LEMMA SameRows ==
    ASSUME Inv, UNCHANGED rows
    PROVE  RowInv' /\ \A a \in Actors :
             (\A b \in Actors : b # a => holds'[b] = holds[b]) => Frame(a)
  BY DEF Inv, RowInv, Frame, rows

-----------------------------------------------------------------------------
(* Requests *)

(* Leaving, with or without a commit: the request keeps nothing.           *)
LEMMA LeaveInv ==
    ASSUME Inv, NEW r \in Requests, Leave(r), Frame(r), UNCHANGED socVars
    PROVE  /\ Exclusive'
           /\ \A q \in Requests : RequestInv(q)'
           /\ SocInv'
<1>1. Exclusive'
  BY StillExclusive DEF Leave
<1>2. ASSUME NEW q \in Requests, q # r PROVE RequestInv(q)'
  BY <1>2, RequestUndisturbed DEF Leave, Goto, Inv, TypeOK
<1>3. RequestInv(r)'
  BY DEF Leave, Goto, Inv, TypeOK, RequestInv, Open
<1>4. SocInv'
  BY SocUndisturbed
<1> QED
  BY <1>1, <1>2, <1>3, <1>4

LEMMA RefuseInv ==
    ASSUME Inv, NEW r \in Requests, Refuse(r)
    PROVE  Inv'
<1>1. TypeOK'
  BY DEF Inv, TypeOK, Refuse, Leave, Goto, rows, socVars, SessionRow, FreshSession, NoJob
<1>2. RowInv' /\ Frame(r)
  BY SameRows DEF Refuse, Leave, Inv, TypeOK
<1> QED
  BY <1>1, <1>2, LeaveInv DEF Refuse, Inv

LEMMA AuthorizeInv ==
    ASSUME Inv, NEW r \in Requests, NEW j \in Jobs, Authorize(r, j)
    PROVE  Inv'
<1> USE DEF Authorize, Goto
<1>1. TypeOK'
  BY JobFields DEF Inv, TypeOK, rows, socVars
<1>2. RowInv' /\ Frame(r)
  BY SameRows
<1>3. Exclusive'
  BY DEF Inv, Exclusive
<1>4. ASSUME NEW q \in Requests, q # r PROVE RequestInv(q)'
  BY <1>2, <1>4, RequestUndisturbed DEF Inv, TypeOK
<1>5. RequestInv(r)'
  BY DEF Inv, TypeOK, RequestInv, Open, Authorized
<1>6. SocInv'
  BY <1>2, SocUndisturbed
<1> QED
  BY <1>1, <1>2, <1>3, <1>4, <1>5, <1>6 DEF Inv

LEMMA LockLogInv ==
    ASSUME Inv, NEW r \in Requests, LockLog(r)
    PROVE  Inv'
<1> DEFINE e == job[r].event
<1>1. job[r] \in Jobs /\ Investigates(r) /\ holds[r] = {}
  BY DEF Inv, RequestInv, Open, LockLog, Investigates
<1>2. e \in Events
  BY <1>1, JobFields DEF Investigates
<1>3. CASE Refuse(r)
  BY <1>3, RefuseInv
<1>4. CASE /\ Written(e) /\ Free(e) /\ ~AlreadyInvestigated(e)
           /\ holds' = [holds EXCEPT ![r] = @ \cup {e}]
           /\ Goto(r, "logLocked")
           /\ UNCHANGED <<rows, job, view, socVars, faults>>
  <2>1. TypeOK'
    BY <1>2, <1>4 DEF Inv, TypeOK, Goto, rows, socVars
  <2>2. holds' = [holds EXCEPT ![r] = {e}]
    BY <1>1, <1>4 DEF Inv, TypeOK
  <2>3. RowInv' /\ Frame(r)
    BY <1>4, <2>2, SameRows DEF Inv, TypeOK
  <2>4. Exclusive'
    <3>1. {e} \in SUBSET (Events \cup Labs)
      BY <1>2
    <3>2. \A row \in {e} : row \in holds[r] \/ Free(row)
      BY <1>4
    <3> QED
      BY <2>2, <3>1, <3>2, StillExclusive
  <2>5. ASSUME NEW q \in Requests, q # r PROVE RequestInv(q)'
    BY <1>4, <2>3, <2>5, RequestUndisturbed DEF Goto, Inv, TypeOK
  <2>6. RequestInv(r)'
    BY <1>1, <1>2, <1>4, <2>2 DEF Inv, TypeOK, RequestInv, Open, Goto, Investigates,
       Pending, Written, AlreadyInvestigated, LockLog, rows
  <2>7. SocInv'
    BY <1>4, <2>3, SocUndisturbed
  <2> QED
    BY <2>1, <2>3, <2>4, <2>5, <2>6, <2>7 DEF Inv
<1> QED
  BY <1>3, <1>4 DEF LockLog

LEMMA LockSessionInv ==
    ASSUME Inv, NEW r \in Requests, LockSession(r)
    PROVE  Inv'
<1> DEFINE l == job[r].session
<1>1. job[r] \in Jobs /\ phase[r] \in {"authorized", "logLocked"}
  BY DEF Inv, RequestInv, Open, LockSession
<1>2. l \in Labs
  BY <1>1, JobFields
<1>3. TypeOK'
  BY <1>2 DEF Inv, TypeOK, LockSession, Goto, LockedRow, rows, socVars
<1>4. RowInv' /\ Frame(r)
  BY SameRows DEF Inv, TypeOK, LockSession
<1>5. Exclusive'
  <2> DEFINE S == holds[r] \cup {l}
  <2>1. S \in SUBSET (Events \cup Labs)
    BY <1>2 DEF Inv, TypeOK
  <2>2. \A row \in S : row \in holds[r] \/ Free(row)
    BY DEF LockSession
  <2>3. holds' = [holds EXCEPT ![r] = S]
    BY DEF LockSession, Inv, TypeOK
  <2> HIDE DEF S
  <2> QED
    BY <2>1, <2>2, <2>3, StillExclusive
<1>6. ASSUME NEW q \in Requests, q # r PROVE RequestInv(q)'
  BY <1>4, <1>6, RequestUndisturbed DEF LockSession, Goto, Inv, TypeOK
<1>7. RequestInv(r)'
  <2>1. /\ phase'[r] = "locked" /\ job' = job /\ UNCHANGED rows
        /\ holds'[r] = holds[r] \cup {l} /\ view'[r] = session[l]
    BY DEF LockSession, Goto, LockedRow, Inv, TypeOK
  <2>2. phase[r] = "authorized" => ~Investigates(r)
    BY DEF LockSession, Investigates
  <2> QED
    BY <1>1, <2>1, <2>2 DEF Inv, RequestInv, Open, Investigates, Pending, Written, rows
<1>8. SocInv'
  BY <1>4, SocUndisturbed DEF LockSession
<1> QED
  BY <1>3, <1>4, <1>5, <1>6, <1>7, <1>8 DEF Inv

(* What a request that commits knows: its rows are its own, as it read     *)
(* them, and for an investigation the log row is open.                     *)
LEMMA CommitFacts ==
    ASSUME Inv, NEW r \in Requests, phase[r] = "locked"
    PROVE  /\ job[r] \in Jobs
           /\ job[r].session \in Labs
           /\ job[r].lab = job[r].session
           /\ job[r].session \in holds[r]
           /\ view[r] = session[job[r].session]
           /\ Investigates(r) =>
                /\ job[r].event \in Events
                /\ job[r].claim \in BOOLEAN
                /\ job[r].event \in holds[r]
                /\ Pending(job[r].event)
  BY JobFields DEF Inv, RequestInv, Open, Investigates

LEMMA CommitInvestigationInv ==
    ASSUME Inv, NEW r \in Requests, CommitInvestigation(r)
    PROVE  Inv'
<1> DEFINE e == job[r].event
           l == job[r].session
           points == Credit(job[r].claim, e)
<1>1. /\ e \in Events /\ l \in Labs /\ job[r].lab \in Labs
      /\ e \in holds[r] /\ l \in holds[r]
      /\ points \in Nat
  BY CommitFacts, CreditType DEF CommitInvestigation, Investigates
<1>2. /\ log' = [log EXCEPT ![e] = PlayerVerdict(@, e, job[r].lab)]
      /\ session' = [session EXCEPT ![l] = [budget |-> view[r].budget + points,
                                            active |-> session[l].active]]
      /\ credited' = [credited EXCEPT ![e] = @ + points]
      /\ Leave(r)
      /\ UNCHANGED <<now, socVars, faults>>
  BY <1>1 DEF CommitInvestigation, Inv, TypeOK
<1> HIDE DEF points, e, l
<1>3. PlayerVerdict(log[e], e, job[r].lab) \in LogRow
  BY <1>1 DEF Inv, TypeOK, LogRow, PlayerVerdict
<1>4. view[r].budget + points \in Nat
  BY <1>1 DEF Inv, TypeOK, SessionRow
<1>5. TypeOK'
  <2>1. /\ log' \in [Events -> LogRow]
        /\ credited' \in [Events -> Nat]
    BY <1>1, <1>2, <1>3 DEF Inv, TypeOK
  <2>2. session' \in [Labs -> SessionRow]
    BY <1>1, <1>2, <1>4 DEF Inv, TypeOK, SessionRow
  <2> QED
    BY <1>2, <2>1, <2>2 DEF Inv, TypeOK, Leave, Goto, socVars, SessionRow, FreshSession, NoJob
<1>6. Frame(r)
  BY <1>1, <1>2 DEF Inv, TypeOK, Frame, Leave
<1>7. RowInv'
  <2>1. log[e].timestamp > 0
    BY CommitFacts DEF CommitInvestigation, Investigates, Pending, Written, e
  <2> QED
    BY <1>1, <1>2, <2>1 DEF Inv, TypeOK, RowInv, PlayerVerdict, LogRow
<1> QED
  BY <1>2, <1>5, <1>6, <1>7, LeaveInv DEF Inv

LEMMA CommitPurchaseInv ==
    ASSUME Inv, NEW r \in Requests, CommitPurchase(r)
    PROVE  Inv'
<1> DEFINE l == job[r].session
           d == job[r].defense
           row == [budget |-> view[r].budget - Price[d], active |-> session[l].active \cup {d}]
<1>1. l \in Labs /\ d \in Defenses /\ l \in holds[r]
  BY CommitFacts, JobFields DEF CommitPurchase
<1>2. /\ session' = [session EXCEPT ![l] = row]
      /\ Leave(r)
      /\ UNCHANGED <<log, now, credited, socVars, faults>>
  BY <1>1 DEF CommitPurchase, Inv, TypeOK
<1>3. row \in SessionRow
  BY <1>1 DEF CommitPurchase, Affordable, Inv, TypeOK, SessionRow
<1> HIDE DEF l, d, row
<1>4. TypeOK'
  BY <1>1, <1>2, <1>3 DEF Inv, TypeOK, Leave, Goto, socVars, SessionRow, FreshSession, NoJob
<1>5. Frame(r)
  BY <1>1, <1>2 DEF Inv, TypeOK, Frame, Leave
<1>6. RowInv'
  BY <1>2 DEF Inv, RowInv
<1> QED
  BY <1>2, <1>4, <1>5, <1>6, LeaveInv DEF Inv

LEMMA RequestStepInv ==
    ASSUME Inv, NEW r \in Requests,
           Serve(r) \/ RequestFails(r) \/ \E j \in Jobs : Authorize(r, j)
    PROVE  Inv'
  BY AuthorizeInv, LockLogInv, LockSessionInv, CommitInvestigationInv, CommitPurchaseInv,
     RefuseInv DEF Serve, RequestFails, RefuseForeignLog, RefusePurchase

-----------------------------------------------------------------------------
(* Events, the worker, crashes *)

LEMMA WriteEventInv ==
    ASSUME Inv, NEW e \in Events, WriteEvent(e)
    PROVE  Inv'
<1>1. TypeOK'
  <2>1. log \in [Events -> LogRow] /\ now \in Nat /\ now + 1 \in Nat
    BY DEF Inv, TypeOK
  <2>2. [log[e] EXCEPT !.timestamp = now + 1] \in LogRow
    BY <2>1 DEF LogRow
  <2>3. log' \in [Events -> LogRow] /\ now' \in Nat
    BY <2>1, <2>2 DEF WriteEvent
  <2> QED
    BY <2>3 DEF WriteEvent, Inv, TypeOK, requestVars, socVars
<1> USE DEF WriteEvent
<1>2. \A f \in Events : Written(f) => log'[f] = log[f]
  BY DEF Inv, TypeOK, Written
<1>3. \A a \in Actors : Frame(a)
  BY <1>2 DEF Frame
<1>4. RowInv'
  BY DEF Inv, TypeOK, RowInv, LogRow
<1>5. Exclusive'
  BY DEF Inv, Exclusive
<1>6. ASSUME NEW q \in Requests PROVE RequestInv(q)'
  BY <1>3, RequestUndisturbed DEF requestVars
<1>7. SocInv'
  <2>1. \A f \in holds[Soc] : SoloPending(f)'
    BY <1>2 DEF Inv, SocInv, SoloPending, Pending, Written
  <2> QED
    BY <2>1 DEF Inv, SocInv, socVars
<1> QED
  BY <1>1, <1>4, <1>5, <1>6, <1>7 DEF Inv

(* A step of the worker that changes no row and no request keeps all but   *)
(* its own part of the invariant.                                          *)
LEMMA SocReadsInv ==
    ASSUME Inv, UNCHANGED <<rows, requestVars>>,
           \/ UNCHANGED holds
           \/ \E S \in SUBSET Events :
                /\ \A e \in S : e \in holds[Soc] \/ Free(e)
                /\ holds' = [holds EXCEPT ![Soc] = S]
    PROVE  Exclusive' /\ RowInv' /\ \A q \in Requests : RequestInv(q)'
<1>1. \A b \in Actors : b # Soc => holds'[b] = holds[b]
  BY DEF Inv, TypeOK
<1>2. RowInv' /\ Frame(Soc)
  BY <1>1, SameRows
<1>3. \A q \in Requests : RequestInv(q)'
  BY <1>2, RequestUndisturbed DEF requestVars
<1>4. Exclusive'
  <2>1. CASE UNCHANGED holds
    BY <2>1 DEF Inv, Exclusive
  <2>2. CASE ~UNCHANGED holds
    BY <2>2, StillExclusive
  <2> QED
    BY <2>1, <2>2
<1> QED
  BY <1>2, <1>3, <1>4

(* The worker closes rows it holds.                                        *)
LEMMA SocClosesInv ==
    ASSUME Inv, NEW answer \in [Events -> BOOLEAN],
           log' = [e \in Events |->
                     IF e \in holds[Soc] THEN SocVerdict(log[e], answer[e]) ELSE log[e]],
           holds' = [holds EXCEPT ![Soc] = {}],
           UNCHANGED <<now, session, credited, requestVars>>
    PROVE  /\ log' \in [Events -> LogRow]
           /\ Exclusive' /\ RowInv' /\ \A q \in Requests : RequestInv(q)'
<1>1. log' \in [Events -> LogRow]
  BY DEF Inv, TypeOK, LogRow, SocVerdict
<1>2. Frame(Soc)
  BY DEF Inv, TypeOK, Frame
<1>3. Exclusive'
  BY StillExclusive
<1>4. RowInv'
  <2>1. \A e \in holds[Soc] : log[e].timestamp > 0
    BY DEF Inv, SocInv, SoloPending, Pending, Written
  <2> QED
    BY <2>1 DEF Inv, TypeOK, RowInv, SocVerdict
<1>5. \A q \in Requests : RequestInv(q)'
  BY <1>2, RequestUndisturbed DEF requestVars
<1> QED
  BY <1>1, <1>3, <1>4, <1>5

LEMMA SocLockRulesInv ==
    ASSUME Inv, SocLockRules
    PROVE  Inv'
<1> DEFINE S == Oldest(RulePending, RuleBatchSize)
<1>1. S \subseteq RulePending /\ RulePending \subseteq Events
  BY DEF Oldest, RulePending
<1>2. /\ holds' = [holds EXCEPT ![Soc] = S]
      /\ socPhase' = "closing"
      /\ UNCHANGED <<rows, requestVars, batch, verdict, outage, faults>>
  BY DEF SocLockRules, SocGoto
<1>3. \A e \in S : Free(e) /\ SoloPending(e) /\ e \in RuleJudged
  BY <1>1 DEF RulePending
<1> HIDE DEF S
<1>4. TypeOK'
  BY <1>1, <1>2 DEF Inv, TypeOK, rows, requestVars
<1>5. Exclusive' /\ RowInv' /\ \A q \in Requests : RequestInv(q)'
  <2>1. S \in SUBSET Events
    BY <1>1
  <2> QED
    BY <1>2, <1>3, <2>1, SocReadsInv
<1>6. SocInv'
  BY <1>1, <1>2, <1>3 DEF Inv, TypeOK, SocInv, SoloPending, Pending, Written, rows
<1> QED
  BY <1>4, <1>5, <1>6 DEF Inv

LEMMA SocCloseRulesInv ==
    ASSUME Inv, SocCloseRules
    PROVE  Inv'
<1> USE DEF SocCloseRules, SocGoto
<1> DEFINE rule == [e \in Events |-> e \in Malicious]
<1>1. rule \in [Events -> BOOLEAN]
  OBVIOUS
<1>2. log' = [e \in Events |->
                IF e \in holds[Soc] THEN SocVerdict(log[e], rule[e]) ELSE log[e]]
  OBVIOUS
<1> HIDE DEF rule
<1>3. /\ log' \in [Events -> LogRow]
      /\ Exclusive' /\ RowInv' /\ \A q \in Requests : RequestInv(q)'
  BY <1>1, <1>2, SocClosesInv
<1>4. TypeOK'
  BY <1>3 DEF Inv, TypeOK, requestVars
<1>5. SocInv'
  BY DEF Inv, TypeOK, SocInv
<1> QED
  BY <1>3, <1>4, <1>5 DEF Inv

LEMMA SocSaveVerdictInv ==
    ASSUME Inv, NEW e \in Events, SocSaveVerdict(e)
    PROVE  Inv'
<1> USE DEF SocSaveVerdict, SocGoto, NextEvent
<1> DEFINE answer == [f \in Events |-> verdict]
<1>1. answer \in [Events -> BOOLEAN]
  BY DEF Inv, TypeOK
<1>2. log' = [f \in Events |->
                IF f \in holds[Soc] THEN SocVerdict(log[f], answer[f]) ELSE log[f]]
  <2>1. holds[Soc] = {e}
    BY DEF Inv, SocInv
  <2> QED
    BY <2>1 DEF Inv, TypeOK
<1> HIDE DEF answer
<1>3. /\ log' \in [Events -> LogRow]
      /\ Exclusive' /\ RowInv' /\ \A q \in Requests : RequestInv(q)'
  BY <1>1, <1>2, SocClosesInv
<1>4. TypeOK'
  BY <1>3 DEF Inv, TypeOK, requestVars
<1>5. SocInv'
  BY DEF Inv, TypeOK, SocInv
<1> QED
  BY <1>3, <1>4, <1>5 DEF Inv

LEMMA SocLockVerdictInv ==
    ASSUME Inv, NEW e \in Events, SocLockVerdict(e)
    PROVE  Inv'
<1> USE DEF SocLockVerdict, SocGoto, NextEvent
<1>1. TypeOK'
  BY DEF Inv, TypeOK, rows, requestVars
<1>2. Exclusive' /\ RowInv' /\ \A q \in Requests : RequestInv(q)'
  <2>1. CASE Savable(e)
    <3>1. {e} \in SUBSET Events /\ \A f \in {e} : Free(f)
      BY <2>1 DEF Savable
    <3> QED
      BY <2>1, <3>1, SocReadsInv
  <2>2. CASE ~Savable(e)
    BY <2>2, SocReadsInv
  <2> QED
    BY <2>1, <2>2
<1>3. SocInv'
  <2>1. e \in Events \ RuleJudged /\ LabOf[e] \in SoloLabs
    BY DEF Inv, SocInv, Current
  <2>2. CASE Savable(e)
    BY <2>1, <2>2 DEF Inv, TypeOK, SocInv, Savable, SoloPending, Pending, Written, rows
  <2>3. CASE ~Savable(e)
    BY <2>3 DEF Inv, TypeOK, SocInv, SoloPending, Pending, Written, rows
  <2> QED
    BY <2>2, <2>3
<1> QED
  BY <1>1, <1>2, <1>3 DEF Inv

(* The other steps of the worker take no lock; some drop them.             *)
LEMMA SocOtherInv ==
    ASSUME Inv,
           \/ SocRulesFail \/ SocFetch \/ SocOutage \/ SocPassFails \/ SocWakes
           \/ \E e \in Events : SocAnalyse(e) \/ SocAnalysisFails(e)
    PROVE  Inv'
<1> USE DEF SocRulesFail, SocFetch, SocOutage, SocPassFails, SocWakes, SocAnalyse,
            SocAnalysisFails, LeavePending, NextEvent, EndPass, SocGoto, Fault
<1>1. batch' \subseteq batch \/ batch' \subseteq ModelPending
  BY DEF Oldest
<1>2. UNCHANGED <<rows, requestVars>> /\
      (UNCHANGED holds \/ holds' = [holds EXCEPT ![Soc] = {}])
  OBVIOUS
<1>3. TypeOK'
  <2>1. batch' \subseteq Events
    BY <1>1 DEF Inv, TypeOK, ModelPending
  <2>2. socPhase' \in {"rules", "closing", "fetch", "analyse", "save", "saving", "sleep"}
    BY DEF Inv, TypeOK
  <2>3. verdict' \in BOOLEAN /\ outage' \in BOOLEAN
    BY Zenon DEF Inv, TypeOK
  <2>5. faults' \in Nat
    BY DEF Inv, TypeOK
  <2>4. holds' \in [Actors -> SUBSET (Events \cup Labs)]
    BY <1>2 DEF Inv, TypeOK
  <2> QED
    BY <1>2, <2>1, <2>2, <2>3, <2>4, <2>5 DEF TypeOK, Inv, rows, requestVars
<1>4. Exclusive' /\ RowInv' /\ \A q \in Requests : RequestInv(q)'
  <2>1. {} \in SUBSET Events
    OBVIOUS
  <2> QED
    BY <1>2, <2>1, SocReadsInv
<1>5. SocInv'
  <2>1. holds'[Soc] = {}
    BY <1>2 DEF Inv, TypeOK, SocInv
  <2>2. \A e \in batch' : e \notin RuleJudged /\ LabOf[e] \in SoloLabs
    BY <1>1 DEF Inv, SocInv, ModelPending, SoloPending
  <2>3. socPhase' # "saving"
    OBVIOUS
  <2> QED
    BY <2>1, <2>2, <2>3 DEF SocInv
<1> QED
  BY <1>3, <1>4, <1>5 DEF Inv

LEMMA CrashInv ==
    ASSUME Inv, Crash
    PROVE  Inv'
<1> USE DEF Crash, Fault, SocGoto
<1>1. TypeOK'
  <2>1. FreshSession \in SessionRow
    BY DEF SessionRow, FreshSession
  <2>2. /\ holds' \in [Actors -> SUBSET (Events \cup Labs)]
        /\ phase' \in [Requests -> {"idle", "authorized", "logLocked", "locked", "done"}]
        /\ job' \in [Requests -> Jobs \cup {NoJob}]
        /\ view' \in [Requests -> SessionRow]
    BY <2>1
  <2>3. faults' \in Nat
    BY DEF Inv, TypeOK
  <2> QED
    BY <2>2, <2>3 DEF Inv, TypeOK, rows
<1>2. Exclusive' /\ SocInv' /\ \A q \in Requests : RequestInv(q)'
  BY DEF Inv, TypeOK, Exclusive, SocInv, RequestInv, Open
<1>3. RowInv'
  BY DEF Inv, RowInv, rows
<1> QED
  BY <1>1, <1>2, <1>3 DEF Inv

LEMMA NextInv == Inv /\ [Next]_vars => Inv'
<1> SUFFICES ASSUME Inv, [Next]_vars PROVE Inv'
  OBVIOUS
<1>1. CASE \E e \in Events : WriteEvent(e)
  BY <1>1, WriteEventInv
<1>2. CASE \E r \in Requests :
             (\E j \in Jobs : Authorize(r, j)) \/ Serve(r) \/ RequestFails(r)
  BY <1>2, RequestStepInv
<1>3. CASE SocStep
  BY <1>3, SocLockRulesInv, SocCloseRulesInv, SocLockVerdictInv, SocSaveVerdictInv,
     SocOtherInv DEF SocStep
<1>4. CASE Crash
  BY <1>4, CrashInv
<1>5. CASE UNCHANGED vars
  BY <1>5, StutterInv
<1> QED
  BY <1>1, <1>2, <1>3, <1>4, <1>5 DEF Next

(* The inductive invariant holds in every reachable state.                 *)
THEOREM Invariance == Spec => []Inv
  BY InitInv, NextInv, PTL DEF Spec

(* Every variable keeps its type; no budget ever becomes negative.         *)
THEOREM TypeCorrectness == Spec => []TypeOK
<1>1. Inv => TypeOK
  BY DEF Inv
<1> QED
  BY <1>1, Invariance, PTL

-----------------------------------------------------------------------------
(* Refinement *)

LEMMA WriteEventRecords ==
    ASSUME Inv, NEW e \in Events, WriteEvent(e)
    PROVE  Ledger!Record(e)
  BY DEF Inv, TypeOK, LogRow, WriteEvent, Written, Ledger!Record

(* The commit of an investigation is one indivisible judgement, because    *)
(* the request holds both rows and read them after locking them.           *)
LEMMA CommitInvestigationJudges ==
    ASSUME Inv, NEW r \in Requests, CommitInvestigation(r)
    PROVE  Ledger!Judge(job[r].event, job[r].claim)
<1> DEFINE e == job[r].event
           l == job[r].session
<1>1. /\ e \in Events /\ l \in Labs /\ job[r].lab = l /\ LabOf[e] = l
      /\ Pending(e) /\ view[r] = session[l] /\ job[r].claim \in BOOLEAN
  BY CommitFacts DEF CommitInvestigation, Investigates, SameLab
<1>2. credited[e] = 0 /\ Credit(job[r].claim, e) \in Nat
  BY <1>1, CreditType DEF Inv, RowInv, Pending
<1> QED
  BY <1>1, <1>2 DEF CommitInvestigation, Ledger!Judge, Ledger!Open, Pending, Written,
     Ledger!Credit, Credit, Ledger!PlayerVerdict, PlayerVerdict, Inv, TypeOK

LEMMA CommitPurchaseBuys ==
    ASSUME Inv, NEW r \in Requests, CommitPurchase(r)
    PROVE  Ledger!Purchase(job[r].session, job[r].defense)
  BY CommitFacts DEF CommitPurchase, Owned, Affordable, Ledger!Purchase, Inv, TypeOK

LEMMA SocCloseRulesCloses ==
    ASSUME Inv, SocCloseRules
    PROVE  Ledger!CloseByRule(holds[Soc])
  BY DEF SocCloseRules, Ledger!CloseByRule, Ledger!Open, Ledger!SocVerdict, SocVerdict,
     Inv, SocInv, SoloPending, Pending, Written

LEMMA SocSaveVerdictCloses ==
    ASSUME Inv, NEW e \in Events, SocSaveVerdict(e)
    PROVE  Ledger!CloseByModel(e, verdict)
  BY DEF SocSaveVerdict, Ledger!CloseByModel, Ledger!Open, Ledger!SocVerdict, SocVerdict,
     Inv, SocInv, SoloPending, Pending, Written

LEMMA StepSimulation == Inv /\ [Next]_vars => [Ledger!Next]_rows
<1> SUFFICES ASSUME Inv, [Next]_vars PROVE Ledger!Next \/ UNCHANGED rows
  OBVIOUS
<1> USE DEF Ledger!Next
<1>1. CASE \E e \in Events : WriteEvent(e)
  BY <1>1, WriteEventRecords
<1>2. ASSUME NEW r \in Requests,
             (\E j \in Jobs : Authorize(r, j)) \/ Serve(r) \/ RequestFails(r)
      PROVE  Ledger!Next \/ UNCHANGED rows
  <2>1. CASE CommitInvestigation(r)
    <3>1. job[r].event \in Events /\ job[r].claim \in BOOLEAN
      BY <2>1, CommitFacts DEF CommitInvestigation, Investigates
    <3> QED
      BY <2>1, <3>1, CommitInvestigationJudges
  <2>2. CASE CommitPurchase(r)
    <3>1. job[r].session \in Labs /\ job[r].defense \in Defenses
      BY <2>2, CommitFacts, JobFields DEF CommitPurchase
    <3> QED
      BY <2>2, <3>1, CommitPurchaseBuys
  <2>3. CASE ~CommitInvestigation(r) /\ ~CommitPurchase(r)
    BY <1>2, <2>3 DEF Authorize, Serve, LockLog, LockSession, RefuseForeignLog,
       RefusePurchase, RequestFails, Refuse
  <2> QED
    BY <2>1, <2>2, <2>3
<1>3. CASE SocStep
  <2>1. CASE SocCloseRules
    <3>1. holds[Soc] \in SUBSET Events
      BY DEF Inv, SocInv
    <3> QED
      BY <2>1, <3>1, SocCloseRulesCloses
  <2>2. CASE \E e \in Events : SocSaveVerdict(e)
    <3>1. verdict \in BOOLEAN
      BY DEF Inv, TypeOK
    <3> QED
      BY <2>2, <3>1, SocSaveVerdictCloses
  <2>3. CASE ~SocCloseRules /\ ~\E e \in Events : SocSaveVerdict(e)
    BY <1>3, <2>3 DEF SocStep, SocLockRules, SocRulesFail, SocFetch, SocAnalyse,
       SocAnalysisFails, SocLockVerdict, SocOutage, SocPassFails, SocWakes
  <2> QED
    BY <2>1, <2>2, <2>3
<1>4. CASE Crash
  BY <1>4 DEF Crash
<1>5. CASE UNCHANGED vars
  BY <1>5 DEF vars
<1> QED
  BY <1>1, <1>2, <1>3, <1>4, <1>5 DEF Next

(* The rows change only as the indivisible ledger allows, whatever the     *)
(* requests, the worker and the crashes do between two commits.            *)
THEOREM Refinement == Spec => ImplementsLedger
<1>1. Init => Ledger!Init
  BY DEF Init
<1>2. Inv /\ [Next]_vars => [Ledger!Next]_Ledger!vars
  BY StepSimulation DEF rows, Ledger!vars
<1> QED
  BY <1>1, <1>2, Invariance, PTL DEF Spec, ImplementsLedger, Ledger!Spec

-----------------------------------------------------------------------------
(* What the ledger promises, of the running game *)

(* A step of the ledger leaves investigated rows alone.                    *)
LEMMA LedgerVerdictIsFinal ==
    ASSUME Inv, [Ledger!Next]_rows, NEW e \in Events, log[e].investigated
    PROVE  log'[e] = log[e]
<1> USE DEF Inv, TypeOK, RowInv, Ledger!Open
<1>1. ASSUME NEW f \in Events, Ledger!Record(f) PROVE log'[e] = log[e]
  <2>1. f # e
    BY <1>1 DEF Ledger!Record
  <2> QED
    BY <1>1, <2>1 DEF Ledger!Record
<1>2. ASSUME NEW f \in Events, NEW claim \in BOOLEAN, Ledger!Judge(f, claim)
      PROVE  log'[e] = log[e]
  BY <1>2 DEF Ledger!Judge
<1>3. ASSUME NEW f \in Events, NEW malicious \in BOOLEAN, Ledger!CloseByModel(f, malicious)
      PROVE  log'[e] = log[e]
  BY <1>3 DEF Ledger!CloseByModel
<1>4. ASSUME NEW S \in SUBSET Events, Ledger!CloseByRule(S) PROVE log'[e] = log[e]
  BY <1>4 DEF Ledger!CloseByRule
<1>5. CASE UNCHANGED log
  BY <1>5
<1> QED
  BY <1>1, <1>2, <1>3, <1>4, <1>5 DEF Ledger!Next, Ledger!Purchase, rows

(* An investigated row never changes again.                                *)
THEOREM FinalVerdicts == Spec => VerdictIsFinal
<1>1. Inv /\ [Next]_vars =>
        [\A e \in Events : log[e].investigated => log'[e] = log[e]]_vars
  BY StepSimulation, LedgerVerdictIsFinal
<1> QED
  BY <1>1, Invariance, PTL DEF Spec, VerdictIsFinal

(* A lab is paid only with the verdict of its own player on its own event. *)
THEOREM OwnEventsOnly == Spec => PaidForOwnEvents
<1> DEFINE Paid(l) == session'[l].budget > session[l].budget
           Judged(l) == \E e \in Events : /\ LabOf[e] = l
                                          /\ ~log[e].investigated
                                          /\ log'[e].investigated
                                          /\ log'[e].by = l
<1>1. ASSUME Inv, [Next]_vars, NEW l \in Labs, Paid(l) PROVE Judged(l)
  <2>1. [Ledger!Next]_rows
    BY <1>1, StepSimulation
  <2>2. PICK e \in Events, claim \in BOOLEAN : Ledger!Judge(e, claim)
    <3>1. ASSUME NEW k \in Labs, NEW d \in Defenses, Ledger!Purchase(k, d)
          PROVE  FALSE
      <4>1. session' = [session EXCEPT ![k] = [budget |-> session[k].budget - Price[d],
                                              active |-> session[k].active \cup {d}]]
        BY <1>1, <3>1 DEF Ledger!Purchase, Inv, TypeOK
      <4> QED
        BY <1>1, <4>1 DEF Inv, TypeOK, SessionRow
    <3> QED
      BY <1>1, <2>1, <3>1 DEF rows, Ledger!Next, Ledger!Record, Ledger!CloseByRule,
         Ledger!CloseByModel, Inv, TypeOK, SessionRow
  <2>3. LabOf[e] = l
    BY <1>1, <2>2 DEF Ledger!Judge, Inv, TypeOK, SessionRow
  <2> QED
    BY <1>1, <2>2, <2>3 DEF Ledger!Judge, Ledger!Open, Ledger!PlayerVerdict, Inv, TypeOK
<1>2. Inv /\ [Next]_vars => [\A l \in Labs : Paid(l) => Judged(l)]_vars
  BY <1>1
<1> QED
  BY <1>2, Invariance, PTL DEF Spec, PaidForOwnEvents

(* Outside the solo labs no event is closed without a player's verdict.    *)
THEOREM SoloLabsOnly == Spec => []SocServesSoloLabs
<1> USE DEF SocServesSoloLabs
<1>1. Init => SocServesSoloLabs
  BY DEF Init, Ledger!Init, Ledger!UnwrittenRow
<1>2. Inv /\ SocServesSoloLabs /\ [Next]_vars => SocServesSoloLabs'
  <2> SUFFICES ASSUME Inv, SocServesSoloLabs, [Ledger!Next]_rows
               PROVE  SocServesSoloLabs'
    BY StepSimulation
  <2> USE DEF Inv, TypeOK
  <2>1. ASSUME NEW f \in Events, Ledger!Record(f) PROVE SocServesSoloLabs'
    BY <2>1 DEF Ledger!Record, LogRow
  <2>2. ASSUME NEW f \in Events, NEW claim \in BOOLEAN, Ledger!Judge(f, claim)
        PROVE  SocServesSoloLabs'
    BY <2>2 DEF Ledger!Judge, Ledger!PlayerVerdict
  <2>3. ASSUME NEW f \in Events, NEW malicious \in BOOLEAN, Ledger!CloseByModel(f, malicious)
        PROVE  SocServesSoloLabs'
    BY <2>3 DEF Ledger!CloseByModel, Ledger!SocVerdict
  <2>4. ASSUME NEW S \in SUBSET Events, Ledger!CloseByRule(S) PROVE SocServesSoloLabs'
    BY <2>4 DEF Ledger!CloseByRule, Ledger!SocVerdict
  <2>5. CASE UNCHANGED log
    BY <2>5
  <2> QED
    BY <2>1, <2>2, <2>3, <2>4, <2>5 DEF Ledger!Next, Ledger!Purchase, rows
<1> QED
  BY <1>1, <1>2, Invariance, PTL DEF Spec

(* A rule-judged event is compromised exactly when the rule says so,       *)
(* whoever closed it.                                                      *)
THEOREM RuleVerdicts == Spec => []RuleDecidesRuleEvents
<1> USE DEF RuleDecidesRuleEvents
<1>1. Init => RuleDecidesRuleEvents
  BY DEF Init, Ledger!Init, Ledger!UnwrittenRow
<1>2. Inv /\ RuleDecidesRuleEvents /\ [Next]_vars => RuleDecidesRuleEvents'
  <2> SUFFICES ASSUME Inv, RuleDecidesRuleEvents, [Ledger!Next]_rows
               PROVE  RuleDecidesRuleEvents'
    BY StepSimulation
  <2> USE DEF Inv, TypeOK, Ledger!Open
  <2>1. ASSUME NEW f \in Events, Ledger!Record(f) PROVE RuleDecidesRuleEvents'
    BY <2>1 DEF Ledger!Record, LogRow
  <2>2. ASSUME NEW f \in Events, NEW claim \in BOOLEAN, Ledger!Judge(f, claim)
        PROVE  RuleDecidesRuleEvents'
    BY <2>2 DEF Ledger!Judge, Ledger!PlayerVerdict, RowInv
  <2>3. ASSUME NEW f \in Events, NEW malicious \in BOOLEAN, Ledger!CloseByModel(f, malicious)
        PROVE  RuleDecidesRuleEvents'
    BY <2>3 DEF Ledger!CloseByModel
  <2>4. ASSUME NEW S \in SUBSET Events, Ledger!CloseByRule(S) PROVE RuleDecidesRuleEvents'
    BY <2>4 DEF Ledger!CloseByRule, Ledger!SocVerdict
  <2>5. CASE UNCHANGED log
    BY <2>5
  <2> QED
    BY <2>1, <2>2, <2>3, <2>4, <2>5 DEF Ledger!Next, Ledger!Purchase, rows
<1> QED
  BY <1>1, <1>2, Invariance, PTL DEF Spec

-----------------------------------------------------------------------------
(* The books *)

(* Only n points of x are added to points that hold none of x's.           *)
LEMMA AddPoints ==
    ASSUME NEW P, IsFiniteSet(P), NEW x, NEW n \in Nat,
           P \cap ({x} \X (1 .. n)) = {},
           NEW Q, Q = P \cup ({x} \X (1 .. n))
    PROVE  IsFiniteSet(Q) /\ Cardinality(Q) = Cardinality(P) + n
<1> DEFINE N == {x} \X (1 .. n)
<1>1. IsFiniteSet(1 .. n) /\ Cardinality(1 .. n) = n
  BY FS_Interval
<1>2. IsFiniteSet({x}) /\ Cardinality({x}) = 1
  BY FS_Singleton
<1>3. IsFiniteSet(N) /\ Cardinality(N) = n
  <2>1. IsFiniteSet(N) /\ Cardinality(N) = Cardinality({x}) * Cardinality(1 .. n)
    BY <1>1, <1>2, FS_Product
  <2> QED
    BY <1>1, <1>2, <2>1
<1>4. Cardinality(P) \in Nat
  BY FS_CardinalityType
<1>5. Cardinality(P \cap N) = 0
  BY FS_EmptySet
<1>6. Q = P \cup N
  OBVIOUS
<1> HIDE DEF N
<1>7. IsFiniteSet(Q) /\ Cardinality(Q) = Cardinality(P) + Cardinality(N) - Cardinality(P \cap N)
  BY <1>3, <1>6, FS_Union
<1> QED
  BY <1>3, <1>4, <1>5, <1>7

(* The total over S grows by f[x] when x joins S.                          *)
LEMMA TotalOfMore ==
    ASSUME NEW f, NEW S, NEW x, x \notin S, f[x] \in Nat, IsFiniteSet(Points(f, S))
    PROVE  /\ IsFiniteSet(Points(f, S \cup {x}))
           /\ Total(f, S \cup {x}) = Total(f, S) + f[x]
<1> DEFINE P == Points(f, S)
           Q == Points(f, S \cup {x})
           n == f[x]
<1>1. Q = P \cup ({x} \X (1 .. n))
  BY DEF Points
<1>2. P \cap ({x} \X (1 .. n)) = {}
  BY DEF Points
<1>3. IsFiniteSet(P) /\ n \in Nat
  OBVIOUS
<1> HIDE DEF P, Q, n
<1>4. IsFiniteSet(Q) /\ Cardinality(Q) = Cardinality(P) + n
  BY <1>1, <1>2, <1>3, AddPoints
<1> QED
  BY <1>4 DEF Total, P, Q, n

(* The total grows by g[x] when x, which had no points, gets g[x] points.  *)
LEMMA TotalOfPaid ==
    ASSUME NEW f, NEW g, NEW S, NEW x \in S, f[x] = 0, g[x] \in Nat,
           \A y \in S \ {x} : g[y] = f[y],
           IsFiniteSet(Points(f, S))
    PROVE  /\ IsFiniteSet(Points(g, S))
           /\ Total(g, S) = Total(f, S) + g[x]
<1> DEFINE P == Points(f, S)
           Q == Points(g, S)
           n == g[x]
<1>1. P = UNION {{y} \X (1 .. f[y]) : y \in S \ {x}}
  BY DEF Points
<1>2. Q = P \cup ({x} \X (1 .. n))
  BY <1>1 DEF Points
<1>3. P \cap ({x} \X (1 .. n)) = {}
  BY <1>1
<1>4. IsFiniteSet(P) /\ n \in Nat
  OBVIOUS
<1> HIDE DEF P, Q, n
<1>5. IsFiniteSet(Q) /\ Cardinality(Q) = Cardinality(P) + n
  BY <1>2, <1>3, <1>4, AddPoints
<1> QED
  BY <1>5 DEF Total, P, Q, n

LEMMA SameTotal ==
    ASSUME NEW f, NEW g, NEW S, \A y \in S : g[y] = f[y]
    PROVE  Points(g, S) = Points(f, S) /\ Total(g, S) = Total(f, S)
  BY DEF Points, Total

(* The books of a lab can be added up, and they balance.                   *)
LabBalances(l) ==
    /\ IsFiniteSet(Points(Price, session[l].active))
    /\ IsFiniteSet(Points(credited, OwnEvents(l)))
    /\ session[l].budget + Total(Price, session[l].active)
         = InitialBudget + Total(credited, OwnEvents(l))

Balanced == \A l \in Labs : LabBalances(l)

LEMMA InitBalanced == Init => Balanced
<1> SUFFICES ASSUME Init, NEW l \in Labs PROVE LabBalances(l)
  BY DEF Balanced
<1>1. session[l] = FreshSession /\ \A e \in Events : credited[e] = 0
  BY DEF Init, Ledger!Init, Ledger!FreshSession, FreshSession
<1>2. Points(Price, {}) = {} /\ Points(credited, OwnEvents(l)) = {}
  BY <1>1 DEF Points, OwnEvents
<1>3. Total(Price, {}) = 0 /\ Total(credited, OwnEvents(l)) = 0
  BY <1>2, FS_EmptySet DEF Total
<1>4. IsFiniteSet({}) /\ InitialBudget + 0 = InitialBudget
  BY FS_EmptySet
<1>5. session[l].budget = InitialBudget /\ session[l].active = {}
  BY <1>1 DEF FreshSession
<1> QED
  BY <1>2, <1>3, <1>4, <1>5 DEF LabBalances

(* A verdict books on the event what it pays to the lab.                   *)
LEMMA JudgeBalances ==
    ASSUME Inv, NEW e \in Events, NEW claim \in BOOLEAN, Ledger!Judge(e, claim),
           NEW l \in Labs, LabBalances(l)
    PROVE  LabBalances(l)'
<1> DEFINE points == Credit(claim, e)
<1>1. points \in Nat /\ credited[e] = 0
  BY CreditType DEF Inv, RowInv, Ledger!Judge, Ledger!Open
<1>2. credited' = [credited EXCEPT ![e] = points]
  BY DEF Ledger!Judge, Ledger!Credit, Credit
<1>3. /\ session'[l].active = session[l].active
      /\ session'[l].budget = session[l].budget + (IF LabOf[e] = l THEN points ELSE 0)
  BY <1>1 DEF Ledger!Judge, Ledger!Credit, Credit, Inv, TypeOK, SessionRow
<1> HIDE DEF points
<1>4. /\ IsFiniteSet(Points(credited', OwnEvents(l)))
      /\ Total(credited', OwnEvents(l)) =
           Total(credited, OwnEvents(l)) + (IF LabOf[e] = l THEN points ELSE 0)
  <2>1. CASE LabOf[e] = l
    <3>1. e \in OwnEvents(l) /\ credited'[e] = points
      BY <1>2, <2>1 DEF OwnEvents, Inv, TypeOK
    <3>2. \A f \in OwnEvents(l) \ {e} : credited'[f] = credited[f]
      BY <1>2 DEF OwnEvents, Inv, TypeOK
    <3> QED
      BY <1>1, <2>1, <3>1, <3>2, TotalOfPaid DEF LabBalances
  <2>2. CASE LabOf[e] # l
    <3>1. \A f \in OwnEvents(l) : credited'[f] = credited[f]
      BY <1>2, <2>2 DEF OwnEvents, Inv, TypeOK
    <3>2. Total(credited, OwnEvents(l)) \in Nat
      BY FS_CardinalityType DEF Total, LabBalances
    <3> QED
      BY <2>2, <3>1, <3>2, SameTotal DEF LabBalances
  <2> QED
    BY <2>1, <2>2
<1>5. /\ session[l].budget \in Nat
      /\ Total(Price, session[l].active) \in Nat
      /\ Total(credited, OwnEvents(l)) \in Nat
  BY FS_CardinalityType DEF Total, LabBalances, Inv, TypeOK, SessionRow
<1> QED
  BY <1>1, <1>3, <1>4, <1>5 DEF LabBalances

(* A purchase takes the price of a defense the lab did not own.            *)
LEMMA PurchaseBalances ==
    ASSUME Inv, NEW k \in Labs, NEW d \in Defenses, Ledger!Purchase(k, d),
           NEW l \in Labs, LabBalances(l)
    PROVE  LabBalances(l)'
<1>1. credited' = credited
  BY DEF Ledger!Purchase
<1>2. CASE l # k
  <2>1. session'[l] = session[l]
    BY <1>2 DEF Ledger!Purchase, Inv, TypeOK
  <2> QED
    BY <1>1, <2>1 DEF LabBalances
<1>3. CASE l = k
  <2>1. /\ d \notin session[l].active
        /\ session'[l].active = session[l].active \cup {d}
        /\ session'[l].budget = session[l].budget - Price[d]
    BY <1>3 DEF Ledger!Purchase, Inv, TypeOK, SessionRow
  <2>2. /\ IsFiniteSet(Points(Price, session'[l].active))
        /\ Total(Price, session'[l].active) = Total(Price, session[l].active) + Price[d]
    <3>1. Price[d] \in Nat /\ IsFiniteSet(Points(Price, session[l].active))
      BY DEF LabBalances
    <3> QED
      BY <2>1, <3>1, TotalOfMore
  <2>3. /\ session[l].budget \in Nat
        /\ Price[d] \in Nat
        /\ Total(Price, session[l].active) \in Nat
        /\ Total(credited, OwnEvents(l)) \in Nat
    BY FS_CardinalityType DEF Total, LabBalances, Inv, TypeOK, SessionRow
  <2> QED
    BY <1>1, <2>1, <2>2, <2>3 DEF LabBalances
<1> QED
  BY <1>2, <1>3

(* In every lab, points left and prices paid add up to points given and    *)
(* points earned, whatever requests, verdicts and crashes interleave.      *)
THEOREM Bookkeeping == Spec => []BudgetBalances
<1>1. Inv /\ Balanced /\ [Next]_vars => Balanced'
  <2> SUFFICES ASSUME Inv, [Ledger!Next]_rows, NEW l \in Labs, LabBalances(l)
               PROVE  LabBalances(l)'
    BY StepSimulation DEF Balanced
  <2>1. CASE UNCHANGED <<session, credited>>
    BY <2>1 DEF LabBalances
  <2> QED
    BY <2>1, JudgeBalances, PurchaseBalances DEF Ledger!Next, Ledger!Record,
       Ledger!CloseByRule, Ledger!CloseByModel, rows
<1>2. Balanced => BudgetBalances
  BY DEF Balanced, LabBalances, BudgetBalances
<1> QED
  BY <1>1, <1>2, InitBalanced, Invariance, PTL DEF Spec

=============================================================================
