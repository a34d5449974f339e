----------------------------- MODULE BlueTeamGame -----------------------------
(***************************************************************************)
(* The Blue Team game as it runs: investigation and purchase requests of   *)
(* several players and the Auto-SOC worker, all on the same rows of one    *)
(* PostgreSQL database.                                                    *)
(*                                                                         *)
(* An actor's step ends where the code awaits the database or the model.   *)
(* holds[a] is the set of rows actor a's open transaction has locked with  *)
(* SELECT ... FOR UPDATE; commit, rollback and crash empty it.  A reader   *)
(* without FOR UPDATE sees the last committed row.                         *)
(***************************************************************************)
EXTENDS GameRules

CONSTANTS
    Requests,       \* HTTP requests of the Blue Team, each served once
    Soc,            \* the Auto-SOC worker
    BatchSize,      \* SOC_BATCH_SIZE
    RuleBatchSize,  \* SOC_RULE_BATCH_SIZE
    Unanalysable,   \* rows whose analysis always fails (e.g. a payload too
                    \* long for the model's context)
    MaxFaults       \* bound on the crashes of the server process and the
                    \* database failures of the worker, together

ASSUME ActorAssumption ==
    /\ Soc \notin Requests
    /\ Events \cap Labs = {}
    /\ BatchSize \in Nat \ {0}
    /\ RuleBatchSize \in Nat \ {0}
    /\ Unanalysable \subseteq Events
    /\ MaxFaults \in Nat

Actors == Requests \cup {Soc}

(* What a request asks for.  lab is the lab of the player's token, session *)
(* the session the request names.                                          *)
Jobs ==
    [kind: {"investigate"}, lab: Labs, session: Labs, event: Events, claim: BOOLEAN]
      \cup [kind: {"buy"}, lab: Labs, session: Labs, defense: Defenses]

NoJob == [kind |-> "none"]

VARIABLES
    log, now, session, credited,  \* the committed rows, as in DefenseLedger
    holds,     \* row locks of each actor's open transaction
    phase,     \* where each request is
    job,       \* what each request asks for
    view,      \* the GameSession object in each request's ORM session
    socPhase,  \* where the Auto-SOC loop is
    batch,     \* events fetched and not yet dealt with in this pass
    verdict,   \* the model's last answer
    outage,    \* the loop's flag: this pass ended at an unreachable model
    faults     \* crashes and database failures of the worker so far

rows == <<log, now, session, credited>>
requestVars == <<phase, job, view>>
socVars == <<socPhase, batch, verdict, outage>>
vars == <<rows, holds, requestVars, socVars, faults>>

(* The abstract ledger, on the same committed rows.                        *)
Ledger == INSTANCE DefenseLedger

-----------------------------------------------------------------------------
(* Rows and locks *)

Written(e) == log[e].timestamp > 0

Pending(e) == Written(e) /\ ~log[e].investigated

Free(row) == \A a \in Actors : row \notin holds[a]

(* The first n events of S in timestamp order.                             *)
Oldest(S, n) ==
    {e \in S : Cardinality({f \in S : log[f].timestamp < log[e].timestamp}) < n}

Init ==
    /\ Ledger!Init
    /\ holds = [a \in Actors |-> {}]
    /\ phase = [r \in Requests |-> "idle"]
    /\ job = [r \in Requests |-> NoJob]
    /\ view = [r \in Requests |-> FreshSession]
    /\ socPhase = "rules"
    /\ batch = {}
    /\ verdict = FALSE
    /\ outage = FALSE
    /\ faults = 0

(* log_security_event commits one row in a session of its own.  A write    *)
(* that fails is rolled back and the event is lost: no row changes.        *)
WriteEvent(e) ==
    /\ ~Written(e)
    /\ log' = [log EXCEPT ![e].timestamp = now + 1]
    /\ now' = now + 1
    /\ UNCHANGED <<session, credited, holds, requestVars, socVars, faults>>

-----------------------------------------------------------------------------
(* Requests *)

Goto(r, p) == phase' = [phase EXCEPT ![r] = p]

(* Mutant: the rollback of a refused request is forgotten.                 *)
LeaveLocked(r) ==
    /\ Goto(r, "done")
    /\ job' = [job EXCEPT ![r] = NoJob]
    /\ view' = [view EXCEPT ![r] = FreshSession]
    /\ UNCHANGED holds

(* The response is sent and the ORM session closed, which rolls back what  *)
(* was not committed.                                                      *)
Leave(r) ==
    /\ Goto(r, "done")
    /\ job' = [job EXCEPT ![r] = NoJob]
    /\ view' = [view EXCEPT ![r] = FreshSession]
    /\ holds' = [holds EXCEPT ![r] = {}]

Refuse(r) ==
    /\ Leave(r)
    /\ UNCHANGED <<rows, socVars, faults>>

(* Mutant: any session may be named.                                       *)
AnySession(j) == TRUE

(* get_authorized_session: the named session must be of the player's lab.  *)
Authorized(j) == j.session = j.lab

(* The handler starts and reads the session without locking it.            *)
Authorize(r, j) ==
    /\ phase[r] = "idle"
    /\ Goto(r, IF Authorized(j) THEN "authorized" ELSE "done")
    /\ job' = [job EXCEPT ![r] = IF Authorized(j) THEN j ELSE NoJob]
    /\ view' = [view EXCEPT ![r] = IF Authorized(j) THEN session[j.session] ELSE @]
    /\ UNCHANGED <<rows, holds, socVars, faults>>

(* Mutant: the row is not looked at again once it is locked.               *)
NeverInvestigated(e) == FALSE

AlreadyInvestigated(e) == log[e].investigated

(* process_investigation locks the log row (waiting for its holder) and    *)
(* looks at what the row says then; an unknown or closed row is refused.   *)
LockLog(r) ==
    /\ phase[r] = "authorized"
    /\ job[r].kind = "investigate"
    /\ LET e == job[r].event IN
       \/ /\ ~Written(e)
          /\ Refuse(r)
       \/ /\ Written(e)
          /\ Free(e)
          /\ AlreadyInvestigated(e)
          /\ Refuse(r)
       \/ /\ Written(e)
          /\ Free(e)
          /\ ~AlreadyInvestigated(e)
          /\ holds' = [holds EXCEPT ![r] = @ \cup {e}]
          /\ Goto(r, "logLocked")
          /\ UNCHANGED <<rows, job, view, socVars, faults>>

(* Mutant: without populate_existing the object read before the lock stays *)
(* in the ORM session.                                                     *)
StaleRow(r) == view[r]

(* get_by_id with for_update and populate_existing: the row as it is now.  *)
LockedRow(r) == session[job[r].session]

LockSession(r) ==
    /\ \/ phase[r] = "logLocked"
       \/ phase[r] = "authorized" /\ job[r].kind = "buy"
    /\ Free(job[r].session)
    /\ holds' = [holds EXCEPT ![r] = @ \cup {job[r].session}]
    /\ view' = [view EXCEPT ![r] = LockedRow(r)]
    /\ Goto(r, "locked")
    /\ UNCHANGED <<rows, job, socVars, faults>>

(* Mutant: the log row's lab is not compared with the session's.           *)
AnyLab(r) == TRUE

SameLab(r) == LabOf[job[r].event] = job[r].session

RefuseForeignLog(r) ==
    /\ phase[r] = "locked"
    /\ job[r].kind = "investigate"
    /\ ~SameLab(r)
    /\ Refuse(r)

(* The verdict and its points, in one transaction.  The UPDATE writes the  *)
(* budget computed from the object in memory.                              *)
CommitInvestigation(r) ==
    /\ phase[r] = "locked"
    /\ job[r].kind = "investigate"
    /\ SameLab(r)
    /\ LET e == job[r].event
           l == job[r].session
           points == Credit(job[r].claim, e)
       IN /\ log' = [log EXCEPT ![e] = PlayerVerdict(@, e, job[r].lab)]
          /\ session' = [session EXCEPT ![l] = [budget |-> view[r].budget + points,
                                                active |-> @.active]]
          /\ credited' = [credited EXCEPT ![e] = @ + points]
    /\ Leave(r)
    /\ UNCHANGED <<now, socVars, faults>>

Owned(r) == job[r].defense \in view[r].active

(* Mutant: the price is not compared with the budget.                      *)
AlwaysAffordable(r) == TRUE

Affordable(r) == view[r].budget >= Price[job[r].defense]

RefusePurchase(r) ==
    /\ phase[r] = "locked"
    /\ job[r].kind = "buy"
    /\ Owned(r) \/ ~Affordable(r)
    /\ Refuse(r)

CommitPurchase(r) ==
    /\ phase[r] = "locked"
    /\ job[r].kind = "buy"
    /\ ~Owned(r)
    /\ Affordable(r)
    /\ LET l == job[r].session
           d == job[r].defense
       IN session' = [session EXCEPT ![l] = [budget |-> view[r].budget - Price[d],
                                             active |-> @.active \cup {d}]]
    /\ Leave(r)
    /\ UNCHANGED <<log, now, credited, socVars, faults>>

(* A database call of the handler raises: the transaction is rolled back.  *)
RequestFails(r) ==
    /\ phase[r] \notin {"idle", "done"}
    /\ Refuse(r)

Serve(r) ==
    \/ LockLog(r)
    \/ LockSession(r)
    \/ RefuseForeignLog(r)
    \/ CommitInvestigation(r)
    \/ RefusePurchase(r)
    \/ CommitPurchase(r)

-----------------------------------------------------------------------------
(* The Auto-SOC worker: run_soc_analyst_loop.  Its waits between passes    *)
(* and the backoff during an outage are not timed.                         *)

SocGoto(p) == socPhase' = p

(* A crash, or a database failure of the worker.                           *)
Fault == faults < MaxFaults /\ faults' = faults + 1

(* Mutant: the join with is_solo is left out.                              *)
AnyOpen(e) == Pending(e)

SoloPending(e) == Pending(e) /\ LabOf[e] \in SoloLabs

(* Mutant: closed rows are not left out of the selection.                  *)
RuleWritten == {e \in RuleJudged : Written(e) /\ LabOf[e] \in SoloLabs /\ Free(e)}

RulePending == {e \in RuleJudged : SoloPending(e) /\ Free(e)}

(* close_rule_judged_logs: FOR UPDATE SKIP LOCKED, oldest rows first.      *)
SocLockRules ==
    /\ socPhase = "rules"
    /\ holds' = [holds EXCEPT ![Soc] = Oldest(RulePending, RuleBatchSize)]
    /\ SocGoto("closing")
    /\ UNCHANGED <<rows, requestVars, batch, verdict, outage, faults>>

SocCloseRules ==
    /\ socPhase = "closing"
    /\ log' = [e \in Events |->
                 IF e \in holds[Soc] THEN SocVerdict(log[e], e \in Malicious) ELSE log[e]]
    /\ holds' = [holds EXCEPT ![Soc] = {}]
    /\ SocGoto("fetch")
    /\ UNCHANGED <<now, session, credited, requestVars, batch, verdict, outage, faults>>

(* The rule step fails: it is rolled back, and the pass goes on without it.*)
SocRulesFail ==
    /\ socPhase \in {"rules", "closing"}
    /\ Fault
    /\ holds' = [holds EXCEPT ![Soc] = {}]
    /\ SocGoto("fetch")
    /\ UNCHANGED <<rows, requestVars, batch, verdict, outage>>

(* Mutant: the rule-judged types are not left out.                         *)
AllSoloPending == {e \in Events : SoloPending(e)}

ModelPending == {e \in Events \ RuleJudged : SoloPending(e)}

(* fetch_pending_logs: the oldest open events of all solo labs; no lock or *)
(* transaction outlives the read.                                          *)
SocFetch ==
    /\ socPhase = "fetch"
    /\ batch' = Oldest(ModelPending, BatchSize)
    /\ SocGoto(IF batch' = {} THEN "sleep" ELSE "analyse")
    /\ UNCHANGED <<rows, holds, requestVars, verdict, outage, faults>>

(* The events are taken oldest first.                                      *)
Current(e) == e \in batch /\ \A f \in batch : log[e].timestamp <= log[f].timestamp

(* On to the next event of the batch, or to the end of the pass.           *)
NextEvent(e) ==
    /\ batch' = batch \ {e}
    /\ SocGoto(IF batch' = {} THEN "sleep" ELSE "analyse")

EndPass ==
    /\ batch' = {}
    /\ SocGoto("sleep")

(* The model answers.  The loop holds no row while it waits.               *)
SocAnalyse(e) ==
    /\ socPhase = "analyse"
    /\ Current(e)
    /\ e \notin Unanalysable
    /\ verdict' \in BOOLEAN
    /\ SocGoto("save")
    /\ UNCHANGED <<rows, holds, requestVars, batch, outage, faults>>

(* Mutant: an error of one event ends the pass.                            *)
GiveUp(e) == EndPass

LeavePending(e) == NextEvent(e)

(* The analysis of one event fails: it stays pending, the next one is      *)
(* tried.                                                                  *)
SocAnalysisFails(e) ==
    /\ socPhase = "analyse"
    /\ Current(e)
    /\ LeavePending(e)
    /\ UNCHANGED <<rows, holds, requestVars, verdict, outage, faults>>

(* The model server cannot be reached: the rest of the batch waits.        *)
SocOutage ==
    /\ socPhase = "analyse"
    /\ EndPass
    /\ outage' = TRUE
    /\ UNCHANGED <<rows, holds, requestVars, verdict, faults>>

Savable(e) == Pending(e) /\ Free(e)

(* save_verdict selects the row FOR UPDATE SKIP LOCKED if it is still      *)
(* open; if it is not, or somebody holds it, the verdict is discarded.     *)
SocLockVerdict(e) ==
    /\ socPhase = "save"
    /\ Current(e)
    /\ IF Savable(e)
       THEN /\ holds' = [holds EXCEPT ![Soc] = {e}]
            /\ SocGoto("saving")
            /\ UNCHANGED batch
       ELSE /\ NextEvent(e)
            /\ UNCHANGED holds
    /\ UNCHANGED <<rows, requestVars, verdict, outage, faults>>

SocSaveVerdict(e) ==
    /\ socPhase = "saving"
    /\ e \in holds[Soc]
    /\ log' = [log EXCEPT ![e] = SocVerdict(@, verdict)]
    /\ holds' = [holds EXCEPT ![Soc] = {}]
    /\ NextEvent(e)
    /\ UNCHANGED <<now, session, credited, requestVars, verdict, outage, faults>>

(* A database error outside the analysis: the pass is given up.            *)
SocPassFails ==
    /\ socPhase \in {"fetch", "save", "saving"}
    /\ Fault
    /\ holds' = [holds EXCEPT ![Soc] = {}]
    /\ EndPass
    /\ UNCHANGED <<rows, requestVars, verdict, outage>>

SocWakes ==
    /\ socPhase = "sleep"
    /\ SocGoto("rules")
    /\ outage' = FALSE
    /\ UNCHANGED <<rows, holds, requestVars, batch, verdict, faults>>

SocStep ==
    \/ SocLockRules
    \/ SocCloseRules
    \/ SocRulesFail
    \/ SocFetch
    \/ \E e \in Events :
         \/ SocAnalyse(e)
         \/ SocAnalysisFails(e)
         \/ SocLockVerdict(e)
         \/ SocSaveVerdict(e)
    \/ SocOutage
    \/ SocPassFails
    \/ SocWakes

-----------------------------------------------------------------------------
(* The server process dies and is started again.  PostgreSQL rolls every   *)
(* open transaction back; the clients of the open requests see an error.   *)
Crash ==
    /\ Fault
    /\ holds' = [a \in Actors |-> {}]
    /\ phase' = [r \in Requests |-> IF phase[r] = "idle" THEN "idle" ELSE "done"]
    /\ job' = [r \in Requests |-> NoJob]
    /\ view' = [r \in Requests |-> FreshSession]
    /\ SocGoto("rules")
    /\ batch' = {}
    /\ verdict' = FALSE
    /\ outage' = FALSE
    /\ UNCHANGED rows

Next ==
    \/ \E e \in Events : WriteEvent(e)
    \/ \E r \in Requests :
         \/ \E j \in Jobs : Authorize(r, j)
         \/ Serve(r)
         \/ RequestFails(r)
    \/ SocStep
    \/ Crash

Spec == Init /\ [][Next]_vars

(* What the liveness properties assume: PostgreSQL answers the open        *)
(* requests and the event loop keeps running the worker.  Nothing makes    *)
(* anybody send a request or write an event, and the model may be down, or *)
(* fail on any event, for ever.                                            *)
Fairness ==
    /\ \A r \in Requests : WF_vars(Serve(r))
    /\ WF_vars(SocStep)

LiveSpec == Spec /\ Fairness

(* From some time on the model server is reachable and only the analysis   *)
(* of an unanalysable event fails.                                         *)
ModelRecovers ==
    /\ <>[]~outage
    /\ <>[][\A e \in Events \ Unanalysable : ~SocAnalysisFails(e)]_vars

-----------------------------------------------------------------------------
(* Properties *)

(* Every variable has its type; a budget is never negative, though a       *)
(* purchase subtracts from a value read earlier.                           *)
TypeOK ==
    /\ log \in [Events -> LogRow]
    /\ now \in Nat
    /\ session \in [Labs -> SessionRow]
    /\ credited \in [Events -> Nat]
    /\ holds \in [Actors -> SUBSET (Events \cup Labs)]
    /\ phase \in [Requests -> {"idle", "authorized", "logLocked", "locked", "done"}]
    /\ job \in [Requests -> Jobs \cup {NoJob}]
    /\ view \in [Requests -> SessionRow]
    /\ socPhase \in {"rules", "closing", "fetch", "analyse", "save", "saving", "sleep"}
    /\ batch \in SUBSET Events
    /\ verdict \in BOOLEAN
    /\ outage \in BOOLEAN
    /\ faults \in Nat

(* The points f gives to the members of S, one element for each point, and *)
(* their number.                                                           *)
Points(f, S) == UNION {{x} \X (1 .. f[x]) : x \in S}

Total(f, S) == Cardinality(Points(f, S))

OwnEvents(l) == {e \in Events : LabOf[e] = l}

(* No point is lost or made: in every lab the points left and the prices   *)
(* of the defenses it owns add up to the initial budget and the points     *)
(* booked for its events, whatever requests ran side by side.              *)
BudgetBalances ==
    \A l \in Labs :
        session[l].budget + Total(Price, session[l].active)
          = InitialBudget + Total(credited, OwnEvents(l))

(* An investigated row never changes again: a second verdict, of a player  *)
(* or of the Auto-SOC, is refused or discarded.                            *)
VerdictIsFinal ==
    [][\A e \in Events : log[e].investigated => log'[e] = log[e]]_vars

(* A lab is paid only for its own events, by its own players, and only     *)
(* when the verdict is recorded with the payment.                          *)
PaidForOwnEvents ==
    [][\A l \in Labs :
         session'[l].budget > session[l].budget =>
           \E e \in Events : /\ LabOf[e] = l
                             /\ ~log[e].investigated
                             /\ log'[e].investigated
                             /\ log'[e].by = l]_vars

(* The Auto-SOC closes events of solo labs only; elsewhere every verdict   *)
(* is a player's.                                                          *)
SocServesSoloLabs ==
    \A e \in Events :
        log[e].investigated /\ LabOf[e] \notin SoloLabs => log[e].by # NoPlayer

(* The model never decides a rule-judged event: closed by the Auto-SOC or  *)
(* by a player, it is compromised exactly when the rule says so.           *)
RuleDecidesRuleEvents ==
    \A e \in RuleJudged :
        log[e].investigated => (log[e].compromised <=> e \in Malicious)

(* The committed rows change only as the indivisible ledger allows.        *)
ImplementsLedger == Ledger!Spec

(* Every request is answered: log rows are locked before session rows and  *)
(* the worker skips locked rows, so nobody waits for ever.                 *)
RequestsEnd ==
    \A r \in Requests : phase[r] = "authorized" ~> phase[r] = "done"

(* The Auto-SOC judges every event of a solo lab, the analysable ones even *)
(* when others of the batch always fail.                                   *)
EventsJudged ==
    ModelRecovers =>
        \A e \in Events \ Unanalysable : SoloPending(e) ~> log[e].investigated

(* Rule-judged events are closed even if the model never answers again.    *)
RuleEventsClosed ==
    \A e \in RuleJudged : SoloPending(e) ~> log[e].investigated

=============================================================================
