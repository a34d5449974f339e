---------------------------- MODULE DefenseLedger ----------------------------
(***************************************************************************)
(* What the Blue Team game promises, without its concurrency: a ledger in  *)
(* which every verdict and every purchase is one indivisible step on the   *)
(* committed rows.  BlueTeamGame, with its transactions, row locks, stale  *)
(* reads, SOC worker and crashes, implements it.                           *)
(***************************************************************************)
EXTENDS GameRules

VARIABLES
    log,       \* committed security_audit_logs rows
    now,       \* timestamp of the newest row
    session,   \* committed game_sessions rows
    credited   \* points booked for each event (history)

vars == <<log, now, session, credited>>

Init ==
    /\ log = [e \in Events |-> UnwrittenRow]
    /\ now = 0
    /\ session = [l \in Labs |-> FreshSession]
    /\ credited = [e \in Events |-> 0]

Open(e) == log[e].timestamp > 0 /\ ~log[e].investigated

(* A new event enters the audit log.                                       *)
Record(e) ==
    /\ log[e].timestamp = 0
    /\ log' = [log EXCEPT ![e].timestamp = now + 1]
    /\ now' = now + 1
    /\ UNCHANGED <<session, credited>>

(* A player of the event's own lab judges an open event and is paid once.  *)
Judge(e, claim) ==
    /\ Open(e)
    /\ log' = [log EXCEPT ![e] = PlayerVerdict(@, e, LabOf[e])]
    /\ session' = [session EXCEPT ![LabOf[e]] = [budget |-> @.budget + Credit(claim, e),
                                                 active |-> @.active]]
    /\ credited' = [credited EXCEPT ![e] = Credit(claim, e)]
    /\ UNCHANGED now

(* The rule closes a set of open rule-judged events of solo labs; nobody   *)
(* is paid.                                                                *)
CloseByRule(S) ==
    /\ \A e \in S : Open(e) /\ e \in RuleJudged /\ LabOf[e] \in SoloLabs
    /\ log' = [e \in Events |->
                 IF e \in S THEN SocVerdict(log[e], e \in Malicious) ELSE log[e]]
    /\ UNCHANGED <<now, session, credited>>

(* The model's verdict closes one open event of a solo lab.                *)
CloseByModel(e, malicious) ==
    /\ Open(e)
    /\ e \notin RuleJudged
    /\ LabOf[e] \in SoloLabs
    /\ log' = [log EXCEPT ![e] = SocVerdict(@, malicious)]
    /\ UNCHANGED <<now, session, credited>>

(* A lab buys a defense it does not own and can pay.                       *)
Purchase(l, d) ==
    /\ d \notin session[l].active
    /\ session[l].budget >= Price[d]
    /\ session' = [session EXCEPT ![l] = [budget |-> @.budget - Price[d],
                                          active |-> @.active \cup {d}]]
    /\ UNCHANGED <<log, now, credited>>

Next ==
    \/ \E e \in Events :
         \/ Record(e)
         \/ \E claim \in BOOLEAN : Judge(e, claim)
         \/ \E malicious \in BOOLEAN : CloseByModel(e, malicious)
    \/ \E S \in SUBSET Events : CloseByRule(S)
    \/ \E l \in Labs, d \in Defenses : Purchase(l, d)

Spec == Init /\ [][Next]_vars

=============================================================================
