------------------------------ MODULE GameRules ------------------------------
(***************************************************************************)
(* The data of the Blue Team game that the abstract ledger and the         *)
(* concurrent model share: audit-log rows, game-session rows, the points   *)
(* a verdict earns and the catalogue prices.                               *)
(*                                                                         *)
(* A lab is identified with its game session (the setup scripts create one *)
(* per lab) and a player with the lab in the player's token: no property   *)
(* tells two players of one lab apart.  Of a log payload only what the     *)
(* heuristic makes of it is kept, the set Malicious.                       *)
(***************************************************************************)
EXTENDS Integers, FiniteSets

CONSTANTS
    Labs,           \* lab instances, each with one game session
    SoloLabs,       \* labs whose session has is_solo: the Auto-SOC serves them
    Defenses,       \* keys of DEFENSE_PRICING
    Price,          \* DEFENSE_PRICING, a function on Defenses
    InitialBudget,  \* default of GameSession.defense_budget
    Events,         \* audit-log rows that may be written
    LabOf,          \* lab_instance_id of each row
    RuleJudged,     \* rows whose event_type is in RULE_JUDGED_EVENTS
    Malicious,      \* rows predict_is_malicious finds malicious
    NoPlayer        \* investigated_by of a row no player investigated

ASSUME GameAssumption ==
    /\ SoloLabs \subseteq Labs
    /\ Price \in [Defenses -> Nat]
    /\ InitialBudget \in Nat
    /\ LabOf \in [Events -> Labs]
    /\ RuleJudged \subseteq Events
    /\ Malicious \subseteq Events
    /\ NoPlayer \notin Labs

(* A security_audit_logs row.  timestamp 0 is a row not written yet; the   *)
(* other timestamps number the rows in the order they were written.        *)
LogRow == [timestamp: Nat, investigated: BOOLEAN, by: Labs \cup {NoPlayer},
           compromised: BOOLEAN]

UnwrittenRow == [timestamp |-> 0, investigated |-> FALSE, by |-> NoPlayer,
                 compromised |-> FALSE]

(* A game_sessions row: the points left and the defenses switched on.      *)
SessionRow == [budget: Nat, active: SUBSET Defenses]

FreshSession == [budget |-> InitialBudget, active |-> {}]

(* Points for a correct verdict: 3 for an attack, 1 for a false alarm.     *)
Credit(claim, e) ==
    IF claim /\ e \in Malicious THEN 3
    ELSE IF ~claim /\ e \notin Malicious THEN 1
    ELSE 0

(* The row after a player's verdict; an attack is marked compromised       *)
(* whether or not the player saw it.                                       *)
PlayerVerdict(row, e, player) ==
    [timestamp |-> row.timestamp, investigated |-> TRUE, by |-> player,
     compromised |-> row.compromised \/ e \in Malicious]

(* The row after a verdict of the Auto-SOC, which sets no investigated_by. *)
SocVerdict(row, malicious) ==
    [timestamp |-> row.timestamp, investigated |-> TRUE, by |-> row.by,
     compromised |-> malicious]

=============================================================================
