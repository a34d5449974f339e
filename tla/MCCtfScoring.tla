----------------------------- MODULE MCCtfScoring -----------------------------
(***************************************************************************)
(* Instances of CtfScoring for TLC.                                        *)
(***************************************************************************)
EXTENDS CtfScoring, TLC

CONSTANTS lab1, lab2, team1, team2, f1, f2, v, wrong

(* Two labs with a team each; their flags have the same value.             *)
MCTeamOf == (lab1 :> team1) @@ (lab2 :> team2)
MCLabOfFlag == (f1 :> lab1) @@ (f2 :> lab2)
MCValueOf == [f \in Flags |-> v]

Symmetric == Permutations(Requests)

=============================================================================
