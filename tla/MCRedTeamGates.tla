---------------------------- MODULE MCRedTeamGates ----------------------------
(***************************************************************************)
(* Instances of RedTeamGates for TLC.                                      *)
(***************************************************************************)
EXTENDS RedTeamGates, TLC

Symmetric == Permutations(Requests)

=============================================================================
