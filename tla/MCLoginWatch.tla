----------------------------- MODULE MCLoginWatch -----------------------------
(***************************************************************************)
(* Instances of LoginWatch for TLC.                                        *)
(***************************************************************************)
EXTENDS LoginWatch, TLC

Symmetric == Permutations(Requests) \cup Permutations(Users)

=============================================================================
