----------------------------- MODULE MCModelQueue -----------------------------
(***************************************************************************)
(* Instances of ModelQueue for TLC.                                        *)
(***************************************************************************)
EXTENDS ModelQueue

=============================================================================
