----------------------------- MODULE MCAdminSetup -----------------------------
(***************************************************************************)
(* Instances of AdminSetup for TLC: a fresh lab, one with a blue user and  *)
(* a session of team t, and one that has two sessions.                     *)
(***************************************************************************)
EXTENDS AdminSetup, TLC

CONSTANTS r1, r2, r3, l1, l2, l3, ann, bob, cid, t, none, q1, q2

Opt(lab, red, blue, team) == [lab |-> lab, red |-> red, blue |-> blue, team |-> team]

MCOptions ==
    {Opt(l1, ann, bob, none), Opt(l1, ann, bob, t), Opt(l1, cid, bob, none),
     Opt(l2, ann, bob, none), Opt(l2, ann, cid, none), Opt(l1, ann, ann, none), Opt(l3, ann, bob, none)}

MCUsers == {[id |-> <<l2, "blue_team">>, name |-> cid, role |-> "blue_team", lab |-> l2]}
MCSessions ==
    {[id |-> <<l2, "session">>, lab |-> l2, team |-> t]}
    \cup {[id |-> <<l3, which>>, lab |-> l3, team |-> t] : which \in {"session", "other"}}

Symmetric == Permutations(Runs)

=============================================================================
