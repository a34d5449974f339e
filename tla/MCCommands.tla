------------------------------ MODULE MCCommands ------------------------------
(***************************************************************************)
(* The operator's commands for TLC.  They share no state in the models, so *)
(* a behaviour is one of a single command, started from its own initial    *)
(* states, the others at rest.                                             *)
(***************************************************************************)
EXTENDS Commands, TLC

CONSTANTS r1, r2, r3, r4, l1, l2, l3, ann, bob, cid, t, none, p1, p2, p3, s1

VARIABLE command   \* which one this behaviour is of

(* Three runs seed one lab and one another.                                *)
MCSeedLabOf == [r \in Seeders |-> IF r = r4 THEN l2 ELSE l1]

(* Two provisioners and a search of a lab; the third provisioner is for a  *)
(* lab without a session.                                                  *)
MCSqliLabOf == [w \in {p1, p2, p3, s1} |-> IF w = p3 THEN l2 ELSE l1]

(* A fresh lab, one with a blue user and a session of team t, and one that *)
(* has two sessions.                                                       *)
Opt(lab, red, blue, team) == [lab |-> lab, red |-> red, blue |-> blue, team |-> team]

MCOptions ==
    {Opt(l1, ann, bob, none), Opt(l1, ann, bob, t), Opt(l1, cid, bob, none),
     Opt(l2, ann, bob, none), Opt(l2, ann, cid, none), Opt(l1, ann, ann, none), Opt(l3, ann, bob, none)}

MCUsers == {[id |-> <<l2, "blue_team">>, name |-> cid, role |-> "blue_team", lab |-> l2]}
MCSessions ==
    {[id |-> <<l2, "session">>, lab |-> l2, team |-> t]}
    \cup {[id |-> <<l3, which>>, lab |-> l3, team |-> t] : which \in {"session", "other"}}

Symmetric == Permutations(Runs)

-----------------------------------------------------------------------------
OneInit ==
    /\ command \in {"setup", "seeding", "demo", "sqli"}
    /\ Init /\ (command = "setup" \/ opts = [r \in Runs |-> Opt(l1, ann, bob, none)])
    /\ Seeding!Init /\ Demo!Init /\ Isolation!Init

OneNext ==
    /\ UNCHANGED command
    /\ \/ command = "setup" /\ Next /\ UNCHANGED <<seedVars, demoVars, sqliVars>>
       \/ command = "seeding" /\ Seeding!Next /\ UNCHANGED <<setupVars, demoVars, sqliVars>>
       \/ command = "demo" /\ Demo!Next /\ UNCHANGED <<setupVars, seedVars, sqliVars>>
       \/ command = "sqli" /\ Isolation!Next /\ UNCHANGED <<setupVars, seedVars, demoVars>>

OneSpec == OneInit /\ [][OneNext]_<<command, setupVars, seedVars, demoVars, sqliVars>>

=============================================================================
