---------------------------- MODULE MCBlueTeamGame ----------------------------
(***************************************************************************)
(* Instances of BlueTeamGame for TLC.                                      *)
(***************************************************************************)
EXTENDS BlueTeamGame, TLC

CONSTANTS soloLab, duoLab, jwtFilter, rateLimit, flood, chat, other

(* Two labs, one served by the Auto-SOC; a false alarm and an attack in    *)
(* the solo lab, one of them rule-judged, and an attack in the other lab.  *)
MCLabOf == (flood :> soloLab) @@ (chat :> soloLab) @@ (other :> duoLab)

(* The initial budget of 3 pays either defense, but not both.              *)
MCPrice == [d \in Defenses |-> IF d = jwtFilter THEN 2 ELSE 3]

(* Every event in the lab the Auto-SOC serves.                             *)
MCSoloLabOf == [e \in Events |-> soloLab]

Symmetric == Permutations(Requests)

(* For the liveness: two players buy and investigate while two events are  *)
(* written, or one investigates while all four are; nobody claims a hit.   *)
Quiet ==
    /\ \A r \in Requests : job[r].kind = "investigate" => ~job[r].claim
    /\ \/ \A e \in Events \ {flood, chat} : ~Written(e)
       \/ LET r == CHOOSE r \in Requests : TRUE
          IN  job[r].kind # "buy" /\ \A q \in Requests \ {r} : phase[q] = "idle"

QuietLiveSpec == Init /\ [][Next /\ Quiet']_vars /\ Fairness

=============================================================================
