----------------------------- MODULE RedTeamGates -----------------------------
(***************************************************************************)
(* What a Red Team chat request passes before it is served, and the Redis  *)
(* keys it leaves there: the reservation that de-duplicates the event of a *)
(* forged role (log_jwt_manipulation_attempt) and the request counter of   *)
(* the Rate Limiter defense (enforce_rate_limit).                          *)
(*                                                                         *)
(* The requests are those of one user claiming one role from one address   *)
(* in one session, so each of the two keys is a single one; other keys are *)
(* independent.  JWT Strict Mode is off: with it a forged request ends     *)
(* after its report, which uses a key of its own in the same way.          *)
(*                                                                         *)
(* Each Redis command and each event write is a step, since the code       *)
(* awaits it.  A Redis command that fails may have been applied.           *)
(* A reservation lives 15 minutes and a request far less: it is assumed    *)
(* not to expire while the request that made it is still reporting.        *)
(***************************************************************************)
EXTENDS Integers, FiniteSets

CONSTANTS
    Requests,   \* chat requests, each served once
    Rpm,        \* the session's rate_limit_rpm
    MaxExpiries,\* bound on the expiries of each key
    MaxFaults   \* bound on crashes and failures of Redis and the database

ASSUME GatesAssumption ==
    /\ Rpm \in Nat \ {0}
    /\ MaxExpiries \in Nat
    /\ MaxFaults \in Nat

VARIABLES
    limited,      \* the session's rate_limit_enabled
    phase,        \* where each request is
    owns,         \* requests whose SET NX made the reservation, for all they know
    reservation,  \* the jwt_forgery key exists
    reported,     \* AUTH_BYPASS_ATTEMPT events of reserving requests in this window
    unconfirmed,  \* those whose write was taken for failed after its commit
    excused,      \* a crash or Redis kept the reservation from being released
    counter,      \* the rate_limit key; 0: it does not exist
    expiring,     \* it has a TTL
    served,       \* requests let through since the counter was made (history)
    expiries, faults

forgeryVars == <<owns, reservation, reported, unconfirmed, excused>>
limiterVars == <<counter, expiring, served>>
vars == <<limited, phase, forgeryVars, limiterVars, expiries, faults>>

Phases == {"idle", "reserve", "report", "release", "limit", "count", "expire", "alarm", "done"}

Init ==
    /\ limited \in BOOLEAN
    /\ phase = [r \in Requests |-> "idle"]
    /\ owns = {}
    /\ reservation = FALSE /\ reported = 0 /\ unconfirmed = 0 /\ excused = FALSE
    /\ counter = 0 /\ expiring = FALSE /\ served = 0
    /\ expiries = 0 /\ faults = 0

Goto(r, p) == phase' = [phase EXCEPT ![r] = p]

Fault == faults < MaxFaults /\ faults' = faults + 1

-----------------------------------------------------------------------------
(* The report of a forged role: get_current_user_vulnerable *)

Arrive(r) ==
    /\ phase[r] = "idle"
    /\ Goto(r, "reserve") \/ Goto(r, "limit")
    /\ UNCHANGED <<limited, forgeryVars, limiterVars, expiries, faults>>

(* Mutant: SET without NX, every attempt reserves.                         *)
NeverReserved == FALSE

AlreadyReserved == reservation

(* SET NX EX: a request that finds the key reports nothing.                *)
Reserve(r) ==
    /\ phase[r] = "reserve"
    /\ \/ /\ AlreadyReserved
          /\ Goto(r, "limit")
          /\ UNCHANGED forgeryVars
       \/ /\ ~AlreadyReserved
          /\ reservation' = TRUE
          /\ excused' = FALSE
          /\ owns' = owns \cup {r}
          /\ Goto(r, "report")
          /\ UNCHANGED <<reported, unconfirmed>>
    /\ UNCHANGED <<limited, limiterVars, expiries, faults>>

(* Redis fails: the attempt is reported without a reservation it knows of. *)
ReserveFails(r) ==
    /\ phase[r] = "reserve"
    /\ Fault
    /\ \/ UNCHANGED <<reservation, excused>>
       \/ ~reservation /\ reservation' = TRUE /\ excused' = TRUE
    /\ Goto(r, "report")
    /\ UNCHANGED <<limited, owns, reported, unconfirmed, limiterVars, expiries>>

CountReport(r) == reported' = IF r \in owns THEN reported + 1 ELSE reported

(* The event is committed.                                                 *)
Report(r) ==
    /\ phase[r] = "report"
    /\ CountReport(r)
    /\ owns' = owns \ {r}
    /\ Goto(r, "limit")
    /\ UNCHANGED <<limited, reservation, unconfirmed, excused, limiterVars, expiries, faults>>

(* Mutant: a failed write keeps the reservation.                           *)
KeepReservation(r) == Goto(r, "limit") /\ owns' = owns \ {r}

(* Mutant: a failed write ends the report.                                 *)
ForgetOwner(r) == Goto(r, "limit") /\ UNCHANGED owns

(* A failed write releases the reservation, if the request knows it made   *)
(* one.                                                                    *)
AfterFailedWrite(r) ==
    /\ Goto(r, IF r \in owns THEN "release" ELSE "limit")
    /\ UNCHANGED owns

ReportFails(r) ==
    /\ phase[r] = "report"
    /\ Fault
    /\ AfterFailedWrite(r)
    /\ UNCHANGED <<limited, reservation, reported, unconfirmed, excused, limiterVars,
                   expiries>>

(* The event is committed, but the refresh after the commit fails: the     *)
(* write is taken for failed.                                              *)
RefreshFails(r) ==
    /\ phase[r] = "report"
    /\ Fault
    /\ CountReport(r)
    /\ unconfirmed' = IF r \in owns THEN unconfirmed + 1 ELSE unconfirmed
    /\ AfterFailedWrite(r)
    /\ UNCHANGED <<limited, reservation, excused, limiterVars, expiries>>

Release(r) ==
    /\ phase[r] = "release"
    /\ reservation' = FALSE
    /\ owns' = owns \ {r}
    /\ Goto(r, "limit")
    /\ UNCHANGED <<limited, reported, unconfirmed, excused, limiterVars, expiries, faults>>

ReleaseFails(r) ==
    /\ phase[r] = "release"
    /\ Fault
    /\ reservation' \in {TRUE, FALSE}
    /\ excused' = TRUE
    /\ owns' = owns \ {r}
    /\ Goto(r, "limit")
    /\ UNCHANGED <<limited, reported, unconfirmed, limiterVars, expiries>>

ReservationExpires ==
    /\ reservation /\ owns = {}
    /\ expiries < MaxExpiries
    /\ expiries' = expiries + 1
    /\ reservation' = FALSE
    /\ reported' = 0 /\ unconfirmed' = 0
    /\ UNCHANGED <<limited, phase, owns, excused, limiterVars, faults>>

-----------------------------------------------------------------------------
(* The Rate Limiter: enforce_rate_limit *)

(* The Blue Team buys the Rate Limiter.                                    *)
SwitchOn ==
    /\ ~limited
    /\ limited' = TRUE
    /\ UNCHANGED <<phase, forgeryVars, limiterVars, expiries, faults>>

(* The session is read: without the defense nothing is counted.            *)
ReadSession(r) ==
    /\ phase[r] = "limit"
    /\ Goto(r, IF limited THEN "count" ELSE "done")
    /\ UNCHANGED <<limited, forgeryVars, limiterVars, expiries, faults>>

(* Mutant: the count before the increment is compared with the limit.      *)
AdmitByOldCount(r, n) ==
    \/ n - 1 <= Rpm /\ Goto(r, "done") /\ served' = served + 1
    \/ n - 1 > Rpm /\ Goto(r, "alarm") /\ UNCHANGED served

(* The verdict on the n-th request of the window.                          *)
Admit(r, n) ==
    \/ n <= Rpm /\ Goto(r, "done") /\ served' = served + 1
    \/ n > Rpm /\ Goto(r, "alarm") /\ UNCHANGED served

(* INCR; the first request of a window goes on to EXPIRE.                  *)
Increment(r) ==
    /\ phase[r] = "count"
    /\ counter' = counter + 1
    /\ \/ counter = 0 /\ Goto(r, "expire") /\ UNCHANGED served
       \/ counter # 0 /\ Admit(r, counter + 1)
    /\ UNCHANGED <<limited, forgeryVars, expiring, expiries, faults>>

SetExpiry(r) ==
    /\ phase[r] = "expire"
    /\ expiring' = TRUE
    /\ Admit(r, 1)
    /\ UNCHANGED <<limited, forgeryVars, counter, expiries, faults>>

(* Redis fails: the request ends in an error.                              *)
LimiterFails(r) ==
    /\ phase[r] \in {"count", "expire"}
    /\ Fault
    /\ \/ UNCHANGED <<counter, expiring>>
       \/ phase[r] = "count" /\ counter' = counter + 1 /\ UNCHANGED expiring
       \/ phase[r] = "expire" /\ expiring' = TRUE /\ UNCHANGED counter
    /\ Goto(r, "done")
    /\ UNCHANGED <<limited, forgeryVars, served, expiries>>

(* DOS_ATTEMPT_BLOCKED is written (or its write fails), and 429 answered.  *)
Block(r) ==
    /\ phase[r] = "alarm"
    /\ Goto(r, "done")
    /\ UNCHANGED <<limited, forgeryVars, limiterVars, expiries, faults>>

CounterExpires ==
    /\ expiring
    /\ expiries < MaxExpiries
    /\ expiries' = expiries + 1
    /\ counter' = 0 /\ expiring' = FALSE /\ served' = 0
    /\ UNCHANGED <<limited, phase, forgeryVars, faults>>

-----------------------------------------------------------------------------
(* The server process dies; Redis keeps its keys.                          *)
Crash ==
    /\ Fault
    /\ phase' = [r \in Requests |-> IF phase[r] = "idle" THEN "idle" ELSE "done"]
    /\ excused' = (excused \/ owns # {})
    /\ owns' = {}
    /\ UNCHANGED <<limited, reservation, reported, unconfirmed, limiterVars, expiries>>

Serve(r) ==
    \/ Arrive(r) \/ Reserve(r) \/ ReserveFails(r) \/ Report(r) \/ ReportFails(r)
    \/ RefreshFails(r) \/ Release(r) \/ ReleaseFails(r)
    \/ ReadSession(r) \/ Increment(r) \/ SetExpiry(r) \/ LimiterFails(r) \/ Block(r)

Next ==
    \/ ReservationExpires \/ SwitchOn \/ CounterExpires \/ Crash
    \/ \E r \in Requests : Serve(r)

Spec == Init /\ [][Next]_vars

-----------------------------------------------------------------------------
(* Properties *)

(* Type invariant.                                                         *)
TypeOK ==
    /\ limited \in BOOLEAN
    /\ phase \in [Requests -> Phases]
    /\ owns \subseteq {r \in Requests : phase[r] \in {"report", "release"}}
    /\ reservation \in BOOLEAN /\ reported \in Nat /\ unconfirmed \in Nat
    /\ excused \in BOOLEAN
    /\ counter \in Nat /\ expiring \in BOOLEAN /\ served \in Nat
    /\ expiries \in Nat /\ faults \in Nat

(* A failed event write never hides a forgery for the window               *)
(* (siem/service.py:85): while the reservation turns attempts away, the    *)
(* event is in the log or about to be, unless a crash or Redis itself kept *)
(* the reservation from being released.                                    *)
ForgeryNotHidden ==
    reservation /\ ~excused => reported > 0 \/ owns # {}

(* While Redis answers, a window has one AUTH_BYPASS_ATTEMPT               *)
(* (docs/architecture.md:84-86): concurrent attempts, failed writes and    *)
(* crashes do not report it twice, unless a write is taken for failed      *)
(* after it was committed.                                                 *)
OneReportPerWindow ==
    reported <= 1 + unconfirmed

(* At most Rpm requests pass in the life of a counter, however they        *)
(* interleave with each other, with its expiry and with failures.          *)
WithinLimit == served <= Rpm

(* What README.md:84-85 says of the limiter, "a per-session/IP counter     *)
(* with a 60-second expiry": a counter has a TTL, or the request that made *)
(* it is about to set it.                                                  *)
CounterHasExpiry ==
    counter > 0 => expiring \/ \E r \in Requests : phase[r] = "expire"

=============================================================================
