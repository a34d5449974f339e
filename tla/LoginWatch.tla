------------------------------ MODULE LoginWatch ------------------------------
(***************************************************************************)
(* Login attempts from one source in one lab: the Login Hardening limiter  *)
(* (enforce_login_attempt_limit) and the record of failed logins           *)
(* (log_failed_login), as authenticate runs them for concurrent requests.  *)
(*                                                                         *)
(* The clock counts minutes.  A limiter counter is a Redis key per minute; *)
(* it is assumed to outlive the requests that read the clock in its minute *)
(* (60 s after its last increment; nothing enforces it), so its expiry is  *)
(* not modelled.  Counters and advisory locks of other labs and sources    *)
(* are independent of these.                                               *)
(***************************************************************************)
EXTENDS Integers, FiniteSets, Sequences

CONSTANTS
    Requests,   \* login attempts, each served once
    Users,      \* the usernames they try
    Limit,      \* LOGIN_ATTEMPTS_PER_MINUTE
    Window,     \* LOGIN_ENUMERATION_WINDOW, in minutes
    Horizon,    \* bound on the clock
    MaxFaults   \* bound on crashes and failures of Redis and the database

ASSUME LoginAssumption ==
    /\ IsFiniteSet(Requests)
    /\ Limit \in Nat \ {0}
    /\ Window \in Nat
    /\ Horizon \in Nat
    /\ MaxFaults \in Nat

Minutes == 0 .. Horizon

VARIABLES
    clock,
    hardening,  \* the session's login_hardening_enabled
    phase,      \* where each request is
    user,       \* the username it tries
    time,       \* the minute its limiter key or its window starts from
    seen,       \* usernames counted for its event; {} if counting failed
    locker,     \* requests holding the advisory lock
    counter,    \* the limiter's counters
    admitted,   \* logins each counter let pass (history)
    alarms,     \* LOGIN_RATE_LIMITED events caused by each counter
    log,        \* LOGIN_FAILED events in the order they were committed
    faults

vars == <<clock, hardening, phase, user, time, seen, locker, counter, admitted,
          alarms, log, faults>>

Phases == {"idle", "limit", "alarm", "verify", "lock", "count", "write", "done"}

Init ==
    /\ clock = 0
    /\ hardening \in BOOLEAN
    /\ phase = [r \in Requests |-> "idle"]
    /\ user \in [Requests -> Users]
    /\ time = [r \in Requests |-> 0]
    /\ seen = [r \in Requests |-> {}]
    /\ locker = {}
    /\ counter = [m \in Minutes |-> 0]
    /\ admitted = [m \in Minutes |-> 0]
    /\ alarms = [m \in Minutes |-> 0]
    /\ log = <<>>
    /\ faults = 0

Goto(r, p) == phase' = [phase EXCEPT ![r] = p]

(* The attempt is answered.                                                *)
Leave(r) ==
    /\ Goto(r, "done")
    /\ time' = [time EXCEPT ![r] = 0]
    /\ seen' = [seen EXCEPT ![r] = {}]

limiterVars == <<counter, admitted, alarms>>

Tick ==
    /\ clock < Horizon
    /\ clock' = clock + 1
    /\ UNCHANGED <<hardening, phase, user, time, seen, locker, limiterVars, log, faults>>

(* The Blue Team buys Login Hardening.                                     *)
Harden ==
    /\ ~hardening
    /\ hardening' = TRUE
    /\ UNCHANGED <<clock, phase, user, time, seen, locker, limiterVars, log, faults>>

-----------------------------------------------------------------------------
(* The limiter *)

(* authenticate reads the session; a hardened one sends the attempt to the *)
(* limiter, which reads the clock for its key.                             *)
Arrive(r) ==
    /\ phase[r] = "idle"
    /\ \/ hardening /\ Goto(r, "limit") /\ time' = [time EXCEPT ![r] = clock]
       \/ ~hardening /\ Goto(r, "verify") /\ UNCHANGED time
    /\ UNCHANGED <<clock, hardening, user, seen, locker, limiterVars, log, faults>>

(* Mutant: the alarm is raised for every blocked attempt.                  *)
EveryBlocked(n) == n > Limit

FirstBlocked(n) == n = Limit + 1

(* INCR and EXPIRE in one transaction, then the verdict on the count.      *)
CountAttempt(r) ==
    LET m == time[r]
        n == counter[m] + 1
    IN  /\ phase[r] = "limit"
        /\ counter' = [counter EXCEPT ![m] = n]
        /\ \/ /\ n <= Limit
              /\ admitted' = [admitted EXCEPT ![m] = @ + 1]
              /\ Goto(r, "verify")
              /\ UNCHANGED <<time, seen>>
           \/ /\ n > Limit /\ FirstBlocked(n)
              /\ Goto(r, "alarm")
              /\ UNCHANGED <<time, seen, admitted>>
           \/ /\ n > Limit /\ ~FirstBlocked(n)
              /\ Leave(r)
              /\ UNCHANGED admitted
        /\ UNCHANGED <<clock, hardening, user, locker, alarms, log, faults>>

(* Redis is unreachable, before or after it counted: the attempt passes.   *)
LimiterFails(r) ==
    /\ phase[r] = "limit"
    /\ faults < MaxFaults
    /\ faults' = faults + 1
    /\ counter' \in {counter, [counter EXCEPT ![time[r]] = @ + 1]}
    /\ Goto(r, "verify")
    /\ UNCHANGED <<clock, hardening, user, time, seen, locker, admitted, alarms, log>>

(* LOGIN_RATE_LIMITED is written and 429 answered.                         *)
Alarm(r) ==
    /\ phase[r] = "alarm"
    /\ alarms' = [alarms EXCEPT ![time[r]] = @ + 1]
    /\ Leave(r)
    /\ UNCHANGED <<clock, hardening, user, locker, counter, admitted, log, faults>>

(* The event write fails: it is rolled back and 429 answered.              *)
AlarmFails(r) ==
    /\ phase[r] = "alarm"
    /\ faults < MaxFaults
    /\ faults' = faults + 1
    /\ Leave(r)
    /\ UNCHANGED <<clock, hardening, user, locker, limiterVars, log>>

-----------------------------------------------------------------------------
(* The record of failed logins *)

(* The password is right, or the attempt failed: the read transaction ends *)
(* and log_failed_login reads the clock for its window.                    *)
Verify(r) ==
    /\ phase[r] = "verify"
    /\ \/ Leave(r)
       \/ Goto(r, "lock") /\ time' = [time EXCEPT ![r] = clock] /\ UNCHANGED seen
    /\ UNCHANGED <<clock, hardening, user, locker, limiterVars, log, faults>>

(* Mutant: failures of one source do not wait for each other.              *)
CountUnlocked(r) ==
    /\ phase[r] = "lock"
    /\ Goto(r, "count")
    /\ UNCHANGED <<clock, hardening, user, time, seen, locker, limiterVars, log, faults>>

(* pg_advisory_xact_lock, held until commit or rollback.                   *)
LockSource(r) ==
    /\ phase[r] = "lock"
    /\ locker = {}
    /\ locker' = locker \cup {r}
    /\ Goto(r, "count")
    /\ UNCHANGED <<clock, hardening, user, time, seen, limiterVars, log, faults>>

(* Commit or rollback.                                                     *)
ReleaseSource(r) == locker' = locker \ {r}

(* recent_failed_login_usernames, with the attempt's own username.         *)
CountUsers(r) ==
    /\ phase[r] = "count"
    /\ seen' = [seen EXCEPT ![r] =
                  {log[i].user : i \in {j \in DOMAIN log : log[j].time >= time[r] - Window}}
                    \cup {user[r]}]
    /\ Goto(r, "write")
    /\ UNCHANGED <<clock, hardening, user, time, locker, limiterVars, log, faults>>

(* Locking or counting fails: rolled back, and logged without a count.     *)
CountFails(r) ==
    /\ phase[r] \in {"lock", "count"}
    /\ faults < MaxFaults
    /\ faults' = faults + 1
    /\ ReleaseSource(r)
    /\ Goto(r, "write")
    /\ UNCHANGED <<clock, hardening, user, time, seen, limiterVars, log>>

(* Mutant: the event is written in a session of its own, and the one that  *)
(* took the lock stays open.                                               *)
WriteElsewhere(r) ==
    /\ phase[r] = "write"
    /\ log' = Append(log, [user |-> user[r], seen |-> seen[r], time |-> clock])
    /\ Leave(r)
    /\ UNCHANGED <<clock, hardening, user, locker, limiterVars, faults>>

(* LOGIN_FAILED is committed, and the lock released.                       *)
WriteFailure(r) ==
    /\ phase[r] = "write"
    /\ log' = Append(log, [user |-> user[r], seen |-> seen[r], time |-> clock])
    /\ ReleaseSource(r)
    /\ Leave(r)
    /\ UNCHANGED <<clock, hardening, user, limiterVars, faults>>

WriteFails(r) ==
    /\ phase[r] = "write"
    /\ faults < MaxFaults
    /\ faults' = faults + 1
    /\ ReleaseSource(r)
    /\ Leave(r)
    /\ UNCHANGED <<clock, hardening, user, limiterVars, log>>

(* The server process dies; PostgreSQL ends its transactions.              *)
Crash ==
    /\ faults < MaxFaults
    /\ faults' = faults + 1
    /\ phase' = [r \in Requests |-> IF phase[r] = "idle" THEN "idle" ELSE "done"]
    /\ time' = [r \in Requests |-> 0]
    /\ seen' = [r \in Requests |-> {}]
    /\ locker' = {}
    /\ UNCHANGED <<clock, hardening, user, limiterVars, log>>

-----------------------------------------------------------------------------
Serve(r) ==
    \/ Arrive(r) \/ CountAttempt(r) \/ LimiterFails(r) \/ Alarm(r) \/ AlarmFails(r)
    \/ Verify(r) \/ LockSource(r) \/ CountUsers(r) \/ CountFails(r)
    \/ WriteFailure(r) \/ WriteFails(r)

Next == Tick \/ Harden \/ Crash \/ \E r \in Requests : Serve(r)

Spec == Init /\ [][Next]_vars

-----------------------------------------------------------------------------
(* Properties *)

(* Type invariant; the advisory lock is held only while a failure is       *)
(* counted and written.                                                    *)
TypeOK ==
    /\ clock \in Minutes
    /\ hardening \in BOOLEAN
    /\ phase \in [Requests -> Phases]
    /\ user \in [Requests -> Users]
    /\ time \in [Requests -> Minutes]
    /\ seen \in [Requests -> SUBSET Users]
    /\ locker \subseteq {r \in Requests : phase[r] \in {"count", "write"}}
    /\ counter \in [Minutes -> Nat]
    /\ admitted \in [Minutes -> Nat]
    /\ alarms \in [Minutes -> Nat]
    /\ log \in Seq([user: Users, seen: SUBSET Users, time: Minutes])
    /\ faults \in Nat

Counted(i) == log[i].seen # {}

(* Users of the counted failures within the window of the i-th event, up   *)
(* to it.                                                                  *)
RecentUsers(i) ==
    {log[j].user :
        j \in {k \in 1 .. i : Counted(k) /\ log[k].time >= log[i].time - Window}}

(* Concurrent failures count each other (docs/architecture.md:67-69): an   *)
(* event's count covers every username that failed in its window and was   *)
(* recorded before it, so the event that completes an enumeration shows    *)
(* it.  A failure whose own counting failed is no part of this: it is      *)
(* written without the lock, between the count and the write of another.   *)
CountsIncludeEarlier ==
    \A i \in DOMAIN log : Counted(i) => RecentUsers(i) \subseteq log[i].seen

(* A source gets at most Limit attempts past the limiter in a minute while *)
(* Redis answers, and the first blocked one raises the window's only       *)
(* LOGIN_RATE_LIMITED event (docs/architecture.md:72-73).                  *)
Throttled ==
    \A m \in Minutes :
        /\ admitted[m] <= Limit
        /\ alarms[m] + Cardinality({r \in Requests : phase[r] = "alarm" /\ time[r] = m}) <= 1
        /\ alarms[m] > 0 => counter[m] > Limit

=============================================================================
