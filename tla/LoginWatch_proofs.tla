-------------------------- MODULE LoginWatch_proofs --------------------------
(***************************************************************************)
(* Theorems about LoginWatch for any set of concurrent login attempts, any *)
(* limit and any window.                                                   *)
(***************************************************************************)
EXTENDS LoginWatch, FiniteSetTheorems, TLAPS

USE LoginAssumption DEF LoginAssumption

(* Usernames of the counted failures at or after time t.                   *)
CountedSince(t) ==
    {log[j].user : j \in {k \in DOMAIN log : Counted(k) /\ log[k].time >= t}}

(* Only the holder of the advisory lock has a count, and until it writes   *)
(* its count covers every counted failure of its window.                   *)
CountsCurrent ==
    /\ \A q, r \in locker : q = r
    /\ \A r \in Requests :
         /\ phase[r] = "count" => r \in locker
         /\ phase[r] # "write" => seen[r] = {}
         /\ phase[r] = "write" /\ seen[r] # {} =>
              /\ r \in locker
              /\ user[r] \in seen[r]
              /\ CountedSince(time[r] - Window) \subseteq seen[r]
         /\ time[r] <= clock

(* Who is about to raise the alarm of a minute, and when one is raised.    *)
Alarming(r, m) == phase[r] = "alarm" /\ time[r] = m

AlarmsCurrent ==
    \A m \in Minutes :
        /\ admitted[m] <= counter[m]
        /\ admitted[m] <= Limit
        /\ counter[m] <= Limit => alarms[m] = 0 /\ \A r \in Requests : ~Alarming(r, m)
        /\ alarms[m] <= 1
        /\ \A r \in Requests : Alarming(r, m) => alarms[m] = 0
        /\ \A q, r \in Requests : Alarming(q, m) /\ Alarming(r, m) => q = r

Watch == TypeOK /\ CountsCurrent /\ CountsIncludeEarlier

IInv == Watch /\ AlarmsCurrent

LEMMA InitInv == ASSUME Init PROVE IInv
<1>1. /\ phase \in [Requests -> Phases] /\ \A r \in Requests : phase[r] = "idle"
      /\ seen \in [Requests -> SUBSET Users] /\ \A r \in Requests : seen[r] = {}
      /\ time \in [Requests -> Minutes] /\ \A r \in Requests : time[r] = 0
      /\ counter \in [Minutes -> Nat] /\ \A m \in Minutes : counter[m] = 0
      /\ admitted \in [Minutes -> Nat] /\ \A m \in Minutes : admitted[m] = 0
      /\ alarms \in [Minutes -> Nat] /\ \A m \in Minutes : alarms[m] = 0
  BY DEF Init, Phases, Minutes
<1>2. log \in Seq([user: Users, seen: SUBSET Users, time: Minutes]) /\ DOMAIN log = {}
  BY DEF Init
<1>3. TypeOK
  BY <1>1, <1>2 DEF Init, TypeOK, Minutes
<1>4. CountsCurrent
  BY <1>1 DEF Init, CountsCurrent
<1>5. CountsIncludeEarlier
  BY <1>2 DEF CountsIncludeEarlier
<1>6. AlarmsCurrent
  BY <1>1 DEF AlarmsCurrent, Alarming
<1>7. QED
  BY <1>3, <1>4, <1>5, <1>6 DEF IInv, Watch

-----------------------------------------------------------------------------
(* What a step keeps *)

(* A request that moves, and what it carries along.                        *)
LEMMA Moves ==
    ASSUME TypeOK, NEW r \in Requests, NEW p \in Phases, Goto(r, p)
    PROVE  /\ phase' \in [Requests -> Phases] /\ phase'[r] = p
           /\ \A q \in Requests : q # r => phase'[q] = phase[q]
BY DEF TypeOK, Goto

LEMMA Leaves ==
    ASSUME TypeOK, NEW r \in Requests, Leave(r)
    PROVE  /\ phase' \in [Requests -> Phases] /\ phase'[r] = "done"
           /\ time' \in [Requests -> Minutes] /\ time'[r] = 0
           /\ seen' \in [Requests -> SUBSET Users] /\ seen'[r] = {}
           /\ \A q \in Requests : q # r =>
                phase'[q] = phase[q] /\ time'[q] = time[q] /\ seen'[q] = seen[q]
BY DEF TypeOK, Leave, Goto, Phases, Minutes

(* A step that leaves the log alone keeps what was counted.                *)
LEMMA LogKept ==
    ASSUME UNCHANGED log
    PROVE  /\ CountsIncludeEarlier => CountsIncludeEarlier'
           /\ \A t : CountedSince(t)' = CountedSince(t)
<1>1. \A k : Counted(k)' <=> Counted(k)
  BY DEF Counted
<1>2. \A i : RecentUsers(i)' = RecentUsers(i)
  BY <1>1 DEF RecentUsers
<1>3. CountsIncludeEarlier => CountsIncludeEarlier'
  BY <1>1, <1>2 DEF CountsIncludeEarlier
<1>4. QED
  BY <1>1, <1>3 DEF CountedSince

(* A request that moves outside the count keeps CountsCurrent.             *)
LEMMA CountsKept ==
    ASSUME Watch, NEW r \in Requests, UNCHANGED <<log, user, clock, locker>>,
           phase[r] \notin {"count", "write"}, phase'[r] \notin {"count", "write"},
           seen'[r] = {}, time'[r] \in Minutes, time'[r] <= clock,
           \A q \in Requests : q # r =>
             phase'[q] = phase[q] /\ time'[q] = time[q] /\ seen'[q] = seen[q]
    PROVE  CountsCurrent' /\ CountsIncludeEarlier'
<1>1. \A t : CountedSince(t)' = CountedSince(t)
  BY LogKept
<1>2. ASSUME NEW q \in Requests
      PROVE  /\ phase'[q] = "count" => q \in locker'
             /\ phase'[q] # "write" => seen'[q] = {}
             /\ phase'[q] = "write" /\ seen'[q] # {} =>
                  /\ q \in locker'
                  /\ user'[q] \in seen'[q]
                  /\ CountedSince(time'[q] - Window) \subseteq seen'[q]
             /\ time'[q] <= clock'
  <2>1. CASE q = r
    BY <2>1
  <2>2. CASE q # r
    BY <2>2 DEF Watch, CountsCurrent
  <2>3. QED
    BY <2>1, <2>2
<1>3. CountsCurrent'
  BY <1>1, <1>2 DEF Watch, CountsCurrent
<1>4. QED
  BY <1>3, LogKept DEF Watch

(* A step that raises no alarm and does not count keeps AlarmsCurrent.     *)
LEMMA AlarmsKept ==
    ASSUME AlarmsCurrent, UNCHANGED limiterVars,
           \A q \in Requests, m \in Minutes : Alarming(q, m)' => Alarming(q, m)
    PROVE  AlarmsCurrent'
<1>1. counter' = counter /\ admitted' = admitted /\ alarms' = alarms
  BY DEF limiterVars
<1>2. QED
  BY <1>1 DEF AlarmsCurrent

LEMMA TickStep == ASSUME IInv, Tick PROVE IInv'
<1>1. TypeOK /\ TypeOK'
  <2>1. clock' \in Minutes
    BY DEF IInv, Watch, TypeOK, Tick, Minutes
  <2>2. QED
    BY <2>1 DEF IInv, Watch, TypeOK, Tick, limiterVars
<1>2. CountsCurrent' /\ CountsIncludeEarlier'
  <2>1. clock \in Int /\ clock' = clock + 1 /\ time \in [Requests -> Int]
    BY <1>1 DEF Tick, TypeOK, Minutes
  <2>2. \A q \in Requests : time[q] <= clock'
    BY <2>1 DEF IInv, Watch, CountsCurrent
  <2>3. UNCHANGED <<log, phase, user, time, seen, locker>>
    BY DEF Tick
  <2>4. /\ \A t : CountedSince(t)' = CountedSince(t)
        /\ CountsIncludeEarlier'
    BY <2>3, LogKept DEF IInv, Watch
  <2>5. QED
    BY <2>2, <2>3, <2>4 DEF IInv, Watch, CountsCurrent
<1>3. AlarmsCurrent'
  BY AlarmsKept DEF IInv, Tick, Alarming
<1>4. QED
  BY <1>1, <1>2, <1>3 DEF IInv, Watch

LEMMA HardenStep == ASSUME IInv, Harden PROVE IInv'
<1>1. TypeOK'
  <2>1. hardening' \in BOOLEAN
    BY Zenon DEF Harden
  <2>2. QED
    BY <2>1 DEF IInv, Watch, TypeOK, Harden, limiterVars
<1>2. CountsCurrent' /\ CountsIncludeEarlier'
  <2>1. UNCHANGED <<log, phase, user, time, seen, locker, clock>>
    BY DEF Harden
  <2>2. /\ \A t : CountedSince(t)' = CountedSince(t)
        /\ CountsIncludeEarlier'
    BY <2>1, LogKept DEF IInv, Watch
  <2>3. QED
    BY <2>1, <2>2 DEF IInv, Watch, CountsCurrent
<1>3. AlarmsCurrent'
  BY AlarmsKept DEF IInv, Harden, Alarming
<1>4. QED
  BY <1>1, <1>2, <1>3 DEF IInv, Watch

-----------------------------------------------------------------------------
(* The limiter *)

LEMMA ArriveStep == ASSUME IInv, NEW r \in Requests, Arrive(r) PROVE IInv'
<1>1. TypeOK
  BY DEF IInv, Watch
<1>2. PICK p \in {"limit", "verify"} :
        Goto(r, p) /\ (time' = time \/ time' = [time EXCEPT ![r] = clock])
  BY DEF Arrive
<1>3. /\ phase' \in [Requests -> Phases] /\ phase'[r] = p
      /\ \A q \in Requests : q # r => phase'[q] = phase[q]
  BY <1>1, <1>2, Moves DEF Phases
<1>4. /\ time' \in [Requests -> Minutes]
      /\ time'[r] \in {time[r], clock}
      /\ \A q \in Requests : q # r => time'[q] = time[q]
  BY <1>1, <1>2 DEF TypeOK
<1>5. phase[r] = "idle" /\ UNCHANGED <<clock, hardening, user, seen, locker, log, faults>>
  BY DEF Arrive
<1>6. TypeOK'
  BY <1>1, <1>3, <1>4, <1>5 DEF TypeOK, Arrive, limiterVars
<1>7. CountsCurrent' /\ CountsIncludeEarlier'
  <2>1. time[r] <= clock /\ seen'[r] = {}
    BY <1>5 DEF IInv, Watch, CountsCurrent
  <2>2. time'[r] <= clock
    BY SMTT(30), <1>1, <1>4, <2>1 DEF TypeOK, Minutes
  <2>3. phase[r] \notin {"count", "write"} /\ phase'[r] \notin {"count", "write"}
    BY <1>3, <1>5
  <2>4. \A q \in Requests : q # r =>
          phase'[q] = phase[q] /\ time'[q] = time[q] /\ seen'[q] = seen[q]
    BY <1>3, <1>4, <1>5
  <2>5. time'[r] \in Minutes
    BY <1>4
  <2>6. QED
    BY <1>5, <2>1, <2>2, <2>3, <2>4, <2>5, CountsKept DEF IInv
<1>8. AlarmsCurrent'
  <2>1. \A q \in Requests, m \in Minutes : Alarming(q, m)' => Alarming(q, m)
    BY <1>3, <1>4 DEF Alarming
  <2>2. QED
    BY <2>1, AlarmsKept DEF IInv, Arrive
<1>9. QED
  BY <1>6, <1>7, <1>8 DEF IInv, Watch

LEMMA LimiterFailsStep == ASSUME IInv, NEW r \in Requests, LimiterFails(r) PROVE IInv'
<1>1. TypeOK
  BY DEF IInv, Watch
<1>2. /\ phase' \in [Requests -> Phases] /\ phase'[r] = "verify"
      /\ \A q \in Requests : q # r => phase'[q] = phase[q]
  BY <1>1, Moves DEF LimiterFails, Phases
<1>3. /\ phase[r] = "limit"
      /\ UNCHANGED <<clock, hardening, user, time, seen, locker, admitted, alarms, log>>
  BY DEF LimiterFails
<1>4. counter' \in [Minutes -> Nat] /\ \A m \in Minutes : counter'[m] >= counter[m]
  <2>1. counter \in [Minutes -> Nat] /\ time[r] \in Minutes
    BY <1>1 DEF TypeOK
  <2>2. CASE counter' = counter
    BY <2>1, <2>2
  <2>3. CASE counter' = [counter EXCEPT ![time[r]] = @ + 1]
    BY <2>1, <2>3
  <2>4. QED
    BY <2>2, <2>3 DEF LimiterFails
<1>5. faults' \in Nat
  BY <1>1 DEF LimiterFails, TypeOK
<1>6. TypeOK'
  BY <1>1, <1>2, <1>3, <1>4, <1>5 DEF TypeOK
<1>7. CountsCurrent' /\ CountsIncludeEarlier'
  <2>1. seen'[r] = {} /\ time'[r] <= clock /\ time'[r] \in Minutes
    BY <1>1, <1>3 DEF IInv, Watch, CountsCurrent, TypeOK
  <2>2. QED
    BY <1>2, <1>3, <2>1, CountsKept DEF IInv
<1>8. AlarmsCurrent'
  <2>1. \A q \in Requests, m \in Minutes : Alarming(q, m)' => Alarming(q, m)
    BY <1>2, <1>3 DEF Alarming
  <2>2. \A m \in Minutes :
          counter[m] \in Nat /\ counter'[m] \in Nat /\ admitted[m] \in Nat
    BY <1>1, <1>4 DEF TypeOK
  <2>3. ASSUME NEW m \in Minutes
        PROVE  admitted[m] <= counter'[m] /\ (counter'[m] <= Limit => counter[m] <= Limit)
    BY <1>4, <2>2, <2>3 DEF IInv, AlarmsCurrent
  <2>4. QED
    BY <1>3, <2>1, <2>3 DEF IInv, AlarmsCurrent
<1>9. QED
  BY <1>6, <1>7, <1>8 DEF IInv, Watch

(* A request that leaves the limiter answered.                             *)
LEMMA AlarmsAnswered ==
    ASSUME IInv, NEW r \in Requests, phase[r] \notin {"count", "write"}, Leave(r),
           UNCHANGED <<clock, hardening, user, locker, log>>,
           counter' \in [Minutes -> Nat], admitted' \in [Minutes -> Nat],
           alarms' \in [Minutes -> Nat], faults' \in Nat
    PROVE  TypeOK' /\ CountsCurrent' /\ CountsIncludeEarlier'
<1>1. TypeOK
  BY DEF IInv, Watch
<1>2. /\ phase' \in [Requests -> Phases] /\ phase'[r] = "done"
      /\ time' \in [Requests -> Minutes] /\ time'[r] = 0
      /\ seen' \in [Requests -> SUBSET Users] /\ seen'[r] = {}
      /\ \A q \in Requests : q # r =>
           phase'[q] = phase[q] /\ time'[q] = time[q] /\ seen'[q] = seen[q]
  BY <1>1, Leaves
<1>3. TypeOK'
  BY <1>1, <1>2 DEF TypeOK
<1>4. time'[r] \in Minutes /\ time'[r] <= clock
  BY <1>1, <1>2 DEF TypeOK, Minutes
<1>5. CountsCurrent' /\ CountsIncludeEarlier'
  BY <1>2, <1>4, CountsKept DEF IInv
<1>6. QED
  BY <1>3, <1>5

LEMMA CountAttemptStep == ASSUME IInv, NEW r \in Requests, CountAttempt(r) PROVE IInv'
<1> DEFINE M == time[r]
<1>1. TypeOK
  BY DEF IInv, Watch
<1>2. /\ M \in Minutes /\ counter \in [Minutes -> Nat]
      /\ admitted \in [Minutes -> Nat] /\ alarms \in [Minutes -> Nat]
  BY <1>1 DEF TypeOK
<1>3. /\ phase[r] = "limit"
      /\ counter' = [counter EXCEPT ![M] = counter[M] + 1]
      /\ UNCHANGED <<clock, hardening, user, locker, alarms, log, faults>>
  BY DEF CountAttempt
<1>4. /\ counter' \in [Minutes -> Nat] /\ counter'[M] = counter[M] + 1
      /\ \A m \in Minutes : m # M => counter'[m] = counter[m]
  BY <1>2, <1>3
<1> HIDE DEF M
<1>5. CASE /\ counter[M] + 1 <= Limit
           /\ admitted' = [admitted EXCEPT ![M] = @ + 1]
           /\ Goto(r, "verify")
           /\ UNCHANGED <<time, seen>>
  <2>1. /\ phase' \in [Requests -> Phases] /\ phase'[r] = "verify"
        /\ \A q \in Requests : q # r => phase'[q] = phase[q]
    BY <1>1, <1>5, Moves DEF Phases
  <2>2. /\ admitted' \in [Minutes -> Nat] /\ admitted'[M] = admitted[M] + 1
        /\ \A m \in Minutes : m # M => admitted'[m] = admitted[m]
    BY <1>2, <1>5
  <2>3. TypeOK'
    BY <1>1, <1>3, <1>4, <1>5, <2>1, <2>2 DEF TypeOK
  <2>4. CountsCurrent' /\ CountsIncludeEarlier'
    <3>1. seen'[r] = {} /\ time'[r] <= clock /\ time'[r] \in Minutes
      BY <1>1, <1>3, <1>5 DEF IInv, Watch, CountsCurrent, TypeOK
    <3>2. QED
      BY <1>3, <1>5, <2>1, <3>1, CountsKept DEF IInv
  <2>5. \A q \in Requests, m \in Minutes : Alarming(q, m)' => Alarming(q, m)
    BY <1>5, <2>1 DEF Alarming
  <2>6. ASSUME NEW m \in Minutes
        PROVE  /\ admitted'[m] <= counter'[m]
               /\ admitted'[m] <= Limit
               /\ counter'[m] <= Limit => counter[m] <= Limit
    <3>1. CASE m = M
      BY <1>2, <1>4, <1>5, <2>2, <3>1 DEF IInv, AlarmsCurrent
    <3>2. CASE m # M
      BY <1>4, <2>2, <3>2 DEF IInv, AlarmsCurrent
    <3>3. QED
      BY <3>1, <3>2
  <2>7. AlarmsCurrent'
    BY <1>3, <2>5, <2>6 DEF IInv, AlarmsCurrent
  <2>8. QED
    BY <2>3, <2>4, <2>7 DEF IInv, Watch
<1>6. CASE /\ counter[M] + 1 = Limit + 1
           /\ Goto(r, "alarm")
           /\ UNCHANGED <<time, seen, admitted>>
  <2>1. /\ phase' \in [Requests -> Phases] /\ phase'[r] = "alarm"
        /\ \A q \in Requests : q # r => phase'[q] = phase[q]
    BY <1>1, <1>6, Moves DEF Phases
  <2>2. TypeOK'
    BY <1>1, <1>3, <1>4, <1>6, <2>1 DEF TypeOK
  <2>3. CountsCurrent' /\ CountsIncludeEarlier'
    <3>1. seen'[r] = {} /\ time'[r] <= clock /\ time'[r] \in Minutes
      BY <1>1, <1>3, <1>6 DEF IInv, Watch, CountsCurrent, TypeOK
    <3>2. QED
      BY <1>3, <1>6, <2>1, <3>1, CountsKept DEF IInv
  <2>4. counter[M] <= Limit /\ counter'[M] > Limit
    BY <1>2, <1>4, <1>6
  <2>5. alarms[M] = 0 /\ \A q \in Requests : ~Alarming(q, M)
    BY <1>2, <2>4 DEF IInv, AlarmsCurrent
  <2>6. \A q \in Requests, m \in Minutes :
          Alarming(q, m)' <=> (Alarming(q, m) \/ (q = r /\ m = M))
    BY <1>3, <1>6, <2>1 DEF Alarming, M
  <2>7. ASSUME NEW m \in Minutes
        PROVE  /\ admitted[m] <= counter'[m]
               /\ counter'[m] <= Limit => counter[m] <= Limit /\ m # M
    <3>1. CASE m = M
      BY <1>2, <1>4, <2>4, <3>1 DEF IInv, AlarmsCurrent
    <3>2. CASE m # M
      BY <1>4, <3>2 DEF IInv, AlarmsCurrent
    <3>3. QED
      BY <3>1, <3>2
  <2>8. AlarmsCurrent'
    BY <1>3, <1>6, <2>5, <2>6, <2>7 DEF IInv, AlarmsCurrent
  <2>9. QED
    BY <2>2, <2>3, <2>8 DEF IInv, Watch
<1>7. CASE counter[M] + 1 > Limit /\ Leave(r) /\ UNCHANGED admitted
  <2>1. TypeOK' /\ CountsCurrent' /\ CountsIncludeEarlier'
    BY <1>1, <1>2, <1>3, <1>4, <1>7, AlarmsAnswered DEF TypeOK
  <2>2. \A q \in Requests, m \in Minutes : Alarming(q, m)' => Alarming(q, m)
    BY <1>1, <1>7, Leaves DEF Alarming
  <2>3. ASSUME NEW m \in Minutes
        PROVE  /\ admitted[m] <= counter'[m]
               /\ counter'[m] <= Limit => counter[m] <= Limit
    <3>1. CASE m = M
      BY <1>2, <1>4, <3>1 DEF IInv, AlarmsCurrent
    <3>2. CASE m # M
      BY <1>4, <3>2 DEF IInv, AlarmsCurrent
    <3>3. QED
      BY <3>1, <3>2
  <2>4. AlarmsCurrent'
    BY <1>3, <1>7, <2>2, <2>3 DEF IInv, AlarmsCurrent
  <2>5. QED
    BY <2>1, <2>4 DEF IInv, Watch
<1>8. QED
  BY <1>5, <1>6, <1>7 DEF CountAttempt, FirstBlocked, M

LEMMA AlarmStep == ASSUME IInv, NEW r \in Requests, Alarm(r) PROVE IInv'
<1>1. TypeOK
  BY DEF IInv, Watch
<1>2. PICK M \in Minutes : M = time[r] /\ alarms \in [Minutes -> Nat]
  BY <1>1 DEF TypeOK
<1>3. /\ alarms' \in [Minutes -> Nat] /\ alarms'[M] = alarms[M] + 1
      /\ \A m \in Minutes : m # M => alarms'[m] = alarms[m]
  BY <1>2 DEF Alarm
<1>4. /\ phase[r] = "alarm" /\ Leave(r)
      /\ UNCHANGED <<clock, hardening, user, locker, counter, admitted, log, faults>>
  BY DEF Alarm
<1>5. Alarming(r, M)
  BY <1>2, <1>4 DEF Alarming
<1>6. TypeOK' /\ CountsCurrent' /\ CountsIncludeEarlier'
  BY <1>1, <1>3, <1>4, AlarmsAnswered DEF TypeOK
<1>7. \A q \in Requests, m \in Minutes : Alarming(q, m)' => Alarming(q, m) /\ q # r
  BY <1>1, <1>4, Leaves DEF Alarming
<1>8. alarms[M] = 0 /\ counter[M] > Limit /\ \A q \in Requests : Alarming(q, M) => q = r
  <2>1. counter[M] \in Nat
    BY <1>1, <1>2 DEF TypeOK
  <2>2. ~(counter[M] <= Limit)
    BY <1>2, <1>5 DEF IInv, AlarmsCurrent
  <2>3. QED
    BY <1>2, <1>5, <2>1, <2>2 DEF IInv, AlarmsCurrent
<1>9. ASSUME NEW m \in Minutes
      PROVE  /\ counter[m] <= Limit => alarms'[m] = 0
             /\ alarms'[m] <= 1
             /\ \A q \in Requests : Alarming(q, m)' => alarms'[m] = 0
  <2>1. CASE m = M
    <3>1. ~(counter[M] <= Limit) /\ alarms'[M] = 1
      BY <1>1, <1>2, <1>3, <1>8 DEF TypeOK
    <3>2. \A q \in Requests : ~Alarming(q, M)'
      BY <1>2, <1>7, <1>8
    <3>3. QED
      BY <2>1, <3>1, <3>2
  <2>2. CASE m # M
    BY <1>3, <1>7, <2>2 DEF IInv, AlarmsCurrent
  <2>3. QED
    BY <2>1, <2>2
<1>10. AlarmsCurrent'
  BY <1>4, <1>7, <1>9 DEF IInv, AlarmsCurrent
<1>11. QED
  BY <1>6, <1>10 DEF IInv, Watch

LEMMA AlarmFailsStep == ASSUME IInv, NEW r \in Requests, AlarmFails(r) PROVE IInv'
<1>1. TypeOK
  BY DEF IInv, Watch
<1>2. /\ phase[r] = "alarm" /\ Leave(r) /\ UNCHANGED limiterVars
      /\ UNCHANGED <<clock, hardening, user, locker, log>>
  BY DEF AlarmFails
<1>3. faults' \in Nat
  BY <1>1 DEF AlarmFails, TypeOK
<1>4. TypeOK' /\ CountsCurrent' /\ CountsIncludeEarlier'
  BY <1>1, <1>2, <1>3, AlarmsAnswered DEF TypeOK, limiterVars
<1>5. AlarmsCurrent'
  BY <1>1, <1>2, Leaves, AlarmsKept DEF IInv, Alarming
<1>6. QED
  BY <1>4, <1>5 DEF IInv, Watch

-----------------------------------------------------------------------------
(* The record of failed logins *)

LEMMA VerifyStep == ASSUME IInv, NEW r \in Requests, Verify(r) PROVE IInv'
<1>1. TypeOK
  BY DEF IInv, Watch
<1>2. /\ phase[r] = "verify" /\ UNCHANGED limiterVars
      /\ UNCHANGED <<clock, hardening, user, locker, log, faults>>
  BY DEF Verify
<1>3. CASE Leave(r)
  <2>1. TypeOK' /\ CountsCurrent' /\ CountsIncludeEarlier'
    BY <1>1, <1>2, <1>3, AlarmsAnswered DEF TypeOK, limiterVars
  <2>2. AlarmsCurrent'
    BY <1>1, <1>2, <1>3, Leaves, AlarmsKept DEF IInv, Alarming
  <2>3. QED
    BY <2>1, <2>2 DEF IInv, Watch
<1>4. CASE Goto(r, "lock") /\ time' = [time EXCEPT ![r] = clock] /\ UNCHANGED seen
  <2>1. /\ phase' \in [Requests -> Phases] /\ phase'[r] = "lock"
        /\ \A q \in Requests : q # r => phase'[q] = phase[q]
    BY <1>1, <1>4, Moves DEF Phases
  <2>2. /\ time' \in [Requests -> Minutes] /\ time'[r] = clock
        /\ \A q \in Requests : q # r => time'[q] = time[q]
    BY <1>1, <1>4 DEF TypeOK
  <2>3. TypeOK'
    BY <1>1, <1>2, <1>4, <2>1, <2>2 DEF TypeOK, limiterVars
  <2>4. CountsCurrent' /\ CountsIncludeEarlier'
    <3>1. seen'[r] = {}
      BY <1>2, <1>4 DEF IInv, Watch, CountsCurrent
    <3>2. time'[r] \in Minutes /\ time'[r] <= clock
      BY <1>1, <2>2 DEF TypeOK, Minutes
    <3>3. QED
      BY <1>2, <1>4, <2>1, <2>2, <3>1, <3>2, CountsKept DEF IInv
  <2>5. \A q \in Requests, m \in Minutes : Alarming(q, m)' => Alarming(q, m)
    BY <2>1, <2>2 DEF Alarming
  <2>6. QED
    BY <1>2, <2>3, <2>4, <2>5, AlarmsKept DEF IInv, Watch
<1>5. QED
  BY <1>3, <1>4 DEF Verify

LEMMA SeqElement == ASSUME NEW S, NEW s \in Seq(S), NEW i \in DOMAIN s PROVE s[i] \in S
OBVIOUS

(* The lock is free, so no count stands.                                   *)
LEMMA LockSourceStep == ASSUME IInv, NEW r \in Requests, LockSource(r) PROVE IInv'
<1>1. TypeOK
  BY DEF IInv, Watch
<1>2. /\ phase' \in [Requests -> Phases] /\ phase'[r] = "count"
      /\ \A q \in Requests : q # r => phase'[q] = phase[q]
  BY <1>1, Moves DEF LockSource, Phases
<1>3. /\ phase[r] = "lock" /\ locker = {} /\ locker' = {r} /\ UNCHANGED limiterVars
      /\ UNCHANGED <<clock, hardening, user, time, seen, log, faults>>
  BY DEF LockSource
<1>4. TypeOK'
  BY <1>1, <1>2, <1>3 DEF TypeOK, limiterVars
<1>5. CountsCurrent'
  <2>1. \A q \in Requests : phase[q] # "count" /\ seen[q] = {} /\ time[q] <= clock
    BY <1>3 DEF IInv, Watch, CountsCurrent
  <2>2. QED
    BY <1>2, <1>3, <2>1 DEF CountsCurrent
<1>6. CountsIncludeEarlier'
  BY <1>3, LogKept DEF IInv, Watch
<1>7. \A q \in Requests, m \in Minutes : Alarming(q, m)' => Alarming(q, m)
  BY <1>2, <1>3 DEF Alarming
<1>8. QED
  BY <1>3, <1>4, <1>5, <1>6, <1>7, AlarmsKept DEF IInv, Watch

LEMMA CountUsersStep == ASSUME IInv, NEW r \in Requests, CountUsers(r) PROVE IInv'
<1> DEFINE Since == {j \in DOMAIN log : log[j].time >= time[r] - Window}
           Names == {log[i].user : i \in Since} \cup {user[r]}
<1>1. TypeOK
  BY DEF IInv, Watch
<1>2. /\ phase' \in [Requests -> Phases] /\ phase'[r] = "write"
      /\ \A q \in Requests : q # r => phase'[q] = phase[q]
  BY <1>1, Moves DEF CountUsers, Phases
<1>3. /\ phase[r] = "count" /\ seen' = [seen EXCEPT ![r] = Names]
      /\ UNCHANGED limiterVars
      /\ UNCHANGED <<clock, hardening, user, time, locker, log, faults>>
  BY DEF CountUsers
<1>4. Names \subseteq Users
  <2>1. ASSUME NEW i \in DOMAIN log
        PROVE  log[i].user \in Users
    <3>1. log[i] \in [user: Users, seen: SUBSET Users, time: Minutes]
      BY <1>1, SeqElement DEF TypeOK
    <3>2. QED
      BY <3>1
  <2>2. user[r] \in Users
    BY <1>1 DEF TypeOK
  <2>3. QED
    BY <2>1, <2>2
<1>5. CountedSince(time[r] - Window) \subseteq Names /\ user[r] \in Names
  BY DEF CountedSince
<1> HIDE DEF Names
<1>6. /\ seen' \in [Requests -> SUBSET Users] /\ seen'[r] = Names
      /\ \A q \in Requests : q # r => seen'[q] = seen[q]
  BY <1>1, <1>3, <1>4 DEF TypeOK
<1>7. TypeOK'
  BY <1>1, <1>2, <1>3, <1>6 DEF TypeOK, limiterVars
<1>8. CountsIncludeEarlier' /\ \A t : CountedSince(t)' = CountedSince(t)
  BY <1>3, LogKept DEF IInv, Watch
<1>9. ASSUME NEW q \in Requests
      PROVE  /\ phase'[q] = "count" => q \in locker'
             /\ phase'[q] # "write" => seen'[q] = {}
             /\ phase'[q] = "write" /\ seen'[q] # {} =>
                  /\ q \in locker'
                  /\ user'[q] \in seen'[q]
                  /\ CountedSince(time'[q] - Window) \subseteq seen'[q]
             /\ time'[q] <= clock'
  <2>1. CASE q = r
    BY <1>2, <1>3, <1>5, <1>6, <2>1 DEF IInv, Watch, CountsCurrent
  <2>2. CASE q # r
    BY <1>2, <1>3, <1>6, <2>2 DEF IInv, Watch, CountsCurrent
  <2>3. QED
    BY <2>1, <2>2
<1>10. CountsCurrent'
  BY <1>3, <1>8, <1>9 DEF IInv, Watch, CountsCurrent
<1>11. \A q \in Requests, m \in Minutes : Alarming(q, m)' => Alarming(q, m)
  BY <1>2, <1>3 DEF Alarming
<1>12. QED
  BY <1>3, <1>7, <1>8, <1>10, <1>11, AlarmsKept DEF IInv, Watch

LEMMA CountFailsStep == ASSUME IInv, NEW r \in Requests, CountFails(r) PROVE IInv'
<1>1. TypeOK
  BY DEF IInv, Watch
<1>2. /\ phase' \in [Requests -> Phases] /\ phase'[r] = "write"
      /\ \A q \in Requests : q # r => phase'[q] = phase[q]
  BY <1>1, Moves DEF CountFails, Phases
<1>3. /\ phase[r] \in {"lock", "count"} /\ locker' = locker \ {r}
      /\ UNCHANGED limiterVars
      /\ UNCHANGED <<clock, hardening, user, time, seen, log>>
  BY DEF CountFails, ReleaseSource
<1>4. faults' \in Nat
  BY <1>1 DEF CountFails, TypeOK
<1>5. TypeOK'
  BY <1>1, <1>2, <1>3, <1>4 DEF TypeOK, limiterVars
<1>6. CountsIncludeEarlier' /\ \A t : CountedSince(t)' = CountedSince(t)
  BY <1>3, LogKept DEF IInv, Watch
<1>7. ASSUME NEW q \in Requests
      PROVE  /\ phase'[q] = "count" => q \in locker'
             /\ phase'[q] # "write" => seen'[q] = {}
             /\ phase'[q] = "write" /\ seen'[q] # {} =>
                  /\ q \in locker'
                  /\ user'[q] \in seen'[q]
                  /\ CountedSince(time'[q] - Window) \subseteq seen'[q]
             /\ time'[q] <= clock'
  <2>1. CASE q = r
    BY <1>2, <1>3, <2>1 DEF IInv, Watch, CountsCurrent
  <2>2. CASE q # r
    BY <1>2, <1>3, <2>2 DEF IInv, Watch, CountsCurrent
  <2>3. QED
    BY <2>1, <2>2
<1>8. CountsCurrent'
  BY <1>3, <1>6, <1>7 DEF IInv, Watch, CountsCurrent
<1>9. \A q \in Requests, m \in Minutes : Alarming(q, m)' => Alarming(q, m)
  BY <1>2, <1>3 DEF Alarming
<1>10. QED
  BY <1>3, <1>5, <1>6, <1>8, <1>9, AlarmsKept DEF IInv, Watch

(* A failure that ends; what the others have counted must still be current. *)
LEMMA WrittenOrNot ==
    ASSUME IInv, NEW r \in Requests, phase[r] = "write", Leave(r), ReleaseSource(r),
           UNCHANGED <<clock, hardening, user>>, UNCHANGED limiterVars,
           log' \in Seq([user: Users, seen: SUBSET Users, time: Minutes]),
           faults' \in Nat,
           r \notin locker => \A t : CountedSince(t)' = CountedSince(t)
    PROVE  TypeOK' /\ CountsCurrent' /\ AlarmsCurrent'
<1>1. TypeOK
  BY DEF IInv, Watch
<1>2. /\ phase' \in [Requests -> Phases] /\ phase'[r] = "done"
      /\ time' \in [Requests -> Minutes] /\ time'[r] = 0
      /\ seen' \in [Requests -> SUBSET Users] /\ seen'[r] = {}
      /\ \A q \in Requests : q # r =>
           phase'[q] = phase[q] /\ time'[q] = time[q] /\ seen'[q] = seen[q]
  BY <1>1, Leaves
<1>3. locker' = locker \ {r}
  BY DEF ReleaseSource
<1>4. TypeOK'
  BY <1>1, <1>2, <1>3 DEF TypeOK, limiterVars
<1>5. 0 <= clock
  BY <1>1 DEF TypeOK, Minutes
<1>6. ASSUME NEW q \in Requests
      PROVE  /\ phase'[q] = "count" => q \in locker'
             /\ phase'[q] # "write" => seen'[q] = {}
             /\ phase'[q] = "write" /\ seen'[q] # {} =>
                  /\ q \in locker'
                  /\ user'[q] \in seen'[q]
                  /\ CountedSince(time[q] - Window)' \subseteq seen'[q]
             /\ time'[q] <= clock'
  <2>1. CASE q = r
    BY <1>2, <1>5, <2>1
  <2>2. CASE q # r
    <3>1. ASSUME phase'[q] = "write", seen'[q] # {}
          PROVE  CountedSince(time[q] - Window) \subseteq seen[q] /\ r \notin locker
      BY <1>2, <2>2, <3>1 DEF IInv, Watch, CountsCurrent
    <3>2. ASSUME phase'[q] = "write", seen'[q] # {}
          PROVE  CountedSince(time[q] - Window)' \subseteq seen'[q]
      <4>1. PICK t : t = time'[q] - Window
        OBVIOUS
      <4>2. CountedSince(t)' = CountedSince(t)
        BY <3>1, <3>2
      <4>3. time'[q] = time[q] /\ seen'[q] = seen[q]
        BY <1>2, <2>2
      <4>4. CountedSince(time[q] - Window)' = CountedSince(t)'
        BY <4>1 DEF CountedSince
      <4>5. CountedSince(t) \subseteq seen[q]
        BY <3>1, <3>2, <4>1, <4>3
      <4>6. QED
        BY <4>2, <4>3, <4>4, <4>5
    <3>3. QED
      BY <1>2, <1>3, <2>2, <3>2 DEF IInv, Watch, CountsCurrent
  <2>3. QED
    BY <2>1, <2>2
<1>7. CountsCurrent'
  <2>1. \A p, q \in locker' : p = q
    BY <1>3 DEF IInv, Watch, CountsCurrent
  <2>2. QED
    BY <1>6, <2>1 DEF CountsCurrent
<1>8. \A q \in Requests, m \in Minutes : Alarming(q, m)' => Alarming(q, m)
  BY <1>2 DEF Alarming
<1>9. QED
  BY <1>4, <1>7, <1>8, AlarmsKept DEF IInv

LEMMA WriteFailureStep == ASSUME IInv, NEW r \in Requests, WriteFailure(r) PROVE IInv'
<1> DEFINE Event == [user: Users, seen: SUBSET Users, time: Minutes]
<1>1. TypeOK
  BY DEF IInv, Watch
<1>2. /\ phase[r] = "write" /\ Leave(r) /\ ReleaseSource(r)
      /\ UNCHANGED <<clock, hardening, user, faults>> /\ UNCHANGED limiterVars
  BY DEF WriteFailure
<1>3. PICK e : e = [user |-> user[r], seen |-> seen[r], time |-> clock]
  OBVIOUS
<1>4. e \in Event /\ e.user = user[r] /\ e.seen = seen[r] /\ e.time = clock
  BY <1>1, <1>3 DEF TypeOK
<1> HIDE DEF Event
<1>5. log \in Seq(Event) /\ log' = Append(log, e)
  BY <1>1, <1>3 DEF WriteFailure, TypeOK, Event
<1>6. PICK n \in Nat : n = Len(log) + 1
  BY <1>5
<1>7. /\ DOMAIN log = 1 .. (n - 1) /\ n - 1 \in Nat
      /\ log' \in Seq(Event) /\ DOMAIN log' = 1 .. n
      /\ \A i \in 1 .. (n - 1) : log'[i] = log[i]
      /\ log'[n] = e
  BY <1>4, <1>5, <1>6
<1>8. \A i \in DOMAIN log : log[i].time \in Int
  <2>1. \A i \in DOMAIN log : log[i] \in Event
    BY <1>5
  <2>2. \A x \in Event : x.time \in Int
    BY DEF Event, Minutes
  <2>3. QED
    BY <2>1, <2>2
<1>9. /\ seen[r] # {} => /\ r \in locker
                         /\ user[r] \in seen[r]
                         /\ CountedSince(time[r] - Window) \subseteq seen[r]
      /\ time[r] \in Int /\ clock \in Int /\ time[r] <= clock
  BY SMTT(30), <1>1, <1>2 DEF IInv, Watch, CountsCurrent, TypeOK, Minutes
<1>10. /\ \A i \in 1 .. (n - 1) : Counted(i)' <=> Counted(i)
       /\ Counted(n)' <=> seen[r] # {}
  BY <1>4, <1>7 DEF Counted
(* What was recorded keeps its meaning.                                    *)
<1>11. ASSUME NEW i \in 1 .. (n - 1)
       PROVE  RecentUsers(i)' = RecentUsers(i)
  <2>1. \A k \in 1 .. i : k \in 1 .. (n - 1)
    BY <1>7
  <2>2. \A k \in 1 .. i : log'[k] = log[k] /\ (Counted(k)' <=> Counted(k))
    BY <1>7, <1>10, <2>1
  <2>3. log'[i] = log[i]
    BY <1>7
  <2>4. {k \in 1 .. i : Counted(k)' /\ log'[k].time >= log'[i].time - Window}
          = {k \in 1 .. i : Counted(k) /\ log[k].time >= log[i].time - Window}
    BY <2>2, <2>3
  <2>5. QED
    BY <2>2, <2>4 DEF RecentUsers
(* The new event's count covers its window.                                *)
<1>12. ASSUME Counted(n)'
       PROVE  RecentUsers(n)' \subseteq seen[r]
  <2>1. seen[r] # {}
    BY <1>10, <1>12
  <2>2. ASSUME NEW j \in 1 .. n, Counted(j)', log'[j].time >= log'[n].time - Window
        PROVE  log'[j].user \in seen[r]
    <3>1. CASE j = n
      BY <1>4, <1>7, <1>9, <2>1, <3>1
    <3>2. CASE j # n
      <4>1. j \in 1 .. (n - 1)
        BY <1>7, <3>2
      <4>2. log'[j] = log[j] /\ Counted(j)
        BY <1>7, <1>10, <2>2, <4>1
      <4>3. log[j].time >= time[r] - Window
        <5>1. log[j].time \in Int /\ log[j].time >= clock - Window
          BY <1>4, <1>7, <1>8, <2>2, <4>1, <4>2
        <5>2. QED
          BY <1>9, <5>1
      <4>4. log[j].user \in CountedSince(time[r] - Window)
        BY <1>7, <4>1, <4>2, <4>3 DEF CountedSince
      <4>5. QED
        BY <1>9, <2>1, <4>2, <4>4
    <3>3. QED
      BY <3>1, <3>2
  <2>3. QED
    BY <2>2 DEF RecentUsers
<1>13. CountsIncludeEarlier'
  <2>1. ASSUME NEW i \in 1 .. n, Counted(i)'
        PROVE  RecentUsers(i)' \subseteq log'[i].seen
    <3>1. CASE i = n
      BY <1>4, <1>7, <1>12, <2>1, <3>1
    <3>2. CASE i # n
      <4>1. i \in 1 .. (n - 1)
        BY <1>7, <3>2
      <4>2. Counted(i) /\ log'[i] = log[i] /\ RecentUsers(i)' = RecentUsers(i)
        BY <1>7, <1>10, <1>11, <2>1, <4>1
      <4>3. QED
        BY <1>7, <4>1, <4>2 DEF IInv, Watch, CountsIncludeEarlier
    <3>3. QED
      BY <3>1, <3>2
  <2>2. QED
    BY <1>7, <2>1 DEF CountsIncludeEarlier
(* A failure without a count is invisible to the counts of others.         *)
<1>14. ASSUME r \notin locker
       PROVE  \A t : CountedSince(t)' = CountedSince(t)
  <2>1. ~Counted(n)'
    BY <1>9, <1>10, <1>14
  <2>2. ASSUME NEW t
        PROVE  {k \in DOMAIN log' : Counted(k)' /\ log'[k].time >= t}
                 = {k \in DOMAIN log : Counted(k) /\ log[k].time >= t}
    <3>1. \A k \in 1 .. n : k = n \/ k \in 1 .. (n - 1)
      BY <1>7
    <3>2. \A k \in 1 .. (n - 1) : k \in 1 .. n
      BY <1>7
    <3>3. QED
      BY <1>7, <1>10, <2>1, <3>1, <3>2
  <2>3. ASSUME NEW t
        PROVE  CountedSince(t)' = CountedSince(t)
    <3>1. \A k \in DOMAIN log : log'[k] = log[k]
      BY <1>7
    <3>2. QED
      BY <2>2, <3>1 DEF CountedSince
  <2>4. QED
    BY <2>3
<1>15. TypeOK' /\ CountsCurrent' /\ AlarmsCurrent'
  <2>1. faults' \in Nat /\ log' \in Seq([user: Users, seen: SUBSET Users, time: Minutes])
    BY <1>1, <1>2, <1>7 DEF TypeOK, Event
  <2>2. QED
    BY <1>2, <1>14, <2>1, WrittenOrNot
<1>16. QED
  BY <1>13, <1>15 DEF IInv, Watch

LEMMA WriteFailsStep == ASSUME IInv, NEW r \in Requests, WriteFails(r) PROVE IInv'
<1>1. /\ phase[r] = "write" /\ Leave(r) /\ ReleaseSource(r) /\ UNCHANGED limiterVars
      /\ UNCHANGED <<clock, hardening, user, log>>
  BY DEF WriteFails
<1>2. /\ faults' \in Nat
      /\ log' \in Seq([user: Users, seen: SUBSET Users, time: Minutes])
  BY <1>1 DEF WriteFails, IInv, Watch, TypeOK
<1>3. CountsIncludeEarlier' /\ \A t : CountedSince(t)' = CountedSince(t)
  BY <1>1, LogKept DEF IInv, Watch
<1>4. TypeOK' /\ CountsCurrent' /\ AlarmsCurrent'
  BY <1>1, <1>2, <1>3, WrittenOrNot
<1>5. QED
  BY <1>3, <1>4 DEF IInv, Watch

LEMMA CrashStep == ASSUME IInv, Crash PROVE IInv'
<1>1. TypeOK
  BY DEF IInv, Watch
<1>2. /\ phase' \in [Requests -> Phases]
      /\ \A q \in Requests : phase'[q] \in {"idle", "done"}
      /\ time' \in [Requests -> Minutes] /\ \A q \in Requests : time'[q] = 0
      /\ seen' \in [Requests -> SUBSET Users] /\ \A q \in Requests : seen'[q] = {}
  BY DEF Crash, Phases, Minutes
<1>3. locker' = {} /\ UNCHANGED limiterVars /\ UNCHANGED <<clock, hardening, user, log>>
  BY DEF Crash
<1>4. faults' \in Nat
  BY <1>1 DEF Crash, TypeOK
<1>5. TypeOK'
  BY <1>1, <1>2, <1>3, <1>4 DEF TypeOK, limiterVars
<1>6. CountsCurrent'
  <2>1. 0 <= clock
    BY <1>1 DEF TypeOK, Minutes
  <2>2. QED
    BY <1>2, <1>3, <2>1 DEF CountsCurrent
<1>7. CountsIncludeEarlier'
  BY <1>3, LogKept DEF IInv, Watch
<1>8. \A q \in Requests, m \in Minutes : Alarming(q, m)' => Alarming(q, m)
  BY <1>2 DEF Alarming
<1>9. QED
  BY <1>3, <1>5, <1>6, <1>7, <1>8, AlarmsKept DEF IInv, Watch

-----------------------------------------------------------------------------
LEMMA NextInv == ASSUME IInv, [Next]_vars PROVE IInv'
<1>1. CASE Tick
  BY <1>1, TickStep
<1>2. CASE Harden
  BY <1>2, HardenStep
<1>3. CASE Crash
  BY <1>3, CrashStep
<1>4. ASSUME NEW r \in Requests, Serve(r) PROVE IInv'
  BY <1>4, ArriveStep, CountAttemptStep, LimiterFailsStep, AlarmStep, AlarmFailsStep,
     VerifyStep, LockSourceStep, CountUsersStep, CountFailsStep, WriteFailureStep,
     WriteFailsStep DEF Serve
<1>5. CASE UNCHANGED vars
  <2>1. /\ UNCHANGED <<clock, hardening, phase, user, time, seen, locker, log, faults>>
        /\ UNCHANGED limiterVars
    BY <1>5 DEF vars, limiterVars
  <2>2. TypeOK'
    BY <2>1 DEF IInv, Watch, TypeOK, limiterVars
  <2>3. CountsIncludeEarlier' /\ \A t : CountedSince(t)' = CountedSince(t)
    BY <2>1, LogKept DEF IInv, Watch
  <2>4. CountsCurrent'
    BY <2>1, <2>3 DEF IInv, Watch, CountsCurrent
  <2>5. AlarmsCurrent'
    BY <2>1, AlarmsKept DEF IInv, Alarming
  <2>6. QED
    BY <2>2, <2>3, <2>4, <2>5 DEF IInv, Watch
<1>6. QED
  BY <1>1, <1>2, <1>3, <1>4, <1>5 DEF Next

(* The invariant of every reachable state: only the holder of the advisory *)
(* lock has a count, the count stays complete until it is written, and an  *)
(* alarm of a minute has one author.                                       *)
THEOREM Invariance == Spec => []IInv
<1>1. Init => IInv
  BY InitInv
<1>2. IInv /\ [Next]_vars => IInv'
  BY NextInv
<1>3. QED
  BY <1>1, <1>2, PTL DEF Spec

(* The variables keep their types, and nobody holds the advisory lock      *)
(* outside the transaction that counts and writes a failure.               *)
THEOREM LoginTypes == Spec => []TypeOK
<1>1. IInv => TypeOK
  BY DEF IInv, Watch
<1>2. QED
  BY <1>1, Invariance, PTL

(* Failures of one source count each other, for any number of concurrent   *)
(* attempts, whatever fails and wherever the process dies.                 *)
THEOREM CountsComplete == Spec => []CountsIncludeEarlier
<1>1. IInv => CountsIncludeEarlier
  BY DEF IInv, Watch
<1>2. QED
  BY <1>1, Invariance, PTL

(* The limiter lets no more than its limit pass in a minute and raises at  *)
(* most one alarm in it, for any number of concurrent attempts.            *)
THEOREM ThrottleHolds == Spec => []Throttled
<1>1. ASSUME IInv, NEW m \in Minutes
      PROVE  /\ admitted[m] <= Limit
             /\ alarms[m] + Cardinality({r \in Requests : phase[r] = "alarm" /\ time[r] = m}) <= 1
             /\ alarms[m] > 0 => counter[m] > Limit
  <2> DEFINE A == {r \in Requests : phase[r] = "alarm" /\ time[r] = m}
  <2>1. counter[m] \in Nat /\ alarms[m] \in Nat
    BY <1>1 DEF IInv, Watch, TypeOK
  <2>2. /\ admitted[m] <= Limit
        /\ counter[m] <= Limit => alarms[m] = 0
        /\ alarms[m] <= 1
        /\ \A r \in A : alarms[m] = 0
        /\ \A q, r \in A : q = r
    BY <1>1 DEF IInv, AlarmsCurrent, Alarming
  <2> HIDE DEF A
  <2>3. alarms[m] + Cardinality(A) <= 1
    <3>1. CASE A = {}
      BY <2>1, <2>2, <3>1, FS_EmptySet
    <3>2. CASE A # {}
      <4>1. PICK r \in A : A = {r}
        BY <2>2, <3>2
      <4>2. Cardinality(A) = 1
        BY <4>1, FS_Singleton
      <4>3. QED
        BY <2>1, <2>2, <4>1, <4>2
    <3>3. QED
      BY <3>1, <3>2
  <2>4. alarms[m] > 0 => counter[m] > Limit
    BY <2>1, <2>2
  <2>5. QED
    BY <2>2, <2>3, <2>4 DEF A
<1>2. IInv => Throttled
  BY <1>1 DEF Throttled
<1>3. QED
  BY <1>2, Invariance, PTL

=============================================================================
