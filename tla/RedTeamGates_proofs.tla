------------------------- MODULE RedTeamGates_proofs -------------------------
(***************************************************************************)
(* Theorems about RedTeamGates for any number of concurrent requests, any  *)
(* limit and any number of failures and expiries.                          *)
(***************************************************************************)
EXTENDS RedTeamGates, TLAPS

USE GatesAssumption DEF GatesAssumption

(* At most one request owns the reservation, which stays until its owner   *)
(* is done; as long as it may still report, nothing but unconfirmed events *)
(* is in the log.                                                          *)
Reservation ==
    /\ \A r \in Requests : phase[r] = "release" => r \in owns
    /\ \A q, r \in owns : q = r
    /\ owns # {} => reservation
    /\ ~reservation \/ owns # {} => reported <= unconfirmed

(* The request that made the counter is the only one that sets its expiry, *)
(* and its place within the limit is kept for it while it does.            *)
Counting ==
    /\ served <= counter
    /\ counter = 0 => ~expiring
    /\ \A q, r \in Requests : phase[q] = "expire" /\ phase[r] = "expire" => q = r
    /\ \A r \in Requests : phase[r] = "expire" =>
         ~expiring /\ served + 1 <= counter /\ served + 1 <= Rpm

IInv ==
    /\ TypeOK /\ Reservation /\ Counting
    /\ ForgeryNotHidden /\ OneReportPerWindow /\ WithinLimit

Forgery == TypeOK /\ Reservation /\ ForgeryNotHidden /\ OneReportPerWindow

Limiter == TypeOK /\ Counting /\ WithinLimit

LEMMA InitInv == ASSUME Init PROVE IInv
<1>1. phase \in [Requests -> Phases] /\ \A r \in Requests : phase[r] = "idle"
  BY DEF Init, Phases
<1>2. TypeOK
  BY <1>1 DEF Init, TypeOK
<1>3. Reservation /\ ForgeryNotHidden /\ OneReportPerWindow
  BY <1>1 DEF Init, Reservation, ForgeryNotHidden, OneReportPerWindow
<1>4. Counting /\ WithinLimit
  BY <1>1 DEF Init, Counting, WithinLimit
<1>5. QED
  BY <1>2, <1>3, <1>4 DEF IInv

(* A request that moves to another phase moves alone.                      *)
LEMMA Moves ==
    ASSUME TypeOK, NEW r \in Requests, NEW p \in Phases, Goto(r, p)
    PROVE  /\ phase' \in [Requests -> Phases]
           /\ phase'[r] = p
           /\ \A q \in Requests : q # r => phase'[q] = phase[q]
BY DEF TypeOK, Goto

-----------------------------------------------------------------------------
(* Steps of the forgery report do not touch the limiter: they only move    *)
(* requests that neither come from nor go to "expire".                     *)

LEMMA LimiterKept ==
    ASSUME IInv, NEW r \in Requests, NEW p \in Phases \ {"expire"}, Goto(r, p),
           UNCHANGED limiterVars, TypeOK'
    PROVE  Limiter'
<1>1. \A q \in Requests : phase'[q] = "expire" => phase[q] = "expire"
  BY Moves DEF IInv
<1>2. UNCHANGED <<counter, expiring, served>>
  BY DEF limiterVars
<1>3. Counting'
  BY <1>1, <1>2 DEF IInv, Counting
<1>4. WithinLimit'
  BY <1>2 DEF IInv, WithinLimit
<1>5. QED
  BY <1>3, <1>4 DEF Limiter

LEMMA ArriveInv == ASSUME IInv, NEW r \in Requests, Arrive(r) PROVE IInv'
<1>1. PICK p \in {"reserve", "limit"} : Goto(r, p)
  BY DEF Arrive
<1>2. p \in Phases \ {"expire"}
  BY DEF Phases
<1>3. TypeOK'
  BY <1>1, <1>2, Moves DEF IInv, Arrive, TypeOK, forgeryVars, limiterVars
<1>4. Forgery'
  BY <1>1, <1>2, <1>3, Moves
     DEF IInv, Arrive, Forgery, Reservation, ForgeryNotHidden, OneReportPerWindow, forgeryVars
<1>5. Limiter'
  BY <1>1, <1>2, <1>3, LimiterKept DEF Arrive
<1>6. QED
  BY <1>4, <1>5 DEF IInv, Forgery, Limiter

LEMMA ReserveInv == ASSUME IInv, NEW r \in Requests, Reserve(r) PROVE IInv'
<1>1. CASE Goto(r, "limit") /\ UNCHANGED forgeryVars
  <2>1. "limit" \in Phases \ {"expire"}
    BY DEF Phases
  <2>2. TypeOK'
    BY <1>1, <2>1, Moves DEF IInv, Reserve, TypeOK, forgeryVars, limiterVars
  <2>3. Forgery'
    BY <1>1, <2>1, <2>2, Moves
       DEF IInv, Reserve, Forgery, Reservation, ForgeryNotHidden, OneReportPerWindow,
           forgeryVars
  <2>4. QED
    BY <1>1, <2>1, <2>2, <2>3, LimiterKept DEF Reserve, IInv, Forgery, Limiter
<1>2. CASE /\ ~reservation /\ reservation' = TRUE
           /\ excused' = FALSE
           /\ owns' = owns \cup {r}
           /\ Goto(r, "report")
           /\ UNCHANGED <<reported, unconfirmed>>
  <2>1. "report" \in Phases \ {"expire"}
    BY DEF Phases
  <2>2. owns = {}
    BY <1>2 DEF IInv, Reservation
  <2>3. TypeOK'
    BY <1>2, <2>1, <2>2, Moves DEF IInv, Reserve, TypeOK, limiterVars
  <2>4. Reservation'
    BY <1>2, <2>1, <2>2, Moves DEF IInv, Reservation
  <2>5. Forgery'
    BY <1>2, <2>3, <2>4 DEF IInv, Forgery, ForgeryNotHidden, OneReportPerWindow
  <2>6. QED
    BY <1>2, <2>1, <2>3, <2>5, LimiterKept DEF Reserve, IInv, Forgery, Limiter
<1>3. QED
  BY <1>1, <1>2 DEF Reserve, AlreadyReserved

LEMMA ReserveFailsInv == ASSUME IInv, NEW r \in Requests, ReserveFails(r) PROVE IInv'
<1>1. "report" \in Phases \ {"expire"} /\ Goto(r, "report")
  BY DEF Phases, ReserveFails
<1>2. \/ UNCHANGED <<reservation, excused>>
      \/ ~reservation /\ reservation' = TRUE /\ excused' = TRUE
  BY DEF ReserveFails
<1>3. UNCHANGED <<owns, reported, unconfirmed>> /\ r \notin owns
  BY DEF ReserveFails, IInv, TypeOK
<1>4. TypeOK'
  <2>1. reservation' \in BOOLEAN /\ excused' \in BOOLEAN
    BY <1>2, Zenon DEF IInv, TypeOK
  <2>2. QED
    BY <1>1, <1>3, <2>1, Moves DEF IInv, ReserveFails, Fault, TypeOK, limiterVars
<1>5. Reservation'
  BY <1>1, <1>2, <1>3, Moves DEF IInv, Reservation
<1>6. ForgeryNotHidden' /\ OneReportPerWindow'
  BY <1>2, <1>3 DEF IInv, ForgeryNotHidden, OneReportPerWindow
<1>7. QED
  BY <1>1, <1>4, <1>5, <1>6, LimiterKept DEF Forgery, ReserveFails, IInv, Limiter

LEMMA ReportInv == ASSUME IInv, NEW r \in Requests, Report(r) PROVE IInv'
<1>1. "limit" \in Phases \ {"expire"} /\ Goto(r, "limit")
  BY DEF Phases, Report
<1>2. /\ owns' = owns \ {r}
      /\ reported' = IF r \in owns THEN reported + 1 ELSE reported
      /\ UNCHANGED <<reservation, unconfirmed, excused>>
  BY DEF Report, CountReport
<1>3. TypeOK'
  <2>1. reported' \in Nat
    BY <1>2 DEF IInv, TypeOK
  <2>2. owns' \subseteq {q \in Requests : phase'[q] \in {"report", "release"}}
    BY <1>1, <1>2, Moves DEF IInv, TypeOK
  <2>3. QED
    BY <1>1, <1>2, <2>1, <2>2, Moves DEF IInv, Report, TypeOK, limiterVars
<1>4. Reservation'
  <2>1. \A q \in Requests : phase'[q] = "release" => q \in owns'
    BY <1>1, <1>2, Moves DEF IInv, Reservation
  <2>2. \A q, s \in owns' : q = s
    BY <1>2 DEF IInv, Reservation
  <2>3. owns' # {} => reservation' /\ r \notin owns
    BY <1>2 DEF IInv, Reservation
  <2>4. ~reservation' => r \notin owns
    BY <1>2 DEF IInv, Reservation
  <2>5. ~reservation' \/ owns' # {} => reported' <= unconfirmed'
    BY <1>2, <2>3, <2>4 DEF IInv, Reservation
  <2>6. QED
    BY <2>1, <2>2, <2>3, <2>5 DEF Reservation
<1>5. ForgeryNotHidden'
  BY <1>2 DEF IInv, TypeOK, ForgeryNotHidden
<1>6. OneReportPerWindow'
  BY <1>2 DEF IInv, TypeOK, Reservation, OneReportPerWindow
<1>7. QED
  BY <1>1, <1>3, <1>4, <1>5, <1>6, LimiterKept DEF Forgery, Report, IInv, Limiter

(* A write that fails, or is taken for failed, sends the owner to release. *)
LEMMA FailedWriteInv ==
    ASSUME IInv, NEW r \in Requests, phase[r] = "report", AfterFailedWrite(r),
           \/ UNCHANGED <<reported, unconfirmed>>
           \/ r \in owns /\ reported' = reported + 1 /\ unconfirmed' = unconfirmed + 1,
           UNCHANGED <<limited, reservation, excused, limiterVars, expiries>>, faults' \in Nat
    PROVE  IInv'
<1> DEFINE p == IF r \in owns THEN "release" ELSE "limit"
<1>1. p \in Phases \ {"expire"} /\ Goto(r, p)
  BY DEF Phases, AfterFailedWrite
<1>2. UNCHANGED owns
  BY DEF AfterFailedWrite
<1>3. reported' \in Nat /\ unconfirmed' \in Nat
  BY DEF IInv, TypeOK
<1> HIDE DEF p
<1>4. phase'[r] = p /\ \A q \in Requests : q # r => phase'[q] = phase[q]
  BY <1>1, Moves DEF IInv
<1>5. TypeOK'
  <2>1. owns' \subseteq {q \in Requests : phase'[q] \in {"report", "release"}}
    BY <1>2, <1>4 DEF IInv, TypeOK, p
  <2>2. QED
    BY <1>1, <1>3, <2>1, Moves DEF IInv, TypeOK, limiterVars
<1>6. Reservation'
  <2>1. \A q \in Requests : phase'[q] = "release" => q \in owns'
    BY <1>2, <1>4 DEF IInv, Reservation, p
  <2>2. ~reservation' \/ owns' # {} => reported' <= unconfirmed'
    BY <1>2 DEF IInv, TypeOK, Reservation
  <2>3. QED
    BY <1>2, <2>1, <2>2 DEF IInv, Reservation
<1>7. ForgeryNotHidden' /\ OneReportPerWindow'
  BY <1>2 DEF IInv, TypeOK, ForgeryNotHidden, OneReportPerWindow
<1>8. QED
  BY <1>1, <1>5, <1>6, <1>7, LimiterKept DEF Forgery, IInv, Limiter

LEMMA ReportFailsInv == ASSUME IInv, NEW r \in Requests, ReportFails(r) PROVE IInv'
BY FailedWriteInv DEF ReportFails, Fault, IInv, TypeOK

LEMMA RefreshFailsInv == ASSUME IInv, NEW r \in Requests, RefreshFails(r) PROVE IInv'
<1>1. \/ UNCHANGED <<reported, unconfirmed>>
      \/ r \in owns /\ reported' = reported + 1 /\ unconfirmed' = unconfirmed + 1
  BY DEF RefreshFails, CountReport
<1>2. QED
  BY <1>1, FailedWriteInv DEF RefreshFails, Fault, IInv, TypeOK

(* The owner gives its reservation up, whether or not Redis follows.       *)
LEMMA GivenUpInv ==
    ASSUME IInv, NEW r \in Requests, phase[r] = "release", Goto(r, "limit"),
           owns' = owns \ {r}, reservation' \in BOOLEAN, excused' \in BOOLEAN,
           ~reservation' \/ excused',
           UNCHANGED <<limited, reported, unconfirmed, limiterVars, expiries>>,
           faults' \in Nat
    PROVE  IInv'
<1>1. "limit" \in Phases \ {"expire"}
  BY DEF Phases
<1>2. r \in owns /\ owns' = {}
  BY DEF IInv, Reservation
<1>3. TypeOK'
  BY <1>1, <1>2, Moves DEF IInv, TypeOK, limiterVars
<1>4. \A q \in Requests : phase'[q] # "release"
  BY <1>1, <1>2, Moves DEF IInv, Reservation
<1>5. Reservation'
  BY <1>2, <1>4 DEF IInv, Reservation
<1>6. ForgeryNotHidden' /\ OneReportPerWindow'
  BY <1>2 DEF IInv, ForgeryNotHidden, OneReportPerWindow
<1>7. QED
  BY <1>1, <1>3, <1>5, <1>6, LimiterKept DEF Forgery, IInv, Limiter

LEMMA ReleaseInv == ASSUME IInv, NEW r \in Requests, Release(r) PROVE IInv'
BY GivenUpInv DEF Release, IInv, TypeOK

LEMMA ReleaseFailsInv == ASSUME IInv, NEW r \in Requests, ReleaseFails(r) PROVE IInv'
<1>1. reservation' \in BOOLEAN /\ excused' \in BOOLEAN /\ (~reservation' \/ excused')
  BY Zenon DEF ReleaseFails
<1>2. faults' \in Nat
  BY DEF ReleaseFails, Fault, IInv, TypeOK
<1>3. QED
  BY <1>1, <1>2, GivenUpInv DEF ReleaseFails

LEMMA ReservationExpiresInv == ASSUME IInv, ReservationExpires PROVE IInv'
<1>1. Forgery'
  <2>1. reservation' \in BOOLEAN
    BY Zenon DEF ReservationExpires
  <2>2. TypeOK'
    BY <2>1 DEF IInv, ReservationExpires, TypeOK, limiterVars
  <2>3. Reservation' /\ ForgeryNotHidden' /\ OneReportPerWindow'
    BY DEF IInv, ReservationExpires, TypeOK, Reservation, ForgeryNotHidden,
           OneReportPerWindow
  <2>4. QED
    BY <2>2, <2>3 DEF Forgery
<1>2. Limiter'
  BY <1>1 DEF IInv, ReservationExpires, Forgery, Limiter, Counting, WithinLimit, limiterVars
<1>3. QED
  BY <1>1, <1>2 DEF IInv, Forgery, Limiter

-----------------------------------------------------------------------------
(* Steps of the limiter do not touch the reservation: they only move       *)
(* requests that neither come from nor go to "report" or "release".        *)

LEMMA ForgeryKept ==
    ASSUME IInv, NEW r \in Requests, NEW p \in Phases \ {"report", "release"}, Goto(r, p),
           phase[r] \notin {"report", "release"}, UNCHANGED forgeryVars,
           limited' \in BOOLEAN, counter' \in Nat, expiring' \in BOOLEAN, served' \in Nat,
           expiries' \in Nat, faults' \in Nat
    PROVE  Forgery'
<1>1. /\ phase' \in [Requests -> Phases] /\ phase'[r] = p
      /\ \A q \in Requests : q # r => phase'[q] = phase[q]
  BY Moves DEF IInv
<1>2. UNCHANGED <<owns, reservation, reported, unconfirmed, excused>>
  BY DEF forgeryVars
<1>3. TypeOK'
  BY <1>1, <1>2 DEF IInv, TypeOK
<1>4. Reservation'
  BY <1>1, <1>2 DEF IInv, Reservation
<1>5. QED
  BY <1>2, <1>3, <1>4 DEF IInv, Forgery, ForgeryNotHidden, OneReportPerWindow

LEMMA SwitchOnInv == ASSUME IInv, SwitchOn PROVE IInv'
<1> USE DEF IInv, SwitchOn, forgeryVars, limiterVars
<1>1. TypeOK'
  BY DEF TypeOK
<1>2. Reservation' /\ ForgeryNotHidden' /\ OneReportPerWindow'
  BY DEF Reservation, ForgeryNotHidden, OneReportPerWindow
<1>3. Counting' /\ WithinLimit'
  BY DEF Counting, WithinLimit
<1>4. QED
  BY <1>1, <1>2, <1>3

LEMMA ReadSessionInv == ASSUME IInv, NEW r \in Requests, ReadSession(r) PROVE IInv'
<1> DEFINE p == IF limited THEN "count" ELSE "done"
<1>1. Goto(r, p) /\ p \in Phases \ {"report", "release", "expire"}
  BY DEF ReadSession, Phases
<1> HIDE DEF p
<1>2. Forgery'
  BY <1>1, ForgeryKept DEF ReadSession, IInv, TypeOK, limiterVars
<1>3. Limiter'
  BY <1>1, <1>2, LimiterKept DEF ReadSession, Forgery
<1>4. QED
  BY <1>2, <1>3 DEF IInv, Forgery, Limiter

(* The verdict on the n-th request: p is where it goes.                    *)
LEMMA AdmitCases ==
    ASSUME NEW r \in Requests, NEW n \in Nat, Admit(r, n)
    PROVE  \/ n <= Rpm /\ Goto(r, "done") /\ served' = served + 1
           \/ n > Rpm /\ Goto(r, "alarm") /\ served' = served
BY DEF Admit

LEMMA IncrementInv == ASSUME IInv, NEW r \in Requests, Increment(r) PROVE IInv'
<1>1. phase[r] = "count" /\ counter' = counter + 1 /\ expiring' = expiring
  BY DEF Increment
<1>2. counter \in Nat /\ served \in Nat /\ Rpm \in Nat /\ Rpm # 0
  BY DEF IInv, TypeOK
<1>3. PICK p \in {"expire", "done", "alarm"} :
        /\ Goto(r, p)
        /\ p = "expire" => counter = 0 /\ served' = served
        /\ p = "done" => counter + 1 <= Rpm /\ served' = served + 1
        /\ p = "alarm" => served' = served
  BY <1>2, AdmitCases DEF Increment
<1>4. p \in Phases \ {"report", "release"} /\ served' \in Nat
  BY <1>2, <1>3 DEF Phases
<1>5. phase'[r] = p /\ \A q \in Requests : q # r => phase'[q] = phase[q]
  BY <1>3, <1>4, Moves DEF IInv
<1>6. Forgery'
  BY <1>1, <1>2, <1>3, <1>4, ForgeryKept DEF Increment, IInv, TypeOK
<1>7. Counting' /\ WithinLimit'
  <2>1. CASE p = "expire"
    <3>1. served = 0 /\ \A q \in Requests : phase[q] # "expire"
      BY <1>2, <1>3, <2>1 DEF IInv, Counting
    <3>2. ~expiring
      BY <1>3, <2>1 DEF IInv, Counting
    <3>3. QED
      BY <1>1, <1>2, <1>3, <1>5, <2>1, <3>1, <3>2 DEF Counting, WithinLimit
  <2>2. CASE p = "done"
    BY <1>1, <1>2, <1>3, <1>5, <2>2 DEF IInv, Counting, WithinLimit
  <2>3. CASE p = "alarm"
    BY <1>1, <1>2, <1>3, <1>5, <2>3 DEF IInv, Counting, WithinLimit
  <2>4. QED
    BY <2>1, <2>2, <2>3
<1>8. QED
  BY <1>6, <1>7 DEF Forgery, Limiter, IInv

LEMMA SetExpiryInv == ASSUME IInv, NEW r \in Requests, SetExpiry(r) PROVE IInv'
<1>1. phase[r] = "expire" /\ counter' = counter /\ expiring' = TRUE
  BY DEF SetExpiry
<1>2. counter \in Nat /\ served \in Nat /\ Rpm \in Nat /\ Rpm # 0
  BY DEF IInv, TypeOK
<1>3. Goto(r, "done") /\ served' = served + 1
  BY <1>2, AdmitCases DEF SetExpiry
<1>4. "done" \in Phases \ {"report", "release"}
  BY DEF Phases
<1>5. phase'[r] = "done" /\ \A q \in Requests : q # r => phase'[q] = phase[q]
  BY <1>3, <1>4, Moves DEF IInv
<1>6. Forgery'
  BY <1>1, <1>2, <1>3, <1>4, ForgeryKept DEF SetExpiry, IInv, TypeOK
<1>7. \A q \in Requests : phase'[q] # "expire"
  BY <1>1, <1>5 DEF IInv, Counting
<1>8. served + 1 <= counter /\ served + 1 <= Rpm
  BY <1>1 DEF IInv, Counting
<1>9. Counting' /\ WithinLimit'
  BY <1>1, <1>2, <1>3, <1>7, <1>8 DEF Counting, WithinLimit
<1>10. QED
  BY <1>6, <1>9 DEF Forgery, Limiter, IInv

LEMMA LimiterFailsInv == ASSUME IInv, NEW r \in Requests, LimiterFails(r) PROVE IInv'
<1>1. Goto(r, "done") /\ "done" \in Phases \ {"report", "release"}
  BY DEF LimiterFails, Phases
<1>2. /\ phase[r] \in {"count", "expire"} /\ served' = served
      /\ \/ counter' = counter /\ expiring' = expiring
         \/ counter' = counter + 1 /\ expiring' = expiring
         \/ phase[r] = "expire" /\ expiring' = TRUE /\ counter' = counter
  BY DEF LimiterFails
<1>3. counter \in Nat /\ served \in Nat /\ Rpm \in Nat /\ Rpm # 0 /\ expiring \in BOOLEAN
  BY DEF IInv, TypeOK
<1>4. phase'[r] = "done" /\ \A q \in Requests : q # r => phase'[q] = phase[q]
  BY <1>1, Moves DEF IInv
<1>5. expiring' \in BOOLEAN
  BY <1>2, <1>3
<1>6. Forgery'
  BY <1>1, <1>2, <1>3, <1>5, ForgeryKept DEF LimiterFails, Fault, IInv, TypeOK
<1>7. Counting' /\ WithinLimit'
  <2>1. CASE expiring' = expiring /\ (counter' = counter \/ counter' = counter + 1)
    BY <1>2, <1>3, <1>4, <2>1 DEF IInv, Counting, WithinLimit
  <2>2. CASE phase[r] = "expire" /\ expiring' = TRUE /\ counter' = counter
    <3>1. \A q \in Requests : phase'[q] # "expire"
      BY <1>4, <2>2 DEF IInv, Counting
    <3>2. QED
      BY <1>2, <1>3, <2>2, <3>1 DEF IInv, Counting, WithinLimit
  <2>3. QED
    BY <1>2, <2>1, <2>2
<1>8. QED
  BY <1>6, <1>7 DEF Forgery, Limiter, IInv

LEMMA BlockInv == ASSUME IInv, NEW r \in Requests, Block(r) PROVE IInv'
<1>1. Goto(r, "done") /\ "done" \in Phases \ {"report", "release", "expire"}
  BY DEF Block, Phases
<1>2. Forgery'
  BY <1>1, ForgeryKept DEF Block, IInv, TypeOK, limiterVars
<1>3. QED
  BY <1>1, <1>2, LimiterKept DEF Block, Forgery, IInv, Limiter

LEMMA CounterExpiresInv == ASSUME IInv, CounterExpires PROVE IInv'
<1>1. \A r \in Requests : phase[r] # "expire"
  BY DEF IInv, CounterExpires, Counting
<1>2. Forgery'
  <2>1. expiring' \in BOOLEAN
    BY Zenon DEF CounterExpires
  <2>2. TypeOK'
    BY <2>1 DEF IInv, CounterExpires, TypeOK, forgeryVars
  <2>3. Reservation' /\ ForgeryNotHidden' /\ OneReportPerWindow'
    BY DEF IInv, CounterExpires, Reservation, ForgeryNotHidden, OneReportPerWindow,
           forgeryVars
  <2>4. QED
    BY <2>2, <2>3 DEF Forgery
<1>3. Counting' /\ WithinLimit'
  BY <1>1 DEF CounterExpires, Counting, WithinLimit
<1>4. QED
  BY <1>2, <1>3 DEF Forgery, Limiter, IInv

-----------------------------------------------------------------------------
LEMMA CrashInv == ASSUME IInv, Crash PROVE IInv'
<1>1. \A r \in Requests : phase'[r] \in {"idle", "done"}
  BY DEF Crash
<1>2. phase' \in [Requests -> Phases]
  BY DEF Crash, Phases
<1>3. excused' \in BOOLEAN /\ faults' \in Nat
  BY DEF IInv, Crash, Fault, TypeOK
<1>4. TypeOK'
  BY <1>2, <1>3 DEF IInv, Crash, TypeOK, limiterVars
<1>5. Reservation' /\ OneReportPerWindow'
  BY <1>1 DEF IInv, Crash, Reservation, OneReportPerWindow
<1>6. ForgeryNotHidden'
  BY DEF IInv, Crash, ForgeryNotHidden
<1>7. Counting' /\ WithinLimit'
  BY <1>1 DEF IInv, Crash, Counting, WithinLimit, limiterVars
<1>8. QED
  BY <1>4, <1>5, <1>6, <1>7 DEF IInv

(* The inductive invariant holds.                                          *)
THEOREM Invariance == Spec => []IInv
<1>1. ASSUME IInv, [Next]_vars PROVE IInv'
  <2>1. ASSUME NEW r \in Requests, Serve(r) PROVE IInv'
    BY <1>1, <2>1, ArriveInv, ReserveInv, ReserveFailsInv, ReportInv, ReportFailsInv,
       RefreshFailsInv, ReleaseInv, ReleaseFailsInv, ReadSessionInv, IncrementInv,
       SetExpiryInv, LimiterFailsInv, BlockInv DEF Serve
  <2>2. CASE UNCHANGED vars
    BY <1>1, <2>2 DEF vars, forgeryVars, limiterVars, IInv, TypeOK, Reservation, Counting,
                      ForgeryNotHidden, OneReportPerWindow, WithinLimit
  <2>3. QED
    BY <1>1, <2>1, <2>2, ReservationExpiresInv, SwitchOnInv, CounterExpiresInv, CrashInv
       DEF Next
<1>2. QED
  BY <1>1, InitInv, PTL DEF Spec

(* Every variable keeps its type.                                          *)
THEOREM GatesTypes == Spec => []TypeOK
<1>1. IInv => TypeOK
  BY DEF IInv
<1>2. QED
  BY <1>1, Invariance, PTL

(* A failed event write never hides a forgery for the window.              *)
THEOREM ForgeriesShow == Spec => []ForgeryNotHidden
<1>1. IInv => ForgeryNotHidden
  BY DEF IInv
<1>2. QED
  BY <1>1, Invariance, PTL

(* A window has one report, besides those taken for failed.                *)
THEOREM ReportedOnce == Spec => []OneReportPerWindow
<1>1. IInv => OneReportPerWindow
  BY DEF IInv
<1>2. QED
  BY <1>1, Invariance, PTL

(* No more than the limit pass in the life of a counter, for any limit and *)
(* any number of concurrent requests.                                      *)
THEOREM LimitHolds == Spec => []WithinLimit
<1>1. IInv => WithinLimit
  BY DEF IInv
<1>2. QED
  BY <1>1, Invariance, PTL

=============================================================================
