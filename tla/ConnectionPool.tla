---------------------------- MODULE ConnectionPool ----------------------------
(***************************************************************************)
(* The engine's connection pool (db/database.py) under requests that need  *)
(* two connections: a session of get_db keeps its connection from the      *)
(* first SELECT to the end of the transaction, and an event is written on  *)
(* a connection of its own (siem/service.py), given back by the commit and *)
(* taken again to refresh the row.  A login gives its own connection back  *)
(* before it writes a failure; a successful one and a chat do not, and a   *)
(* chat also keeps it while it waits for the model.                        *)
(***************************************************************************)
EXTENDS Naturals, FiniteSets, SequencesExt

CONSTANTS
    Red, Blue,     \* logins of the two portals
    Chats,         \* /chat/ask requests
    Correct,       \* the logins with the right password
    PoolSize,      \* pool_size + max_overflow
    MaxAttempts    \* LOGIN_ATTEMPTS_PER_MINUTE

Logins == Red \cup Blue
Requests == Logins \cup Chats

PoolAssumption ==
    /\ IsFiniteSet(Requests) /\ Chats \cap Logins = {} /\ Red \cap Blue = {}
    /\ Correct \subseteq Logins /\ PoolSize \in Nat \ {0} /\ MaxAttempts \in Nat

VARIABLES
    hardened,  \* login_hardening_enabled of the lab
    phase,     \* what each request does, or waits for, next
    main,      \* requests whose session holds a connection
    event,     \* requests whose event session holds one
    line,      \* requests waiting for a connection, by their deadlines
    lock,      \* who holds the advisory lock of the source
    attempts,  \* the limiter's counter
    logged     \* events in the log: <<request, phase>>

vars == <<hardened, phase, main, event, line, lock, attempts, logged>>

Init ==
    /\ hardened \in BOOLEAN
    /\ phase = [r \in Requests |-> "new"]
    /\ main = {} /\ event = {} /\ line = <<>> /\ lock = {}
    /\ attempts = 0 /\ logged = {}

Events == {"limited", "failed", "uncounted", "welcome", "prompt", "tool"}
Ended == {"done", "blocked", "error"}

Goto(r, p) == phase' = [phase EXCEPT ![r] = p]

Free == Cardinality(main) + Cardinality(event) < PoolSize

(* The next step of r needs a connection it does not have.                 *)
NeedsMain(r) == r \notin main /\ phase[r] \in {"new", "thread", "lookup"}
NeedsEvent(r) == r \notin event /\ phase[r] \in Events
Needs(r) == NeedsMain(r) \/ NeedsEvent(r)

(* AsyncAdaptedQueuePool: the longest waiting gets the connection that is  *)
(* given back, unless a newcomer is faster.                                *)
Take(r) ==
    /\ Free /\ (r \in ToSet(line) => r = line[1])
    /\ line' = IF r \in ToSet(line) THEN Tail(line) ELSE line

Wait(r) ==
    /\ Needs(r) /\ ~Free /\ r \notin ToSet(line)
    /\ line' = Append(line, r)
    /\ UNCHANGED <<hardened, phase, main, event, lock, attempts, logged>>

(* The first SELECT of a session; a new thread is committed, which gives   *)
(* the connection back before it is read again.                            *)
Connect(r) ==
    /\ NeedsMain(r) /\ Take(r)
    /\ \/ /\ main' = main \cup {r}
          /\ Goto(r, IF r \in Chats THEN "prompt" ELSE IF phase[r] = "new" THEN "session" ELSE "lookup")
       \/ r \in Chats /\ phase[r] = "new" /\ Goto(r, "thread") /\ UNCHANGED main
    /\ UNCHANGED <<hardened, event, lock, attempts, logged>>

(* The first statement of an event's session, or of its refresh.           *)
ConnectEvent(r) ==
    /\ NeedsEvent(r) /\ Take(r)
    /\ event' = event \cup {r}
    /\ UNCHANGED <<hardened, phase, main, lock, attempts, logged>>

Release(r) == main' = main \ {r}

-----------------------------------------------------------------------------
(* Logins *)

(* enforce_login_attempt_limit: only the first attempt too many is logged. *)
Count(r) ==
    /\ attempts' = attempts + 1
    /\ Goto(r, IF attempts < MaxAttempts THEN "lookup"
               ELSE IF attempts = MaxAttempts THEN "limited" ELSE "blocked")

(* Mutant: the limiter is asked with the request's connection held.        *)
LimitHolding(r) ==
    /\ phase[r] = "session" /\ hardened
    /\ Count(r)
    /\ IF attempts > MaxAttempts THEN Release(r) ELSE UNCHANGED main
    /\ UNCHANGED <<hardened, event, line, lock, logged>>

(* authenticate with Login Hardening: rollback, then the limiter.          *)
Limit(r) ==
    /\ phase[r] = "session" /\ hardened
    /\ Release(r)
    /\ Count(r)
    /\ UNCHANGED <<hardened, event, line, lock, logged>>

(* The user is read, without Login Hardening in the same transaction.      *)
Lookup(r) ==
    /\ r \in main /\ phase[r] \in IF hardened THEN {"lookup"} ELSE {"session"}
    /\ Goto(r, "verify")
    /\ UNCHANGED <<hardened, main, event, line, lock, attempts, logged>>

(* Mutants: the failure is written without the rollback; the session of a  *)
(* Blue Team login is not closed.                                          *)
RejectHolding(r) ==
    /\ phase[r] = "verify" /\ r \notin Correct
    /\ Goto(r, "failed")
    /\ UNCHANGED <<hardened, main, event, line, lock, attempts, logged>>

AcceptBlueOpen(r) ==
    /\ phase[r] = "verify" /\ r \in Correct \cap Blue
    /\ Goto(r, "done")
    /\ UNCHANGED <<hardened, main, event, line, lock, attempts, logged>>

(* bcrypt says no: rollback, then the event.                               *)
Reject(r) ==
    /\ phase[r] = "verify" /\ r \notin Correct
    /\ Release(r) /\ Goto(r, "failed")
    /\ UNCHANGED <<hardened, event, line, lock, attempts, logged>>

(* bcrypt says yes: a Red Team login is logged with its session open.      *)
AcceptRed(r) ==
    /\ phase[r] = "verify" /\ r \in Correct \cap Red
    /\ Goto(r, "welcome")
    /\ UNCHANGED <<hardened, main, event, line, lock, attempts, logged>>

AcceptBlue(r) ==
    /\ phase[r] = "verify" /\ r \in Correct \cap Blue
    /\ Release(r) /\ Goto(r, "done")
    /\ UNCHANGED <<hardened, event, line, lock, attempts, logged>>

-----------------------------------------------------------------------------
(* Events *)

(* Where the request goes on when its event is written or given up.        *)
After(r) ==
    CASE phase[r] = "prompt" -> "queue"
      [] phase[r] = "tool" -> "save"
      [] phase[r] = "limited" -> "blocked"
      [] OTHER -> "done"

Resume(r) ==
    /\ Goto(r, After(r))
    /\ IF After(r) \in Ended THEN Release(r) ELSE UNCHANGED main

(* The event r is at is committed, its refresh is not over.                *)
Written(r) == <<r, phase[r]>> \in logged

(* log_failed_login waits for the others of its source.                    *)
TakeLock(r) ==
    /\ phase[r] = "failed" /\ r \in event /\ ~Written(r) /\ lock = {}
    /\ lock' = {r}
    /\ UNCHANGED <<hardened, phase, main, event, line, attempts, logged>>

(* _write_event commits, which ends the transaction: its connection and    *)
(* its lock are given back.                                                *)
Write(r) ==
    /\ r \in event /\ ~Written(r) /\ (phase[r] = "failed" => r \in lock)
    /\ logged' = logged \cup {<<r, phase[r]>>}
    /\ event' = event \ {r} /\ lock' = lock \ {r}
    /\ UNCHANGED <<hardened, phase, main, line, attempts>>

(* The row is read again, on a connection; the event's session is closed.  *)
Refresh(r) ==
    /\ r \in event /\ Written(r)
    /\ event' = event \ {r}
    /\ Resume(r)
    /\ UNCHANGED <<hardened, line, lock, attempts, logged>>

-----------------------------------------------------------------------------
(* Chats: the model is used by one at a time *)

TakeTurn(r) ==
    /\ phase[r] = "queue" /\ \A c \in Chats : phase[c] \notin {"model", "tool"}
    /\ Goto(r, "model")
    /\ UNCHANGED <<hardened, main, event, line, lock, attempts, logged>>

(* wait_for_turn's own timeout, or a full queue.                           *)
NoTurn(r) ==
    /\ phase[r] = "queue"
    /\ Release(r) /\ Goto(r, "error")
    /\ UNCHANGED <<hardened, event, line, lock, attempts, logged>>

(* The answer, with or without a tool call.                                *)
Answer(r) ==
    /\ phase[r] = "model" /\ \E p \in {"tool", "save"} : Goto(r, p)
    /\ UNCHANGED <<hardened, main, event, line, lock, attempts, logged>>

(* Mutant: the stream does not close its session.                          *)
SaveOpen(r) ==
    /\ phase[r] = "save" /\ Goto(r, "done")
    /\ UNCHANGED <<hardened, main, event, line, lock, attempts, logged>>

(* append_messages; the session is closed with the response.               *)
Save(r) ==
    /\ phase[r] = "save"
    /\ Release(r) /\ Goto(r, "done")
    /\ UNCHANGED <<hardened, event, line, lock, attempts, logged>>

-----------------------------------------------------------------------------

(* Mutant: the pool waits for ever.                                        *)
NoStall == FALSE

(* The 30 s of the pool only pass while every connection is kept by        *)
(* requests that wait for another one or for the model: no other step      *)
(* takes that long.                                                        *)
Stalled ==
    /\ ~Free /\ \A r \in Requests : Needs(r) => r \in ToSet(line)
    /\ \A r \in event : phase[r] = "failed" /\ ~Written(r) /\ r \notin lock /\ lock # {}
    /\ \A r \in main : r \in event \/ Needs(r) \/ phase[r] \in {"queue", "model"}

(* TimeoutError, first for who has waited longest: no event - a failed     *)
(* login tries once more, without counting - or no refresh of one that is  *)
(* written, or, for the request's own connection, no answer.               *)
PoolTimeout(r) ==
    /\ Stalled /\ line # <<>> /\ r = line[1]
    /\ line' = Tail(line)
    /\ \/ NeedsMain(r) /\ Goto(r, "error") /\ UNCHANGED main
       \/ phase[r] = "failed" /\ ~Written(r) /\ Goto(r, "uncounted") /\ UNCHANGED main
       \/ NeedsEvent(r) /\ (phase[r] = "failed" => Written(r)) /\ Resume(r)
    /\ UNCHANGED <<hardened, event, lock, attempts, logged>>

Step(r) ==
    \/ Wait(r) \/ Connect(r) \/ ConnectEvent(r) \/ TakeLock(r) \/ Write(r) \/ Refresh(r) \/ PoolTimeout(r)
    \/ Limit(r) \/ Lookup(r) \/ Reject(r) \/ AcceptRed(r) \/ AcceptBlue(r)
    \/ TakeTurn(r) \/ Answer(r) \/ Save(r)

Next == \E r \in Requests : Step(r) \/ NoTurn(r)

Spec == Init /\ [][Next]_vars

(* The event loop runs whoever can go on, the model ends, timers fire.     *)
Fairness == \A r \in Requests : WF_vars(Step(r))

FairSpec == Spec /\ Fairness

-----------------------------------------------------------------------------
(* Properties *)

(* Type invariant; no connection outlives its request or its event, and    *)
(* only a login that has its connection holds the lock.                    *)
TypeOK ==
    /\ hardened \in BOOLEAN
    /\ phase \in [Requests -> Events \cup Ended
          \cup {"new", "session", "lookup", "verify", "thread", "queue", "model", "save"}]
    /\ main \subseteq {r \in Requests : phase[r] \notin Ended \cup {"new"}}
    /\ event \subseteq {r \in Requests : phase[r] \in Events}
    /\ Cardinality(main) + Cardinality(event) <= PoolSize
    /\ ToSet(line) \subseteq {r \in Requests : Needs(r)} /\ IsInjective(line)
    /\ lock \subseteq event /\ Cardinality(lock) <= 1
    /\ attempts \in 0 .. Cardinality(Logins)
    /\ logged \subseteq Requests \X Events

(* However many logins fail at once, none that is answered is missing from *)
(* the log, or from the count of its source: "holding both would let a     *)
(* burst of failed logins exhaust the pool" (auth/service.py:254).         *)
FailedCounted ==
    \A r \in Logins \ Correct : phase[r] = "done" => <<r, "failed">> \in logged

(* The first attempt over the limit is logged (defense/service.py:138),    *)
(* even when a burst keeps the pool busy.                                  *)
FirstBlockedLogged ==
    attempts > MaxAttempts /\ (\A r \in Logins : phase[r] \in Ended)
        => \E r \in Logins : <<r, "limited">> \in logged

(* Every request ends: a pool whose connections are all kept by requests   *)
(* that wait for one is freed by its timeout.                              *)
AllEnd == \A r \in Requests : <>(phase[r] \in Ended)

=============================================================================
