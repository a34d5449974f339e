------------------------------ MODULE ModelQueue ------------------------------
(***************************************************************************)
(* LLMQueueManager: chat streams and the Auto-SOC worker sharing one model *)
(* through an asyncio.Lock, and the bounded queue of tickets in front of   *)
(* it.                                                                     *)
(*                                                                         *)
(* The event loop runs one task at a time, so an action is what a task     *)
(* does between two awaits.  Waking a waiter only completes its future;    *)
(* the waiter runs later, and in between the lock is free and the waiter   *)
(* may still be interrupted: by its 300 s timeout or by its client leaving.*)
(* asyncio.Lock is not under src/; it is modelled as CPython 3.11, the     *)
(* interpreter of the image, implements it.                                *)
(***************************************************************************)
EXTENDS Integers, FiniteSets, Sequences, SequencesExt

CONSTANTS
    Chats,      \* chat requests of the Red Team; one may ask again later
    Soc,        \* the Auto-SOC worker
    Capacity    \* max_queue_size

ASSUME QueueAssumption ==
    /\ IsFiniteSet(Chats)
    /\ Soc \notin Chats
    /\ Capacity \in Nat \ {0}

Clients == Chats \cup {Soc}

VARIABLES
    locked,       \* Lock._locked
    waiters,      \* Lock._waiters, by client
    fut,          \* the future each client awaits in Lock.acquire
    interrupted,  \* the client's task has a cancellation to be delivered
    phase,        \* where each client is; "orphaned": its client left while
                  \* the generator was suspended, which still has the turn
    tickets       \* LLMQueueManager.queue.qsize()

lockVars == <<locked, waiters, fut>>
vars == <<lockVars, interrupted, phase, tickets>>

Init ==
    /\ locked = FALSE
    /\ waiters = <<>>
    /\ fut = [c \in Clients |-> "none"]
    /\ interrupted = [c \in Clients |-> FALSE]
    /\ phase = [c \in Clients |-> "idle"]
    /\ tickets = 0

Goto(c, p) == phase' = [phase EXCEPT ![c] = p]

-----------------------------------------------------------------------------
(* asyncio.Lock *)

(* Lock.acquire returns at once.                                           *)
Unclaimed == ~locked /\ \A i \in DOMAIN waiters : fut[waiters[i]] = "cancelled"

(* Lock._wake_up_first on the waiters line with futures f.                 *)
WakeFirst(line, f) ==
    IF line # <<>> /\ f[line[1]] = "pending"
    THEN [f EXCEPT ![line[1]] = "set"]
    ELSE f

(* Lock.acquire up to its first await.                                     *)
Acquire(c) ==
    \/ /\ Unclaimed
       /\ locked' = TRUE
       /\ Goto(c, "turn")
       /\ UNCHANGED <<waiters, fut>>
    \/ /\ ~Unclaimed
       /\ waiters' = Append(waiters, c)
       /\ fut' = [fut EXCEPT ![c] = "pending"]
       /\ Goto(c, "waiting")
       /\ UNCHANGED locked

(* Lock.release.                                                           *)
Release ==
    /\ locked' = FALSE
    /\ fut' = WakeFirst(waiters, fut)
    /\ UNCHANGED waiters

(* A client woken by its future: it has the lock.                          *)
TakeTurn(c) ==
    /\ fut[c] = "set" /\ ~interrupted[c]
    /\ \E i \in DOMAIN waiters :
         waiters[i] = c /\ waiters' = RemoveAt(waiters, i)
    /\ fut' = [fut EXCEPT ![c] = "none"]
    /\ locked' = TRUE
    /\ Goto(c, "turn")
    /\ UNCHANGED <<interrupted, tickets>>

(* Mutant: the timeout also covers the stream.                             *)
AnyTime(c) == phase[c] # "idle" /\ ~interrupted[c]

(* A chat that waits for the lock: its timeout runs and its client may     *)
(* leave.                                                                  *)
Interruptible(c) == phase[c] = "waiting" /\ ~interrupted[c]

(* Task.cancel on a waiting client: a pending future is cancelled, a       *)
(* completed one is not, but the client will run with CancelledError.      *)
Interrupt(c) ==
    /\ Interruptible(c)
    /\ interrupted' = [interrupted EXCEPT ![c] = TRUE]
    /\ fut' = [fut EXCEPT ![c] = IF @ = "pending" THEN "cancelled" ELSE @]
    /\ UNCHANGED <<locked, waiters, phase, tickets>>

(* Lock.acquire of an interrupted client: the wake-up it may have consumed *)
(* is passed on.                                                           *)
Withdraw(c) ==
    \E i \in DOMAIN waiters :
        /\ waiters[i] = c
        /\ waiters' = RemoveAt(waiters, i)
        /\ LET rest == [fut EXCEPT ![c] = "none"]
           IN  fut' = IF locked THEN rest ELSE WakeFirst(waiters', rest)
        /\ UNCHANGED locked

-----------------------------------------------------------------------------
(* Chat streams *)

(* Mutant: one ticket too many.                                            *)
EnterOneMore(c) ==
    /\ phase[c] = "idle"
    /\ tickets <= Capacity
    /\ tickets' = tickets + 1
    /\ Acquire(c)
    /\ UNCHANGED interrupted

(* wait_for_turn: a ticket, then the lock.                                 *)
Enter(c) ==
    /\ phase[c] = "idle"
    /\ tickets < Capacity
    /\ tickets' = tickets + 1
    /\ Acquire(c)
    /\ UNCHANGED interrupted

(* wait_for_turn answers 503: the client may ask again later.              *)
TurnedAway(c) ==
    /\ phase[c] = "idle"
    /\ tickets >= Capacity
    /\ UNCHANGED vars

(* Mutant: tickets are not returned.                                       *)
KeepTicket(c) == UNCHANGED tickets

DropTicket(c) == tickets' = tickets - 1

(* Mutants: what an interrupted waiter does besides its future.            *)
LeaveLine(c) ==
    /\ interrupted[c]
    /\ \E i \in DOMAIN waiters : waiters[i] = c /\ waiters' = RemoveAt(waiters, i)
    /\ DropTicket(c)
    /\ interrupted' = [interrupted EXCEPT ![c] = FALSE]
    /\ Goto(c, "idle")

(* Mutant: the wait is inside the try whose finally releases the turn.     *)
GiveUpReleasing(c) ==
    /\ LeaveLine(c)
    /\ locked' = FALSE
    /\ fut' = WakeFirst(waiters', [fut EXCEPT ![c] = "none"])

(* Mutant: a wait that passes no wake-up on.                               *)
GiveUpSilently(c) ==
    /\ LeaveLine(c)
    /\ fut' = [fut EXCEPT ![c] = "none"]
    /\ UNCHANGED locked

(* wait_for_turn after its timeout (504) or its cancellation.              *)
GiveUp(c) ==
    /\ interrupted[c]
    /\ Withdraw(c)
    /\ DropTicket(c)
    /\ interrupted' = [interrupted EXCEPT ![c] = FALSE]
    /\ Goto(c, "idle")

(* Mutant: a stream without the finally clause.                            *)
LeaveGpuLocked(c) ==
    /\ UNCHANGED <<lockVars, tickets>>

(* release_turn.                                                           *)
ReleaseTurn(c) ==
    /\ Release
    /\ DropTicket(c)

(* The stream ends, by its last chunk, an error of the model or a          *)
(* cancellation delivered inside the generator.                            *)
Finish(c) ==
    /\ phase[c] = "turn"
    /\ ReleaseTurn(c)
    /\ Goto(c, "idle")
    /\ UNCHANGED interrupted

(* The client leaves while a chunk is being sent: the generator stays      *)
(* suspended at its yield.                                                 *)
Abandon(c) ==
    /\ phase[c] = "turn"
    /\ Goto(c, "orphaned")
    /\ UNCHANGED <<lockVars, interrupted, tickets>>

(* The event loop's finalizer closes the abandoned generator.              *)
Finalize(c) ==
    /\ phase[c] = "orphaned"
    /\ ReleaseTurn(c)
    /\ Goto(c, "idle")
    /\ UNCHANGED interrupted

-----------------------------------------------------------------------------
(* The Auto-SOC worker: async with queue.gpu_lock, no ticket, no timeout *)

SocAcquire ==
    /\ phase[Soc] = "idle"
    /\ Acquire(Soc)
    /\ UNCHANGED <<interrupted, tickets>>

(* The analysis ends or fails.                                             *)
SocRelease ==
    /\ phase[Soc] = "turn"
    /\ Release
    /\ Goto(Soc, "idle")
    /\ UNCHANGED <<interrupted, tickets>>

-----------------------------------------------------------------------------
ChatStep(c) ==
    \/ Enter(c) \/ TurnedAway(c) \/ Interrupt(c) \/ GiveUp(c)
    \/ Finish(c) \/ Abandon(c) \/ Finalize(c)

Next ==
    \/ \E c \in Chats : ChatStep(c)
    \/ \E c \in Clients : TakeTurn(c)
    \/ SocAcquire \/ SocRelease

Spec == Init /\ [][Next]_vars

(* The event loop runs every task that is ready, a stream ends (the model  *)
(* has a token limit and, behind the OpenAI-compatible client, a timeout)  *)
(* and abandoned generators are finalized.  Nobody needs to come, to time  *)
(* out or to leave.                                                        *)
Fairness ==
    /\ \A c \in Chats : WF_vars(GiveUp(c)) /\ WF_vars(Finish(c)) /\ WF_vars(Finalize(c))
    /\ \A c \in Clients : WF_vars(TakeTurn(c))
    /\ WF_vars(SocRelease)

LiveSpec == Spec /\ Fairness

-----------------------------------------------------------------------------
(* Properties *)

Using == {c \in Clients : phase[c] \in {"turn", "orphaned"}}

(* Type invariant: a client has a future exactly while it waits, and only  *)
(* a waiting chat is interrupted.                                          *)
TypeOK ==
    /\ tickets \in Nat
    /\ locked \in BOOLEAN
    /\ waiters \in Seq(Clients)
    /\ fut \in [Clients -> {"none", "pending", "set", "cancelled"}]
    /\ interrupted \in [Clients -> BOOLEAN]
    /\ phase \in [Clients -> {"idle", "waiting", "turn", "orphaned"}]
    /\ \A c \in Clients : fut[c] # "none" <=> phase[c] = "waiting"
    /\ \A c \in Clients : interrupted[c] => phase[c] = "waiting" /\ c # Soc

(* The GPU is never used by two clients, and the lock is held exactly      *)
(* while one uses it (core/queue_manager.py:9, "to prevent CUDA Out Of     *)
(* Memory"): an abandoned stream keeps it until it is closed, and          *)
(* release_turn never releases a lock it does not hold.                    *)
OneTurn ==
    /\ \A c, d \in Using : c = d
    /\ locked <=> Using # {}

(* Every ticket belongs to a chat that waits or streams: no path through   *)
(* wait_for_turn and stream_with_lock, whatever interrupts it, leaks a     *)
(* ticket (which would end in 503 for everybody) or returns one twice.     *)
TicketsBalanced ==
    tickets = Cardinality({c \in Chats : phase[c] # "idle"})

(* A free lock that somebody waits for is on its way to somebody: the      *)
(* first waiter has been woken, or is interrupted and will pass the lock   *)
(* on.  A wake-up consumed by a client that just timed out is not lost.    *)
NoLostWakeup ==
    ~locked /\ waiters # <<>> => fut[waiters[1]] # "pending"

(* The clients that wait and will not give up, in the order they came.     *)
Line == {c \in Clients : phase[c] = "waiting" /\ ~interrupted[c]}

Ahead(s, c, d) == \E i, j \in DOMAIN s : i < j /\ s[i] = c /\ s[j] = d

Before == {p \in Line \X Line : Ahead(waiters, p[1], p[2])}

Strict == INSTANCE TurnQueue WITH line <- Line, before <- Before, turn <- Using

(* The strict waiting queue of core/queue_manager.py:10: no client gets    *)
(* the GPU while one that came earlier is still waiting for it, and chats  *)
(* above the capacity stay out.                                            *)
StrictQueue == Strict!Spec

(* Whoever waits, chat or Auto-SOC, stops waiting even if nobody ever      *)
(* times out: streams that fail, are abandoned or are interrupted do not   *)
(* block the line, and chats that keep coming do not starve the worker.    *)
EveryoneServed ==
    \A c \in Clients : phase[c] = "waiting" ~> phase[c] # "waiting"

=============================================================================
