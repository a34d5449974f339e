------------------------------ MODULE TurnQueue ------------------------------
(***************************************************************************)
(* What LLMQueueManager promises ("a strict waiting queue with ... capacity *)
(* limits", "to prevent CUDA Out Of Memory"): one client at a time has the *)
(* GPU, clients that keep waiting get it in the order they came, and at    *)
(* most Capacity chats are inside.  ModelQueue, with asyncio's futures,    *)
(* delayed wake-ups and cancellations, implements it.                      *)
(***************************************************************************)
EXTENDS Naturals, FiniteSets

CONSTANTS
    Chats,      \* chat requests of the Red Team
    Soc,        \* the Auto-SOC worker, which needs no ticket
    Capacity    \* max_queue_size

Clients == Chats \cup {Soc}

VARIABLES
    line,    \* the clients waiting
    before,  \* the pairs of them in the order they came
    turn     \* the clients using the GPU

vars == <<line, before, turn>>

Init == line = {} /\ before = {} /\ turn = {}

Inside == (line \cup turn) \cap Chats

(* A client may come in: a chat only if there is room.                     *)
Admissible(c) ==
    /\ c \notin line \cup turn
    /\ c = Soc \/ Cardinality(Inside) < Capacity

Arrive(c) ==
    /\ Admissible(c)
    /\ line' = line \cup {c}
    /\ before' = before \cup (line \X {c})
    /\ UNCHANGED turn

(* Nobody uses the GPU and nobody waits: no need to wait.                  *)
ArriveFirst(c) ==
    /\ Admissible(c)
    /\ line = {} /\ turn = {}
    /\ turn' = {c}
    /\ UNCHANGED <<line, before>>

Drop(c) ==
    /\ line' = line \ {c}
    /\ before' = {p \in before : p[1] # c /\ p[2] # c}

(* The first of the line takes its turn.                                   *)
Take(c) ==
    /\ c \in line
    /\ turn = {}
    /\ \A d \in line : <<d, c>> \notin before
    /\ Drop(c)
    /\ turn' = {c}

(* A client stops waiting.                                                 *)
Leave(c) ==
    /\ c \in line
    /\ Drop(c)
    /\ UNCHANGED turn

Done(c) ==
    /\ c \in turn
    /\ turn' = turn \ {c}
    /\ UNCHANGED <<line, before>>

Next ==
    \E c \in Clients :
        Arrive(c) \/ ArriveFirst(c) \/ Take(c) \/ Leave(c) \/ Done(c)

Spec == Init /\ [][Next]_vars

=============================================================================
