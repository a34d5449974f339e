------------------------------ MODULE ChatHistory ------------------------------
(***************************************************************************)
(* Chat threads of the Red Team: POST /api/red/chat/ask looks its thread   *)
(* up (or creates it), streams an answer and appends prompt and answer to  *)
(* the thread's JSONB list by reading the list and writing it back.  Every *)
(* database step is a transaction of its own as far as others can see:     *)
(* READ COMMITTED, no row lock, no version column.  The turn at the model  *)
(* is ModelQueue's; the gates before the thread are RedTeamGates'.         *)
(***************************************************************************)
EXTENDS Naturals, Sequences, FiniteSets, SequencesExt

CONSTANTS
    Chats,      \* requests, each served once
    Threads,    \* thread ids, chosen by the clients
    ThreadOf,   \* the thread each chat names
    OwnerOf,    \* user and session of each chat
    Existing,   \* rows before the chats (a set of at most one per thread)
    MaxFaults   \* bound on crashes and failing commits

Message == (Chats \cup {"seed"}) \X {"user", "ai"}
Row(owner, list) == [owner |-> owner, messages |-> list]

ChatAssumption ==
    /\ ThreadOf \in [Chats -> Threads]
    /\ \A th \in Threads : \A r, q \in Existing[th] :
         r = q /\ r = Row(r.owner, r.messages) /\ r.messages \in Seq({"seed"} \X {"user", "ai"})
    /\ DOMAIN Existing = Threads /\ DOMAIN OwnerOf = Chats
    /\ "seed" \notin Chats /\ MaxFaults \in Nat

VARIABLES
    pc,      \* where each chat is
    rows,    \* chat_threads: a set of at most one row per thread id
    copy,    \* the list append_messages read
    saved,   \* chats whose append was committed (history)
    before,  \* saved when the chat read the list (history)
    faults

vars == <<pc, rows, copy, saved, before, faults>>

Init ==
    /\ pc = [c \in Chats |-> "idle"]
    /\ rows = Existing
    /\ copy = [c \in Chats |-> <<>>]
    /\ saved = {}
    /\ before = [c \in Chats |-> {}]
    /\ faults = 0

Goto(c, p) == pc' = [pc EXCEPT ![c] = p]
Found(c) == rows[ThreadOf[c]]

(* Mutant: the owner of a thread is not compared.                          *)
Anyones(c, r) == TRUE

Mine(c, r) == r.owner = OwnerOf[c]

Arrive(c) ==
    /\ pc[c] = "idle"
    /\ Goto(c, "route")
    /\ UNCHANGED <<rows, copy, saved, before, faults>>

(* get_or_create_thread, called by the router and again by the stream: a   *)
(* foreign thread is a 404 (in the stream, an error event).                *)
LookUp(c) ==
    /\ pc[c] \in {"route", "serve"}
    /\ \/ \E r \in Found(c) :
            Goto(c, IF ~Mine(c, r) THEN "refused"
                    ELSE IF pc[c] = "route" THEN "serve" ELSE "stream")
       \/ Found(c) = {} /\ Goto(c, "create")
    /\ UNCHANGED <<rows, copy, saved, before, faults>>

(* Mutant: an insert that replaces the row of the same id.                 *)
Upsert(c) ==
    /\ pc[c] = "create"
    /\ rows' = [rows EXCEPT ![ThreadOf[c]] = {Row(OwnerOf[c], <<>>)}]
    /\ Goto(c, "serve")
    /\ UNCHANGED <<copy, saved, before, faults>>

(* Mutant: the new row is not committed before the stream.                 *)
Uncommitted(c) ==
    /\ pc[c] = "create"
    /\ Goto(c, "serve")
    /\ UNCHANGED <<rows, copy, saved, before, faults>>

(* INSERT and commit; the id is the primary key, so the later of two       *)
(* creations fails and its request with it.                                *)
Create(c) ==
    /\ pc[c] = "create"
    /\ IF Found(c) = {}
       THEN /\ rows' = [rows EXCEPT ![ThreadOf[c]] = {Row(OwnerOf[c], <<>>)}]
            /\ Goto(c, "serve")
       ELSE Goto(c, "failed") /\ UNCHANGED rows
    /\ UNCHANGED <<copy, saved, before, faults>>

(* The answer is complete.                                                 *)
Stream(c) ==
    /\ pc[c] = "stream"
    /\ Goto(c, "append")
    /\ UNCHANGED <<rows, copy, saved, before, faults>>

(* No answer: the queue is full or times out, the model fails or stops at  *)
(* its limit (an error event), or the client leaves.  Nothing is saved.    *)
NoAnswer(c) ==
    /\ pc[c] \in {"serve", "stream"}
    /\ Goto(c, "failed")
    /\ UNCHANGED <<rows, copy, saved, before, faults>>

(* Mutant: the list is the one the request saw when it arrived.            *)
StaleRead(c) ==
    /\ pc[c] = "append"
    /\ before' = [before EXCEPT ![c] = saved]
    /\ Goto(c, "write")
    /\ UNCHANGED <<rows, copy, saved, faults>>

(* append_messages: SELECT the thread.                                     *)
ReadList(c) ==
    /\ pc[c] = "append"
    /\ \E r \in Found(c) : copy' = [copy EXCEPT ![c] = r.messages]
    /\ before' = [before EXCEPT ![c] = saved]
    /\ Goto(c, "write")
    /\ UNCHANGED <<rows, saved, faults>>

Pair(c) == <<<<c, "user">>, <<c, "ai">>>>

Overwrite(c) ==
    /\ \E r \in Found(c) :
         rows' = [rows EXCEPT ![ThreadOf[c]] = {Row(r.owner, copy[c] \o Pair(c))}]
    /\ saved' = saved \cup {c}

(* Mutant: the append is repeated as if its commit had failed.             *)
WriteTwice(c) ==
    /\ pc[c] = "write"
    /\ Overwrite(c)
    /\ Goto(c, IF c \in saved THEN "ended" ELSE "append")
    /\ UNCHANGED <<copy, before, faults>>

(* UPDATE of the whole list, and commit; [DONE] follows.                   *)
WriteList(c) ==
    /\ pc[c] = "write"
    /\ Overwrite(c)
    /\ Goto(c, "ended")
    /\ UNCHANGED <<copy, before, faults>>

(* A commit fails: a 500, or an error event after the answer's text.       *)
CommitFails(c) ==
    /\ pc[c] \in {"create", "write"} /\ faults < MaxFaults
    /\ faults' = faults + 1
    /\ Goto(c, "failed")
    /\ UNCHANGED <<rows, copy, saved, before>>

Over == {"idle", "refused", "failed", "ended"}

Crash ==
    /\ faults < MaxFaults
    /\ faults' = faults + 1
    /\ pc' = [c \in Chats |-> IF pc[c] \in Over THEN pc[c] ELSE "failed"]
    /\ UNCHANGED <<rows, copy, saved, before>>

Step(c) ==
    \/ Arrive(c) \/ LookUp(c) \/ Create(c) \/ Stream(c) \/ NoAnswer(c)
    \/ ReadList(c) \/ WriteList(c) \/ CommitFails(c)

Next == Crash \/ \E c \in Chats : Step(c)

Spec == Init /\ [][Next]_vars

-----------------------------------------------------------------------------
(* Properties *)

Phases == Over \cup {"route", "serve", "create", "stream", "append", "write"}

(* Type invariant; a chat past its lookups has a thread.                   *)
TypeOK ==
    /\ pc \in [Chats -> Phases]
    /\ DOMAIN rows = Threads
    /\ \A th \in Threads : \A r, q \in rows[th] : r = q /\ r.messages \in Seq(Message)
    /\ \A c \in Chats : pc[c] \in {"serve", "stream", "append", "write"} => Found(c) # {}
    /\ copy \in [Chats -> Seq(Message)]
    /\ saved \subseteq Chats /\ before \in [Chats -> SUBSET saved]
    /\ faults \in 0 .. MaxFaults

ChatsIn(th) == {m[1] : m \in UNION {ToSet(r.messages) : r \in rows[th]}} \cap Chats

(* Only chats of a thread's owner, in its session, are ever in its list    *)
(* (chat/service.py:24, "a foreign thread is a 404").                      *)
OwnThreadOnly ==
    \A th \in Threads : \A r \in rows[th] : \A c \in ChatsIn(th) :
        ThreadOf[c] = th /\ OwnerOf[c] = r.owner

(* The list a thread had before the chats.                                 *)
Old(th) == IF Existing[th] = {} THEN <<>> ELSE (CHOOSE r \in Existing[th] : TRUE).messages

(* Whatever overlaps or fails, a list is what was there before followed by *)
(* whole exchanges: prompt, then answer, of one chat, each chat once.      *)
WholeExchanges ==
    \A th \in Threads : \A r \in rows[th] :
        LET list == r.messages
            new == Len(Old(th)) + 1 .. Len(list)
        IN  /\ Len(list) >= Len(Old(th)) /\ \A i \in DOMAIN Old(th) : list[i] = Old(th)[i]
            /\ \A i \in new : (i - Len(Old(th))) % 2 = 1 =>
                 i + 1 \in new /\ \E c \in Chats : <<list[i], list[i + 1]>> = Pair(c)
            /\ \A i, j \in new : list[i] = list[j] => i = j

(* An exchange that was committed is in its thread, unless a chat of the   *)
(* same thread was saving at the same time: neither had been committed     *)
(* when the other read the list (chat/repository.py:74-91).                *)
LossNeedsOverlap ==
    \A c \in saved : c \in ChatsIn(ThreadOf[c])
        \/ \E d \in saved \ {c} :
             ThreadOf[d] = ThreadOf[c] /\ c \notin before[d] /\ d \notin before[c]

=============================================================================
