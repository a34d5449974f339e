------------------------------- MODULE Services -------------------------------
(***************************************************************************)
(* What serves the users' requests: uploads and their jobs (EtlJob), the   *)
(* engine's connections (ConnectionPool), the threads of chats             *)
(* (ChatHistory), and the page that polls the server (Dashboard).  They    *)
(* share no state in the models; what each promises is stated here.        *)
(***************************************************************************)
EXTENDS EtlJob

CONSTANTS
    Red, Blue, Asks, Correct, PoolSize, MaxAttempts,             \* of ConnectionPool
    Chats, Threads, ThreadOf, OwnerOf, Existing, ChatFaults,     \* of ChatHistory
    Pages, MaxLogins, MaxActions, MaxNavigations, MaxFails       \* of Dashboard

VARIABLES
    hardened, phase, main, event, line, lock, attempts, logged,
    chatPc, rows, copy, saved, before, chatFaults,
    token, page, identity, due, owner, data, polls, action, login, applied, issued, navigations, fails

Pool == INSTANCE ConnectionPool WITH Chats <- Asks

History == INSTANCE ChatHistory WITH MaxFaults <- ChatFaults, pc <- chatPc, faults <- chatFaults

Browser == INSTANCE Dashboard

ASSUME ServicesAssumption ==
    EtlAssumption /\ Pool!PoolAssumption /\ History!ChatAssumption /\ Browser!DashboardAssumption

etlVars == vars
poolVars == <<hardened, phase, main, event, line, lock, attempts, logged>>
chatVars == <<chatPc, rows, copy, saved, before, chatFaults>>
pageVars ==
    <<token, page, identity, due, owner, data, polls, action, login, applied, issued, navigations, fails>>

-----------------------------------------------------------------------------
(* Properties of the components; UploadsOwn is that of EtlJob.             *)

(* In well-formed states, a burst of failed logins is counted and logged   *)
(* (ConnectionPool).                                                       *)
BurstLogged == Pool!TypeOK /\ Pool!FailedCounted /\ Pool!FirstBlockedLogged

(* Threads keep their owner's whole exchanges, and lose one only to        *)
(* another that was saved at the same time (ChatHistory).                  *)
ThreadsWhole ==
    History!TypeOK /\ History!OwnThreadOnly /\ History!WholeExchanges /\ History!LossNeedsOverlap

(* What is shown is of the current login and page (Dashboard).             *)
ShownIsCurrent == Browser!TypeOK /\ Browser!ShownIsCurrent

(* A late answer neither brings an older state back nor ends another login *)
(* (Dashboard).                                                            *)
LateAnswersDropped == [][Browser!NotOlder /\ Browser!OwnEnd]_pageVars

=============================================================================
