------------------------------ MODULE Dashboard ------------------------------
(***************************************************************************)
(* The Blue Team page's hook, useBlueTeamDashboard.ts, with the server as  *)
(* the number of actions it has applied.  A state change of React (token,  *)
(* session in the URL, refresh) takes effect when its effects run; until   *)
(* then answers of the old poll and the old action may still arrive.  A    *)
(* poll asks for budget and events in two requests of one Promise.all.     *)
(***************************************************************************)
EXTENDS Naturals, FiniteSets

CONSTANTS
    Pages,       \* values of ?session_id in the URL
    MaxLogins, MaxActions, MaxNavigations, MaxFails   \* bounds

DashboardAssumption ==
    Pages # {} /\ MaxLogins > 0 /\ {MaxLogins, MaxActions, MaxNavigations, MaxFails} \subseteq Nat

VARIABLES
    token,     \* the number of the login, 0 for none
    page,      \* requestedSessionId
    identity,
    due,       \* effects whose dependencies changed: identity, poll
    owner,     \* snapshotOwner: <<token, page>>, token 0 for null
    data,      \* what budget and logs were read for, and when
    polls,     \* the running poll, and aborted ones whose answers had come
    action,    \* the request of performAction, as a set
    login,     \* a login request is on its way
    applied,   \* actions the server has applied
    issued, navigations, fails   \* bounded by the constants

vars == <<token, page, identity, due, owner, data, polls, action, login, applied, issued, navigations, fails>>
view == <<owner, data>>
counts == <<issued, navigations, fails>>

NotRead == MaxActions + 1
NoData == [for |-> <<0, 0>>, budget |-> 0, logs |-> 0]

(* After hydration a token may be restored from the browser's storage.     *)
Init ==
    /\ token \in 0 .. 1 /\ page \in Pages
    /\ identity = 0 /\ due = IF token = 0 THEN {} ELSE {"identity", "poll"}
    /\ owner = <<0, page>> /\ data = NoData
    /\ polls = {} /\ action = {} /\ login = FALSE
    /\ applied = 0 /\ issued = token /\ navigations = 0 /\ fails = 0

(* Mutant: the snapshot is compared with the token only.                   *)
SameToken == token # 0 /\ owner[1] = token

IsCurrent == token # 0 /\ owner = <<token, page>>

(* logout; the effects follow if there was a token.                        *)
DropToken ==
    /\ identity' = identity + 1 /\ token' = 0 /\ data' = NoData
    /\ due' = due \cup IF token = 0 THEN {} ELSE {"identity", "poll"}

(* The form is submitted; its button is disabled while a login is going.   *)
Login ==
    /\ token = 0 /\ ~login /\ due = {} /\ issued < MaxLogins
    /\ login' = TRUE /\ issued' = issued + 1
    /\ UNCHANGED <<token, page, identity, due, view, polls, action, applied, navigations, fails>>

LoginOk ==
    /\ login /\ login' = FALSE
    /\ identity' = identity + 1 /\ token' = issued /\ due' = {"identity", "poll"}
    /\ UNCHANGED <<page, view, polls, action, applied, counts>>

LoginFails ==
    /\ login /\ login' = FALSE
    /\ DropToken \/ UNCHANGED <<identity, token, data, due>>
    /\ UNCHANGED <<page, owner, polls, action, applied, counts>>

(* A click: React has run all effects before it.                           *)
Logout ==
    /\ token # 0 /\ due = {}
    /\ DropToken
    /\ UNCHANGED <<page, owner, polls, action, login, applied, counts>>

Navigate(q) ==
    /\ q # page /\ navigations < MaxNavigations
    /\ page' = q /\ navigations' = navigations + 1
    /\ due' = {"identity", "poll"}
    /\ UNCHANGED <<token, identity, view, polls, action, login, applied, issued, fails>>

Poll(phase, budget, logs, aborted) ==
    [for |-> <<token, page>>, phase |-> phase, budget |-> budget, logs |-> logs, aborted |-> aborted]

Waiting == Poll("fetch", NotRead, NotRead, FALSE)

(* abort() rejects requests that are still out, clearTimeout stops a timer;*)
(* an answer that has come is looked at later.                             *)
Aborted == {[p EXCEPT !.aborted = TRUE] : p \in {q \in polls : q.phase = "answered"}}

(* Mutant: the effect is not cleaned up.                                   *)
NoCleanup ==
    /\ due # {} /\ due' = {}
    /\ identity' = identity + IF "identity" \in due THEN 1 ELSE 0
    /\ polls' = polls \cup IF token = 0 THEN {} ELSE {Waiting}
    /\ UNCHANGED <<token, page, view, action, login, applied, counts>>

Effects ==
    /\ due # {} /\ due' = {}
    /\ identity' = identity + IF "identity" \in due THEN 1 ELSE 0
    /\ polls' = Aborted \cup IF token = 0 THEN {} ELSE {Waiting}
    /\ UNCHANGED <<token, page, view, action, login, applied, counts>>

Becomes(p, q) == polls' = (polls \ {p}) \cup {q}

(* The server answers one of the two requests.                             *)
Read(p) ==
    /\ p.phase = "fetch"
    /\ \E q \in {[p EXCEPT !.budget = applied], [p EXCEPT !.logs = applied]} :
         /\ q # p /\ (q.budget = p.budget \/ p.budget = NotRead) /\ (q.logs = p.logs \/ p.logs = NotRead)
         /\ Becomes(p, IF NotRead \in {q.budget, q.logs} THEN q ELSE [q EXCEPT !.phase = "answered"])
    /\ UNCHANGED <<token, page, identity, due, view, action, login, applied, counts>>

(* Mutant: an aborted poll's answer is shown.                              *)
Ignored(p) == FALSE

Dropped(p) == p.aborted

(* Both answers are there: the snapshot, and a timer for the next poll.    *)
Show(p) ==
    /\ p.phase = "answered"
    /\ IF Dropped(p) THEN polls' = polls \ {p} /\ UNCHANGED view
       ELSE /\ owner' = p.for
            /\ data' = [for |-> p.for, budget |-> p.budget, logs |-> p.logs]
            /\ Becomes(p, [p EXCEPT !.phase = "idle"])
    /\ UNCHANGED <<token, page, identity, due, action, login, applied, counts>>

(* Mutant: after an error, the poll is not repeated.                       *)
GiveUp(p) ==
    /\ p.phase = "fetch" /\ fails < MaxFails
    /\ fails' = fails + 1 /\ polls' = polls \ {p}
    /\ UNCHANGED <<token, page, identity, due, view, action, login, applied, issued, navigations>>

(* An error other than 401 is shown; the timer is set all the same.        *)
PollFails(p) ==
    /\ p.phase = "fetch" /\ fails < MaxFails
    /\ fails' = fails + 1 /\ Becomes(p, [p EXCEPT !.phase = "idle"])
    /\ UNCHANGED <<token, page, identity, due, view, action, login, applied, issued, navigations>>

PollExpires(p) ==
    /\ p.phase = "fetch" /\ fails < MaxFails
    /\ fails' = fails + 1 /\ Becomes(p, [p EXCEPT !.phase = "idle"])
    /\ DropToken
    /\ UNCHANGED <<page, owner, action, login, applied, issued, navigations>>

Timer(p) ==
    /\ p.phase = "idle"
    /\ Becomes(p, [for |-> p.for, phase |-> "fetch", budget |-> NotRead, logs |-> NotRead, aborted |-> p.aborted])
    /\ UNCHANGED <<token, page, identity, due, view, action, login, applied, counts>>

(* performAction, up to its request.                                       *)
Act ==
    /\ IsCurrent /\ action = {} /\ applied < MaxActions
    /\ action' = {[token |-> token, identity |-> identity, done |-> FALSE]}
    /\ UNCHANGED <<token, page, identity, due, view, polls, login, applied, counts>>

(* The server applies it; a refusal is an answer like any other.           *)
Apply(a) ==
    /\ ~a.done /\ applied < MaxActions
    /\ applied' = applied + 1 /\ action' = {[a EXCEPT !.done = TRUE]}
    /\ UNCHANGED <<token, page, identity, due, view, polls, login, counts>>

(* Mutant: an answer is taken whoever is logged in.                        *)
AnyAnswer(a) == TRUE

Same(a) == identity = a.identity

ActOk(a) ==
    /\ a.done /\ action' = {}
    /\ due' = due \cup IF Same(a) THEN {"poll"} ELSE {}
    /\ UNCHANGED <<token, page, identity, view, polls, login, applied, counts>>

(* An error, the action applied or not: a 401 logs out.                    *)
ActFails(a) ==
    /\ action' = {}
    /\ (Same(a) /\ DropToken) \/ UNCHANGED <<identity, token, data, due>>
    /\ UNCHANGED <<page, owner, polls, login, applied, counts>>

Next ==
    \/ Login \/ LoginOk \/ LoginFails \/ Logout \/ Effects \/ Act
    \/ \E q \in Pages : Navigate(q)
    \/ \E p \in polls : Read(p) \/ Show(p) \/ PollFails(p) \/ PollExpires(p) \/ Timer(p)
    \/ \E a \in action : Apply(a) \/ ActOk(a) \/ ActFails(a)

Spec == Init /\ [][Next]_vars

(* React runs what is due, requests are answered, timers fire.             *)
Fairness ==
    /\ WF_vars(Effects)
    /\ WF_vars(\E p \in polls : Read(p) \/ Show(p) \/ Timer(p))

FairSpec == Spec /\ Fairness

-----------------------------------------------------------------------------
(* Properties *)

Live == {p \in polls : ~p.aborted}

(* Type invariant; when no effect is due, exactly one poll runs for a      *)
(* login and none without one, and it is the current page's.               *)
TypeOK ==
    /\ token \in 0 .. MaxLogins /\ page \in Pages /\ identity \in Nat
    /\ due \in {{}, {"poll"}, {"identity", "poll"}}
    /\ owner[1] \in 0 .. MaxLogins /\ data.budget \in 0 .. MaxActions /\ data.logs \in 0 .. MaxActions
    /\ due = {} => IF token = 0 THEN Live = {} ELSE \E p \in Live : Live = {p} /\ p.for = <<token, page>>
    /\ \A a, b \in action : a = b
    /\ login => token = 0
    /\ applied \in 0 .. MaxActions /\ issued \in 0 .. MaxLogins
    /\ navigations \in 0 .. MaxNavigations /\ fails \in 0 .. MaxFails

(* What is shown was read with the current login for the current page      *)
(* (useBlueTeamDashboard.ts:28, 140-141), whatever answers come late.      *)
ShownIsCurrent == IsCurrent => data.for = <<token, page>>

(* The events and the budget shown of one login and page never go back to  *)
(* an older state of the server: a poll from before an action's refresh    *)
(* does not overwrite a later one.                                         *)
NotOlder == data'.for = data.for => data'.budget >= data.budget /\ data'.logs >= data.logs
NeverOlder == [][NotOlder]_vars

(* The late answer of an action started under one login never ends another *)
(* login, and changes nothing of it (:128-130).                            *)
OwnEnd == \A a \in action : action' = {} /\ a.token # token => UNCHANGED <<token, identity, due>>
NoForeignEnd == [][OwnEnd]_vars

(* One who stays logged in on one page comes to see what all actions did,  *)
(* budget and events of the same state, although single polls may tear     *)
(* them apart or fail.                                                     *)
Settles ==
    \A t \in 1 .. MaxLogins, q \in Pages :
        <>[](token = t /\ page = q)
            => <>[](IsCurrent /\ data.budget = applied /\ data.logs = applied)

=============================================================================
