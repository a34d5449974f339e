# CyberRange in TLA+

This directory specifies the part of CyberRange that is hard to test: requests,
background jobs, a shared model, the operator's commands, a browser, and the
stores (PostgreSQL, Redis, Chroma, files) between them, which interleave at every
`await`. The modules are written from the sources. TLC checks them on small
instances, TLAPS proves safety properties for every instance, and `PROJECT.json`
names the source lines of every definition.

Contents: [the system](#the-system) · [the modules](#the-modules) ·
[the runs](#the-runs) · [fairness](#fairness) · [proofs](#proofs) ·
[where the code and its documents disagree](#where-the-code-and-its-documents-disagree) ·
[what else the models show](#what-else-the-models-show) ·
[assumptions](#assumptions) · [not modelled](#not-modelled) · [running it](#running-it)

## The system

One uvicorn process (`src/backend/app/main.py`) serves every request on one
asyncio event loop. A handler runs alone between two awaits, so an interleaving
is a choice of which task continues after which `await`. The state that outlives
a request is in PostgreSQL, Redis, Chroma, the object store, or
`LLMQueueManager`'s lock and ticket queue. Operators run the scripts of
`src/scripts` beside it, as processes of their own.

| Component (source) | State | Operations | What is hard | What makes it correct |
| --- | --- | --- | --- | --- |
| Blue Team investigations (`siem/forensics.py`) | log rows, session rows | judge an event, earn points | two analysts, or an analyst and the Auto-SOC, on one event; a row read before it is locked | one final verdict, points paid once, to the event's own lab |
| Defense shop (`defense/service.py`) | session rows | buy a defense | concurrent with awards on the same budget | budget balances, never negative |
| SIEM event log (`siem/service.py`, `siem/repository.py`) | log rows, de-duplication keys, advisory locks | write an event, count failed logins | event writes fail on their own; counting and writing are two steps | no event hidden by a failed write; counts complete |
| Auto-SOC worker (`siem/soc_worker.py`, `agents/soc_agent.py`) | none of its own but the batch | close rule-judged events, analyse the others, save verdicts | long model call between read and save; outages; events that always fail | judges every event of solo labs, overwrites no verdict |
| Model queue (`core/queue_manager.py`) | asyncio lock, tickets | wait for a turn, stream, release | timeout or disconnect against a wake-up; abandoned generators | one client at a time, in order, no leak, no lost wake-up |
| Chat streams (`chat/*`) | threads with message lists | create a thread, stream, append the exchange | read-modify-write of the list; two clients create one thread | owner's chats only, whole exchanges, loss only by overlap |
| CTF scoring (`ctf/service.py`) | submissions, events | submit a flag | check and insert not atomic; event written after the commit | own lab only, late duplicates rejected, audit follows |
| Authentication (`auth/*`) | – | log in, check a token | failures counted concurrently, each on a second connection | enumeration visible, forgery reported, burst logged |
| Limiters (`defense/service.py`) | Redis counters | count an attempt / a request | concurrent at the limit; failures between Redis calls | never more than the limit pass, one alarm |
| Documents and ETL (`documents/*`) | status records, objects, vectors | upload, index, follow by WebSocket | a record expires or its job dies while it is watched; one object for uploads of one name | own record, own lab's text, Finished is true |
| Exercise seeding (`scripts/seed_exercises.py`, `labs/exercises.py`) | flags, secrets, private document | seed a lab | crash between commit and indexing; lost lock; repeated runs | one flag per exercise, known everywhere, printed once |
| Database setup (`scripts/admin_setup.py`) | labs, users, sessions | create | overlapping, repeated, unconfirmed runs; table locked at a prompt | whole labs, one session, true reports |
| SQLi isolation (`chat/sqli_*.py`, `scripts/provision_sqli.py`, `scripts/prepare_sqli_demo.py`) | roles and views, connections file, the demo's files | provision, search | the boundary is checked statement by statement; files written around a commit | own reader behind a checked boundary; nothing replaced |
| Database access (`db/database.py`) | connection pool | connect, release | requests that keep a connection while they wait for another | every request ends |
| Dashboard (`frontend/src/hooks/useBlueTeamDashboard.ts`) | browser state | poll, act, log in and out, change the page | late answers of an earlier login, page or poll | current, never older, settles |
| Agents and tools, LLM provider, lifespan | settings, process | call a tool, build a client, restart | – | free verdicts, crashes |
| Other frontend, deployment | – | – | – | rendering and configuration |

How they interact: an HTTP handler reads the player's session row
(`get_authorized_session`), works in its own database transaction, and reports
to the SIEM through `log_security_event`, which commits in a session of its own:
on a second connection of the pool. The Auto-SOC reads and closes what was
reported, and shares the model with the chats through the queue. A purchase by
the Blue Team switches on what the running Red Team requests meet: the limiters
and the token checks. The dashboard polls what the game and the log have become.

The `hazards` of `PROJECT.json` list, line by line, what a test would hardly
reach in this code, and which property covers each.

## The modules

    GameRules ─┬─ DefenseLedger (abstract)
               └─ BlueTeamGame ── implements DefenseLedger
    TurnQueue (abstract)
    ModelQueue ── implements TurnQueue
    CtfScoring   LoginWatch   RedTeamGates              one request's own races
    EtlJob ─────┬─ Services    with ConnectionPool, ChatHistory, Dashboard
    AdminSetup ─┴─ Commands    with ExerciseSeeding, SqliIsolation, SqliDemo
    liveness of five of these                            run by MCEndings

`Services` and `Commands` extend their first component, instantiate the others
with variables of their own, and state, as one property for each promise of the
system, the conjunction of what its components keep (`FlagsKnown`,
`ReadersConfined`, `BurstLogged`, ...). They add no step. Each `MC…` module
instantiates its specifications for TLC, and each `…_proofs` module holds the
theorems about one specification, or about one of these two and its components.
Operators commented "Mutant:" are plausible
bugs of the definition they stand before; no action uses them, they exist to see
a property fail.

A step of a model is what the code does from one await to the next. A database
call that commits, a Redis command and a model call each end a step. Every
multi-step request has a `phase` or `pc`; a move to `"done"` stands for the
response and, where there is an ORM session, for its close and rollback.

**BlueTeamGame** with `GameRules`, the data, and `DefenseLedger`, the promise.
`log`, `session` are the committed rows of `security_audit_logs` and
`game_sessions`; `holds[a]` the rows an open transaction has locked with
`SELECT ... FOR UPDATE`; `view[r]` the `GameSession` object in a request's ORM
identity map; `batch`, `verdict`, `outage` the locals of `run_soc_analyst_loop`.
`Authorize` reads the session without a lock, `LockLog`, `LockSession` are the
two locked reads of `process_investigation` (purchases take the second only),
`CommitInvestigation` and `CommitPurchase` write the budget computed from `view`.
`LockedRow` is what `populate_existing` makes of the second read: its mutant
`StaleRow` is the code without it. The worker's pass is `SocLockRules`,
`SocCloseRules` (with `SKIP LOCKED`), `SocFetch`, `SocAnalyse` or one of its
failures, `SocLockVerdict`, `SocSaveVerdict`. `Crash` rolls every transaction
back and restarts the loop.
`DefenseLedger` has the same committed rows and four indivisible steps: record,
judge and be paid, close, buy.

**ModelQueue** with `TurnQueue`, the promise. `locked`, `waiters`, `fut` are
`asyncio.Lock`'s fields and the waiters' futures, translated from CPython 3.11,
the interpreter of the image (external code). A release completes the first
waiter's future (`WakeFirst`); the waiter runs later (`TakeTurn`). In between it
may be interrupted by its 300 s timeout or its client's disconnect
(`Interrupt`), after which it passes the wake-up on (`Withdraw`). `Finish` is
the `finally` of `stream_with_lock`; `Abandon` leaves the generator suspended
with the turn until the event loop finalizes it (`Finalize`). The Auto-SOC takes
the lock without a ticket. The refinement maps the waiters that will not give up
to the abstract line, their order in the deque to the pairs `before`, and the
clients that use the GPU to `turn`.

**CtfScoring**: `submit_flag` as lookup, duplicate check, insert and commit,
event. `known[r]` remembers what had been committed when a request arrived, so
that "late duplicate" can be said.

**LoginWatch**: `authenticate` with `enforce_login_attempt_limit` and
`log_failed_login` for one lab and source. `counter` is the Redis key per
minute, incremented in `MULTI`; `locker` the advisory lock; `time` the minute
read before waiting for it; `seen` the count between the query and the commit.
An attempt whose locking or counting fails is written without either.

**RedTeamGates**: what a chat request passes. `Reserve` is `SET NX EX` of the
forgery key, `Report` the event, `Release` the delete after a failed write;
`Increment` and `SetExpiry` the two calls of `enforce_rate_limit`. A failing
Redis command may have been applied, and the refresh after a commit may fail
(`RefreshFails`).
`Harden` (LoginWatch) and `SwitchOn` (RedTeamGates) are a purchase seen by
running requests; `jwt_filter` changes which key the forgery report uses and is
left off.

**ConnectionPool**: who holds a connection and who waits for one. `main` is the
connection of `get_db`'s session, taken by its first SELECT and kept to the end
of the transaction (of a chat: of the stream); `event` the one an event is
written on. `line` holds the waiters by deadline; the pool serves whoever asks
first, so newcomers may overtake. `Write` commits an event and gives the
connection, with the source's lock, back; `Refresh` reads the row again on a
connection that has to be asked for anew, and its failure is not a lost event.
Time passes only when nobody can move (`Stalled`): then the first in line gives
up, which is the pool's 30 s timeout. A Blue Team login gives its connection back in every case and stands for other
correct logins that write no event; rate-limit and forgery events have the shape
of the prompt event of a chat.

**ChatHistory**: `rows` is `chat_threads`, `copy` the list `append_messages` has
read. Its SELECT returns a fresh row because the session's identity map is weak
and the thread read for the route was dropped; the mutant `StaleRead` keeps it.
`saved` and `before` are history: whose append was committed, and whose
had been when a chat read its list.

**EtlJob**: uploads, the job and the WebSocket on `etl_job:<id>`. `keys`, `ttl`
and `job` are the hash: HSET recreates a key that expired, without owner and
without lifetime; EXPIRE of a missing key does nothing. `store` has one object
per lab and name, so a job may read what a later upload put there (`read`).
Percentages are the code's expressions, with `\div` for `int(a / b * 30)`.
Jobs of `Slow` tasks may outlive the key's hour. A crash of the server ends
uploads, jobs and sockets; Redis, objects and the index stay.

**Dashboard**: the hook, with the server as the number of actions it applied. A
React state change is a step; its effects are a later step (`Effects`), and
answers of the old poll or action may come between. A poll's two requests are
read at two times.

**AdminSetup**: a run is lock, ALTER TABLE, checks, prompt, write, commit, and a
commit whose answer is lost. `app` are requests that read `game_sessions`,
which the ALTER keeps out until the run's end. **ExerciseSeeding**: the seeding
transaction under a session-level lock, then removing and adding the private
document, unlocking and printing; killed runs, failing calls and a lost lock at
any step. A request of a dead process to Chroma is applied at once or never.
**SqliIsolation**: provisioning and searches walk through the six checks of
`check_reader_boundary` one statement at a time while administrators change what
they look at. **SqliDemo**: the two files of `prepare_sqli_demo.py` around the commit;
their content exists from the flush or the close of the file on.

## The runs

| Run | Configuration | What it shows |
| --- | --- | --- |
| `game_safety` | 2 labs (one solo), 3 events, 2 defenses, 2 requests of any kind, one fault | types and non-negative budgets; `BudgetBalances`: no point lost or made; `VerdictIsFinal`; `PaidForOwnEvents`; `SocServesSoloLabs`; `RuleDecidesRuleEvents`; `ImplementsLedger` |
| `game_liveness` | one solo lab, 4 events, one unanalysable, batch of 2, 2 requests, one fault | `EventsJudged` despite one event that always fails; `RuleEventsClosed` even without a model; `RequestsEnd`: lock orders do not deadlock |
| `soc_starvation` | as many unanalysable events as the batch holds | `EventsJudged` fails (see below) |
| `model_queue` | 4 chats and the worker, capacity 3 | `OneTurn`, `TicketsBalanced`, `NoLostWakeup`, `StrictQueue` (refinement), `EveryoneServed` |
| `ctf_safety` | 2 labs hiding the same value, 3 submissions, one fault | `OwnLabOnly`, `NoLateDuplicate`, `CapturesReported` |
| `login_watch` | 4 attempts, 2 usernames, limit 1, two minutes, one fault | `CountsIncludeEarlier`, `Throttled` |
| `gates_safety` | 4 requests, limit 1, 2 faults, 2 expiries | `ForgeryNotHidden`, `OneReportPerWindow`, `WithinLimit` |
| `gates_expiry` | 2 requests, one fault | `CounterHasExpiry` fails (see below) |
| `setup_requests` | one setup run and requests | `RequestsGoOn` fails (see below) |
| `commands` | 3 setup runs and hidden users; 4 seeding runs on 2 labs, 2 faults; 3 demo runs; 3 provisioners and a search, 2 changes | `LabsWhole`, `NoSecondSession` (AdminSetup), `FlagsKnown` (ExerciseSeeding), `ReadersConfined`, `NothingReplaced` (SqliIsolation, SqliDemo) |
| `services` | 4 logins on a pool of 2 and of 1; 5 chats on 2 threads; 2 uploads of one name by users of one lab or two, one fault; a browser with 2 logins | `BurstLogged`, `ThreadsWhole`, `UploadsOwn`, `ShownIsCurrent`, `LateAnswersDropped` |
| `endings` | 2 provisioners and 2 searches; 2 setup runs and a request; one upload of any shape, 2 faults; a browser; 2 logins and a chat on a pool of 2 | `WaitsEnd`, `UploadsEnd`, `Settles` |

`commands`, `services` and `endings` each check several components that share no
state (`MCCommands`, `MCServices`, `MCEndings`). A behaviour of such a run is one of a single component, which its first
variable chooses, from that component's own initial states; the others rest, in
`endings` in states in which their fairness asks nothing. A property of the run
is the conjunction, written in Commands or Services, of named properties of the
components, where each part is stated and explained; a mutant of each component shows that its part is really
exercised.

Bounds, and why they are enough to meet the interesting cases:

- *Requests.* Every conflict in the game is between two requests, or a request
  and the worker; two requests of any kind and lab with the worker make all
  three-party cases. CTF needs one to commit while two others are between check
  and insert (3). Logins need two in the same minute and two around its end (4).
  The queue needs someone with the turn, one just woken, one behind it and one
  turned away (4, with capacity 3 in place of 50: the ticket count is only ever
  compared with the capacity). Chats need three on one thread, to lose an
  exchange while another is kept, and a foreign owner on it; uploads two, one
  overwriting the object the other's job is about to read.
- *Runs of a command.* Three setup runs: one waiting, one writing, one that
  found an earlier result. Three seeding runs of a lab: one killed after its
  commit, one that overlaps, one that repairs; a fourth of another lab.
- *Pool.* Size 1 and 2 against four logins, so that the whole pool can be held
  by requests that wait. The real size is 15.
- *Prices and budget.* Budget 3 against prices 2 and 3: either defense alone,
  both only with points earned, so awards and purchases compete.
- *Batches.* One or two rows against more pending rows, so the limit of a batch
  is felt; four chunks in batches of three, so a document takes two inserts and
  is long enough for `LongTextsToldEnd`. `Unanalysable` is a set of rows whose
  analysis always fails.
- *Limits.* 1, so that the second attempt is the first blocked one.
- *`MaxFaults`* bounds crashes and failures together, `MaxExpiries` expiries,
  `MaxChanges`, `MaxHidden` other programs, `MaxLogins`, `MaxActions`,
  `MaxNavigations`, `MaxFails` the browser, `Horizon` the clock. The theorems
  hold for any value of them.
- `game_liveness` restricts the environment (`Quiet` in MCBlueTeamGame): players
  do not claim hits, and either at most two of the four events are written or
  only one player acts. What is excluded are arrivals, which have no fairness, so
  every step that fairness asks for stays possible.
- `CHECK_DEADLOCK FALSE` where every request is served once and nothing else
  runs. The game and the queue never stop.

Symmetry (permutations of requests, of users, of setup runs) is used in runs
without liveness only.

## Fairness

*BlueTeamGame.* `WF(Serve(r))`: PostgreSQL answers, and an open request whose
lock is free goes on. `WF(SocStep)`: the loop is never left; every exception of
a pass is caught (`soc_worker.py`). Nothing is assumed about clients or events.
Weak fairness of the disjunction does not choose between success and failure of
an analysis, so `EventsJudged` has the antecedent `ModelRecovers`: from some time
on there is no outage, and only unanalysable events fail. Crashes and database
failures are bounded, so a suffix is free of them. Weak fairness also suffices
for row locks because nobody takes a lock again and again: requests end, and
the worker skips locked rows.

*ModelQueue.* The event loop runs every ready task (`TakeTurn`, `GiveUp`),
streams end (`Finish`, `SocRelease`: `llm/provider.py` gives every model a token
limit, and the OpenAI-compatible client a timeout of 120 s; the Groq and GGUF
clients have no timeout there, so for them it is an assumption that the model
answers), and abandoned generators are finalized
(`Finalize`, asyncio's async-generator hook). `Interrupt` has no fairness:
`EveryoneServed` does not rest on the 300 s timeout, and `Enter` has none, so
chats need not come; if they keep coming they still do not starve the worker.

*ConnectionPool.* Each request goes on when it can, or times out in a stall.
*EtlJob.* Tasks of the event loop go on, and Redis expires keys; nobody need
upload or connect, and crashes and failures need not happen. *AdminSetup.* A run
goes on or meets its lock timeout of 10 s; the operator need not answer the
prompt. *SqliIsolation.* Only giving up is fair (`Abort`, `Fail`: the time limits
of lock, statement and query): `AllEnd` holds although no statement returns.
*Dashboard.* React runs effects, and a running poll reads, shows or waits its
timer; `Settles` says what one who stays on one page comes to see.

## Proofs

Proved for all values of the constants, by `Init => IInv`,
`IInv /\ [Next]_vars => IInv'` and `IInv =>` the property. The assumptions are
the named ones of each module.

- **BlueTeamGame_proofs** (`Inv`): row locks are exclusive, a committed row is
  changed only by the holder of its lock, so what an actor read when it took the
  lock still holds when it commits (`RequestInv`, `SocInv`). `Frame` states what
  a step of one actor leaves alone, and two lemmas lift it to what the others
  rely on. Without `view[r] = session[...]` in phase `locked` nothing could be
  said about the budget a commit writes. `Refinement` proves that every step is a
  step of `DefenseLedger` or a stutter; `FinalVerdicts` follows from the ledger,
  `OwnEventsOnly` from the same invariant. `Bookkeeping` (`BudgetBalances`) is
  about sums over sets of any size, which induction over data would need; the
  proof counts instead: `Total` is the number of points `<<x, i>>` with
  `i \in 1 .. f[x]`, and one more defense or verdict adds a disjoint set of
  them (`TotalOfMore`). `Balanced` is inductive over the steps of the ledger,
  so the refinement carries it to the program.
- **ModelQueue_proofs** (`IInv`): the deque holds each waiting client once, only
  its first member can have been woken, and only while the lock is free. Type
  correctness alone does not exclude a second woken client, which would take the
  lock from the first. `RemoveAtElements` and `RemoveAtOrder` say what removing
  from a sequence keeps. `TicketsBalanced` counts with FiniteSetTheorems.
  `QueueIsStrict` is the refinement of `TurnQueue`.
- **CtfScoring_proofs**: a request about to insert saw everything that was
  committed when it arrived (`Checked`), which is what the code guarantees and
  less than would be needed to score each flag once.
- **LoginWatch_proofs**: only the holder of the advisory lock has a count, and
  until it is written the count covers every counted failure of its window
  (`CountsCurrent`); a failure written without a count is invisible to it. The
  window starts at a minute read *before* waiting, so it only covers more. An
  alarm has at most one author, since only the count `Limit + 1` raises it.
- **RedTeamGates_proofs**: at most one request owns the reservation, it stays
  until the owner is done, and while it may still report nothing but unconfirmed
  events is in the log (`Reservation`); one request sets the counter's expiry,
  and its place within the limit is kept while it does (`Counting`).
- **Commands_proofs**, one inductive invariant for each of the four commands.
  *Setup* (`IInv`): what a run found under the lock is still so when it writes
  (`Looked`), what it committed stays (`Written`), what it printed stays
  (`Reported`); from these `WholeAndTrue` (all of `LabsWhole`) and `OneSession`
  (`NoSecondSession`). Labs that had two sessions before are allowed.
  *Seeding* (`SeedInv`): committed rows are complete and registered with the
  same values, and whoever holds the lock has removed the document of its lab
  before it adds one. A lock that was lost breaks mutual exclusion, so the
  invariant speaks of the last run that touched the document instead of the
  holder; this gives `EveryFlagKnown` (all of `FlagsKnown`).
  *Isolation* (`IsoInv`): the walk through the checks is not atomic, so nothing
  can be said of all checks at one time. What can be said is that a check that
  has been failing all along (`always`) is not one the walk has passed; that,
  with objects of a lab's own provisioner, is what `CheckedThenRun` and
  `OwnReaderOnly` need. The limit on readers is counted with
  FiniteSetTheorems.
  *Demo* (`DemoFilesOf`): which of the two files may exist, and whose, in each
  state of the transaction. `Confined` (`ReadersConfined`) and
  `NothingIsReplaced` (`NothingReplaced`) are about both.
- **Services_proofs**. *Chats* (`ChatInv`): a list is the list the thread had
  before followed by pairs of messages of distinct saved chats of its owner
  (`ChatMadeOf`), and every saved exchange is in the row or was overwritten by
  a chat that had read its copy before. From it `WholeThreads`, for any number
  of chats, threads and failures.
  *Page* (`PageInv`): a poll's answers are of its own login and page and no
  older than what is shown when it may still show them; the action in flight
  belongs to the login that started it. From it `CurrentIsShown` and, for each
  step, `LateIsDropped`.
  *Pool* (`PoolInv`): connections held, the line and the source's lock match
  the phases of the requests, for every mix of requests, stalled pools
  included; the line is injective, and connections are counted
  (`PoolWellFormed`). Whoever holds the lock has not committed yet
  (`PoolLocked`), so a refresh never ends with the lock in hand.
  *Burst* (`BurstInv`), under `OnlyFailures`: no chats, and no successful login
  of the Red Team. Then nobody who holds a connection waits for another, so the
  pool never stalls (`NeverStalled`), so no event of a failed login is given up,
  for any pool size and any burst (`BurstIsLogged`, all of `BurstLogged`). The
  assumption is needed: see below what chats and successful logins do.
- **EtlJob_proofs** (`UploadsAreOwn`, all of `UploadsOwn`): `Fits` relates an
  upload's place, its loop's counter and its record to what is in the index: in
  the insert loop the first `at` chunks are there, and a `Finished` record
  belongs to a job that is over. `Stored` and `Reads` say that an object and what
  was read from it were uploaded under that lab and name, `Watched` that a
  message at 100 % is final or comes from a short text. Percentages need three
  facts about `\div` (`Divisions`).

What is assumed of the constants is named: `GameAssumption`, `ActorAssumption`,
`SetupAssumption` (of the rows before the runs: they have their fields,
usernames are unique, sessions are of known labs), `SeedingAssumption`,
`IsolationAssumption`, `EtlAssumption`, `PoolAssumption`, `ChatAssumption`,
`DashboardAssumption` and those of the other modules. TLC evaluates each of them
in the runs. Every safety property that a passing run checks is stated by a
theorem. Two limits:

- *Only model-checked* are the liveness properties (`EventsJudged`,
  `RuleEventsClosed`, `RequestsEnd`, `EveryoneServed`, `WaitsEnd`, `UploadsEnd`,
  `Settles`), because the prover does not handle `ENABLED`.
- The theorems are about the components' own specifications, for every value of
  their constants. The specifications of the `MC…` modules, which choose one
  component per behaviour, are only there for TLC. `BurstLogged` is proved for
  `OnlyFailures`, which the run's logins satisfy too.

## Where the code and its documents disagree

1. `soc_starvation`: `fetch_pending_logs` takes the oldest pending events in
   every pass, and an event whose analysis fails stays pending. As many events
   that always fail as the batch holds keep every younger event of every solo
   lab from the Auto-SOC. `docs/exercises.md:89`: it "reviews every new event".
2. `gates_expiry`: a crash or a Redis failure between `INCR` and `EXPIRE` leaves
   a rate-limit counter that never expires. `README.md:84-85`: "a per-session/IP
   counter with a 60-second expiry".
3. `setup_requests`: `admin_setup.py` alters `game_sessions` at the beginning of
   the transaction that ends after the password prompt, so every request that
   reads the table waits for the operator. `LOCAL_RUN.md:159`: the lock "does not
   restrict normal application requests".

## What else the models show

Properties are stated as the code keeps them. Where that is less than one might
expect, the condition in the property says so:

- *A flag scored twice.* Two submissions that both check before either commits
  are both scored (`ctf/service.py:51`; `README.md:33` admits it).
  `NoLateDuplicate` is about submissions that arrive later.
- *A capture the SIEM does not show.* The row is committed before its event is
  written (`ctf/service.py:58`), and `_write_event` swallows its failure, so a
  crash or a failed write between them leaves a score without an event, although
  `docs/exercises.md:17` says "Every Red Team action is logged in the lab's
  SIEM". `CapturesReported` names these requests (`lost`) and allows no other
  disagreement.
- *A lost exchange.* Two chats of one thread that overlap between the SELECT and
  the UPDATE of `append_messages` keep one of the exchanges
  (`chat/repository.py:74-91`). `LossNeedsOverlap` says that nothing else loses one.
- *A progress stream that closes early.* A page without text writes Failed, 100 %
  and the job goes on (`documents/service.py:132`); for up to three chunks the
  percentage of the insert loop reaches 100 before the end (`:185`). The socket
  closes over such a message. `LongTextsToldEnd` is about the other documents.
- *A record that stays.* Redis expires a record an hour after its last EXPIRE,
  but a crash between HSET and EXPIRE (`documents/router.py:74`) leaves one that
  never expires; its id was sent to nobody (`told`), and `NoStaleRecord` is about
  the others. A job that runs for more than an hour (`Slow`) recreates its record
  without a lifetime; if the server then dies, or the last HSET fails, the record
  stays unfinished, and a socket that missed the gap waits with it. `endings` is
  checked without slow jobs (with one, `NoStaleRecord` fails in this way).
- *Values not shown.* If the connection of the seeding lock is lost, the unlock
  raises and the values just committed are not printed (`seed_exercises.py:49`),
  and two runs may index at once: `lost` in `ValuesShown` and `OneDocument`. A
  lab that is left without its document is reported all the same: the last run
  that touched it does not exit with 0 (`GapReported`).
- *Demo credentials.* Killed between truncating and rewriting its manifest, the
  demo script leaves committed readers whose passwords are nowhere
  (`prepare_sqli_demo.py:116`). `NoEarlySuccess` and `KeepsFiles` hold all the same.
- *A full pool.* Successful Red Team logins and chats keep their connection while
  they wait for a second one (`auth/router.py:49`, `chat/service.py:97`). Enough
  of them at once are freed only by the pool's timeout, and events of failed
  logins that wait then are lost too. `WaitsEnd` shows that all end,
  `OnlyFailures` in the proof what must be excluded.

## Assumptions

- One session per lab in the game (`NoSecondSession` supports it), and a player
  stands for the lab in the token: no property tells two players of a lab apart.
- The text heuristics of `predict_is_malicious` are the set `Malicious`, the
  model's verdict is a free choice.
- An event write that fails in `BlueTeamGame` leaves no row and is a stutter; so
  is a chat turned away with 503. Repeated requests are other members of
  `Requests`; in `ModelQueue` a chat may come again.
- Poll delay and backoff of the worker are not timed; its cancellation at an
  orderly shutdown is not modelled (a crash is).
- The login counter of a minute is assumed to outlive the requests that chose
  its key, and the forgery reservation the request that made it. Nothing in the
  code enforces either: `redis_client.py` sets no timeout. A Redis call delayed by
  more than a minute (`defense/service.py:141`) is therefore outside the models.
- `EtlJob`: a document is its number of chunks, its pages with or without text
  and whether it is accepted; floating-point rounding of the percentages is
  exact division; `add_documents` of a batch is one step.
- `ExerciseSeeding`: the private document is one chunk; `pg_advisory_lock` waits
  without limit. `AdminSetup`: `create_all` of other scripts takes other lock
  keys and is not modelled; the ALTER also keeps the seeding transaction out,
  which only removes interleavings; a user's budget, `is_solo` and password hash
  have no part in what runs decide.
- `Dashboard`: error texts, other tabs and `/me` are left out.

## Not modelled

- *Token checks and JWT encoding, password hashing, prompt building, retrieval,
  chunking and embeddings*: functions of library calls without state. Their
  outcomes are free choices or parameters.
- *`get_stats` and `get_logs`*: they only read; what a browser makes of two reads
  at two times is in Dashboard.
- *LLM provider*: builds a client from settings. *Agents and tools*: validation
  and sending mail keep no state of the system; their events are modelled.
- *Catalog queries of the SQLi boundary*: what each check means lies in
  PostgreSQL's privilege rules; a model would restate the SQL.
  `sqli_console.py` wraps one query interactively.
- *Other frontend and deployment*: rendering and configuration.

## Running it

    tlc -workers 2 -config MCBlueTeamGame_safety.cfg MCBlueTeamGame
    tlapm BlueTeamGame_proofs.tla

The `runs` of `PROJECT.json` pair each configuration with its module, `mutants`
names a bug that each property detects, and `map` the source of each definition.
