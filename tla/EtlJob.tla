-------------------------------- MODULE EtlJob --------------------------------
(***************************************************************************)
(* Uploads of the Red Team (POST /api/red/upload), the background job that *)
(* indexes what lands in student_uploads/, and the WebSocket that streams  *)
(* the job's record to its owner (/api/red/ws/etl-status/{task_id}).  The  *)
(* record etl_job:<id> is a Redis hash written field by field and expiring *)
(* an hour after its last EXPIRE; the object store is keyed by lab and     *)
(* file name, so uploads of one name share an object.                      *)
(***************************************************************************)
EXTENDS Naturals, Sequences, FiniteSets

CONSTANTS
    Tasks,      \* uploads, each served once
    Watchers,   \* WebSocket connections
    Users,
    LabOf,      \* lab_instance_id of each user
    Names,      \* file names
    Documents,  \* what can be uploaded (see Document)
    MaxPages,   \* PDF_MAX_PAGES
    BatchSize,  \* ETLWorker.batch_size
    Slow,       \* tasks whose job may run for longer than the key's hour
    MaxFaults   \* bound on crashes, failing services and unreadable files

Folders == {"uploads", "student_uploads", "elsewhere"}

(* accepted: small enough and starting with %PDF-.  pages: which pages     *)
(* have text.  chunks: how many chunks that text makes (0 if blank).       *)
Document == [accepted: BOOLEAN, folder: Folders, pages: Seq(BOOLEAN), chunks: Nat]

EtlAssumption ==
    /\ Documents \subseteq Document
    /\ MaxPages \in Nat /\ BatchSize \in Nat \ {0} /\ MaxFaults \in Nat
    /\ Slow \subseteq Tasks

VARIABLES
    by, name, doc,  \* each upload's user, file name and content
    pc,             \* where each upload or its job is
    at,             \* page, chunk or chunks inserted so far in the current loop
    keys,           \* tasks whose Redis key exists
    ttl,            \* those with a time to live
    job,            \* content of the hash
    told,           \* tasks whose id the client got in the response
    store,          \* object store: the upload stored last under <<lab, name>>
    read,           \* the upload whose content the job read (a set of at most one)
    index,          \* chunks in the vector store
    watch,          \* state, task, user and last message of each WebSocket
    faults

input == <<by, name, doc>>
record == <<keys, ttl, job>>
files == <<store, read, index>>
vars == <<input, pc, at, record, told, files, watch, faults>>

Empty == [status |-> "unset", progress |-> 0, owner |-> {}]
Closed == [state |-> "idle", task |-> {}, user |-> {}, got |-> Empty]

Init ==
    /\ by \in [Tasks -> Users]
    /\ name \in [Tasks -> Names]
    /\ doc \in [Tasks -> Documents]
    /\ pc = [t \in Tasks |-> "new"]
    /\ at = [t \in Tasks |-> 0]
    /\ keys = {} /\ ttl = {}
    /\ job = [t \in Tasks |-> Empty]
    /\ told = {}
    /\ store = [k \in {LabOf[u] : u \in Users} \X Names |-> {}]
    /\ read = [t \in Tasks |-> {}]
    /\ index = {}
    /\ watch = [w \in Watchers |-> Closed]
    /\ faults = 0

Key(t) == <<LabOf[by[t]], name[t]>>
Goto(t, p) == pc' = [pc EXCEPT ![t] = p]

(* HSET of status and progress: creates a missing key, without owner and   *)
(* without a time to live.                                                 *)
Hset(t, status, progress) ==
    /\ job' = [job EXCEPT ![t] = [status |-> status, progress |-> progress, owner |-> @.owner]]
    /\ keys' = keys \cup {t}
    /\ UNCHANGED ttl

HsetProgress(t, progress) == Hset(t, job[t].status, progress)

(* Mutant: a lifetime is given to a key that is gone.                      *)
ExpireMissing(t) == ttl' = ttl \cup {t}

(* EXPIRE does nothing to a key that is gone.                              *)
Expire(t) == ttl' = ttl \cup ({t} \cap keys)

-----------------------------------------------------------------------------
(* upload_document *)

(* 413 or 415 before anything is written (the event is left out).          *)
Reject(t) ==
    /\ pc[t] = "new" /\ ~doc[t].accepted
    /\ Goto(t, "done")
    /\ UNCHANGED <<input, at, record, told, files, watch, faults>>

Create(t) ==
    /\ pc[t] = "new" /\ doc[t].accepted
    /\ job' = [job EXCEPT ![t] = [status |-> "Queued", progress |-> 0, owner |-> {by[t]}]]
    /\ keys' = keys \cup {t}
    /\ Goto(t, "created")
    /\ UNCHANGED <<input, at, ttl, told, files, watch, faults>>

(* Mutant: the record gets no time to live.                                *)
NeverExpire(t) ==
    /\ pc[t] = "created"
    /\ Goto(t, "target")
    /\ UNCHANGED <<input, at, record, told, files, watch, faults>>

SetExpiry(t) ==
    /\ pc[t] = "created"
    /\ Expire(t)
    /\ Goto(t, "target")
    /\ UNCHANGED <<input, at, keys, job, told, files, watch, faults>>

(* resolve_upload_target leaves the upload folders: 403, and the record    *)
(* stays Queued.                                                           *)
RefuseTarget(t) ==
    /\ pc[t] = "target" /\ doc[t].folder = "elsewhere"
    /\ Goto(t, "done")
    /\ UNCHANGED <<input, at, record, told, files, watch, faults>>

(* Mutant: objects are keyed by the file name alone.                       *)
PutEverywhere(t) ==
    /\ pc[t] = "target" /\ doc[t].folder # "elsewhere"
    /\ store' = [k \in DOMAIN store |-> IF k[2] = name[t] THEN {t} ELSE store[k]]
    /\ Goto(t, "stored")
    /\ UNCHANGED <<input, at, record, told, read, index, watch, faults>>

(* store.put overwrites an object of the same name.  The two folders are   *)
(* kept apart in the real key; only indexed files are read back.           *)
Put(t) ==
    /\ pc[t] = "target" /\ doc[t].folder # "elsewhere"
    /\ store' = IF doc[t].folder = "student_uploads"
                THEN [store EXCEPT ![Key(t)] = {t}] ELSE store
    /\ Goto(t, "stored")
    /\ UNCHANGED <<input, at, record, told, read, index, watch, faults>>

(* The response; the job of an indexed file starts after it.               *)
Respond(t) ==
    /\ pc[t] = "stored"
    /\ \/ /\ doc[t].folder = "student_uploads"
          /\ Goto(t, "fetch")
          /\ UNCHANGED record
       \/ /\ doc[t].folder = "uploads"
          /\ Hset(t, "Completed", 100)
          /\ Goto(t, "done")
    /\ told' = told \cup {t}
    /\ UNCHANGED <<input, at, files, watch, faults>>

-----------------------------------------------------------------------------
(* process_stored_pdf and process_pdf *)

Fail(t) == Hset(t, "Failed", 100) /\ Goto(t, "done")

(* store.get: what is stored under the key by now.                         *)
Fetch(t) ==
    /\ pc[t] = "fetch"
    /\ \/ /\ store[Key(t)] # {}
          /\ read' = [read EXCEPT ![t] = store[Key(t)]]
          /\ Goto(t, "begin")
          /\ UNCHANGED <<record, faults>>
       \/ /\ faults < MaxFaults
          /\ faults' = faults + 1
          /\ Fail(t)
          /\ UNCHANGED read
    /\ UNCHANGED <<input, at, told, store, index, watch>>

Content(t) == doc[CHOOSE c \in read[t] : TRUE]

(* The record and its EXPIRE, before the try block.                        *)
Begin(t) ==
    /\ \/ pc[t] = "begin" /\ Hset(t, "Queued", 5) /\ Goto(t, "renew")
       \/ pc[t] = "renew" /\ Expire(t) /\ Goto(t, "parse") /\ UNCHANGED <<keys, job>>
    /\ UNCHANGED <<input, at, told, files, watch, faults>>

(* PdfReader; too many pages, or HINCRBY progress 5 and then "Started".    *)
Parse(t) ==
    /\ \/ pc[t] = "parse" /\ Len(Content(t).pages) > MaxPages /\ Fail(t)
       \/ /\ pc[t] = "parse" /\ Len(Content(t).pages) <= MaxPages
          /\ HsetProgress(t, job[t].progress + 5) /\ Goto(t, "start")
       \/ pc[t] = "start" /\ Hset(t, "Started", job[t].progress) /\ Goto(t, "pages")
    /\ UNCHANGED <<input, at, told, files, watch, faults>>

(* One page: a page without text sets the record to Failed, 100 %, and the *)
(* loop goes on.                                                           *)
Page(t) ==
    /\ pc[t] = "pages" /\ at[t] < Len(Content(t).pages)
    /\ IF Content(t).pages[at[t] + 1]
       THEN Hset(t, "Processing", ((at[t] + 1) * 30) \div Len(Content(t).pages))
       ELSE Hset(t, "Failed", 100)
    /\ at' = [at EXCEPT ![t] = @ + 1]
    /\ UNCHANGED <<input, pc, told, files, watch, faults>>

EndPages(t) ==
    /\ pc[t] = "pages" /\ at[t] = Len(Content(t).pages)
    /\ at' = [at EXCEPT ![t] = 0]
    /\ IF Content(t).chunks = 0 THEN Fail(t)
       ELSE Goto(t, "chunks") /\ UNCHANGED record
    /\ UNCHANGED <<input, told, files, watch, faults>>

(* One chunk's metadata; only progress and message are written.            *)
Chunk(t) ==
    /\ pc[t] = "chunks"
    /\ IF at[t] < Content(t).chunks
       THEN /\ HsetProgress(t, 30 + ((at[t] + 1) * 30) \div Content(t).chunks)
            /\ at' = [at EXCEPT ![t] = @ + 1] /\ UNCHANGED pc
       ELSE at' = [at EXCEPT ![t] = 0] /\ Goto(t, "insert") /\ UNCHANGED record
    /\ UNCHANGED <<input, told, files, watch, faults>>

Least(a, b) == IF a < b THEN a ELSE b

(* vector_store.add_documents of the next batch, labelled with the lab.    *)
Insert(t) ==
    /\ pc[t] = "insert" /\ at[t] < Content(t).chunks
    /\ LET next == Least(at[t] + BatchSize, Content(t).chunks) IN
         /\ index' = index \cup [task: {t}, lab: {LabOf[by[t]]}, from: read[t],
                                 chunk: at[t] + 1 .. next]
         /\ at' = [at EXCEPT ![t] = next]
    /\ Goto(t, "inserted")
    /\ UNCHANGED <<input, record, told, store, read, watch, faults>>

(* Mutant: the percentage counts two chunks ahead.                         *)
TooFar(t) == 60 + ((at[t] + 2) * 30) \div Content(t).chunks

Inserting(t) == 60 + ((at[t] + 1) * 30) \div Content(t).chunks

Inserted(t) ==
    /\ pc[t] = "inserted"
    /\ HsetProgress(t, Inserting(t))
    /\ Goto(t, "insert")
    /\ UNCHANGED <<input, at, told, files, watch, faults>>

(* Mutant: the job is finished after the first batch.                      *)
FinishEarly(t) ==
    /\ pc[t] = "insert" /\ at[t] > 0
    /\ Hset(t, "Finished", 100) /\ Goto(t, "done")
    /\ UNCHANGED <<input, at, told, files, watch, faults>>

Finish(t) ==
    /\ pc[t] = "insert" /\ at[t] = Content(t).chunks
    /\ Hset(t, "Finished", 100) /\ Goto(t, "done")
    /\ UNCHANGED <<input, at, told, files, watch, faults>>

Trying == {"parse", "start", "pages", "chunks", "insert", "inserted"}
Job == Trying \cup {"begin", "renew", "except"}
Upload == {"created", "target", "stored"}

(* A step of the try block raises (unreadable file, Chroma or Redis down), *)
(* and then the handler writes the failure.                                *)
Raise(t) ==
    /\ pc[t] \in Trying /\ faults < MaxFaults
    /\ faults' = faults + 1
    /\ Goto(t, "except")
    /\ UNCHANGED <<input, at, record, told, files, watch>>

Except(t) ==
    /\ pc[t] = "except"
    /\ Fail(t)
    /\ UNCHANGED <<input, at, told, files, watch, faults>>

(* A call outside the try block raises: the upload answers 500, the job    *)
(* ends where it is.  The record stays as it was.                          *)
Escape(t) ==
    /\ pc[t] \in Upload \cup {"begin", "renew", "except"} /\ faults < MaxFaults
    /\ faults' = faults + 1
    /\ Goto(t, "done")
    /\ UNCHANGED <<input, at, record, told, files, watch>>

-----------------------------------------------------------------------------
(* etl_status_websocket *)

(* Mutant: the record's owner is not compared.                             *)
ConnectAny(w, t) ==
    \E u \in Users :
      /\ watch[w].state = "idle" /\ t \in told
      /\ watch' = [watch EXCEPT ![w] = 
            [state |-> "open", task |-> {t}, user |-> {u}, got |-> Empty]]
      /\ UNCHANGED <<input, pc, at, record, told, files, faults>>

(* The authenticated user must be the record's user_id and lab; a missing  *)
(* key has neither.                                                        *)
Connect(w, t) ==
    \E u \in Users :
      /\ watch[w].state = "idle" /\ t \in told
      /\ watch' = [watch EXCEPT ![w] =
            [state |-> IF t \in keys /\ job[t].owner = {u} THEN "open" ELSE "refused",
             task |-> {t}, user |-> {u}, got |-> Empty]]
      /\ UNCHANGED <<input, pc, at, record, told, files, faults>>

Ended(state) == [Closed EXCEPT !.state = state]

Turn(w, state, got) ==
    watch' = [watch EXCEPT ![w] =
        [state |-> state, task |-> @.task, user |-> @.user, got |-> got]]

(* Mutant: the loop does not look whether the key is gone.                 *)
KeepWaiting(w) ==
    /\ watch[w].state = "open"
    /\ \E t \in watch[w].task : Turn(w, "sent", job[t])
    /\ UNCHANGED <<input, pc, at, record, told, files, faults>>

(* One round of the loop: the record is read and sent, or the key is gone. *)
Send(w) ==
    /\ watch[w].state = "open"
    /\ \E t \in watch[w].task :
         IF t \in keys THEN Turn(w, "sent", job[t])
         ELSE watch' = [watch EXCEPT ![w] = Ended("gone")]
    /\ UNCHANGED <<input, pc, at, record, told, files, faults>>

(* After half a second the progress that was sent decides.                 *)
Look(w) ==
    /\ watch[w].state = "sent"
    /\ Turn(w, IF watch[w].got.progress >= 100 THEN "over" ELSE "open", watch[w].got)
    /\ UNCHANGED <<input, pc, at, record, told, files, faults>>

Disconnect(w) ==
    /\ watch[w].state \in {"open", "sent"}
    /\ watch' = [watch EXCEPT ![w] = Ended("left")]
    /\ UNCHANGED <<input, pc, at, record, told, files, faults>>

-----------------------------------------------------------------------------
(* Redis forgets the record an hour after its last EXPIRE.                 *)
Forget(t) ==
    /\ t \in ttl /\ (pc[t] = "done" \/ t \in Slow)
    /\ keys' = keys \ {t} /\ ttl' = ttl \ {t}
    /\ job' = [job EXCEPT ![t] = Empty]
    /\ UNCHANGED <<input, pc, at, told, files, watch, faults>>

(* The server process dies: uploads, jobs and sockets are gone, Redis, the *)
(* object store and the index stay.                                        *)
Crash ==
    /\ faults < MaxFaults
    /\ faults' = faults + 1
    /\ pc' = [t \in Tasks |-> IF pc[t] = "new" THEN "new" ELSE "done"]
    /\ watch' = [w \in Watchers |->
                   IF watch[w].state \in {"open", "sent"}
                   THEN Ended("left") ELSE watch[w]]
    /\ UNCHANGED <<input, at, record, told, files>>

Handle(t) == Reject(t) \/ Create(t) \/ SetExpiry(t) \/ RefuseTarget(t) \/ Put(t) \/ Respond(t)

Work(t) ==
    \/ Fetch(t) \/ Begin(t) \/ Parse(t) \/ Page(t) \/ EndPages(t) \/ Chunk(t)
    \/ Insert(t) \/ Inserted(t) \/ Finish(t) \/ Except(t)

Next ==
    \/ \E t \in Tasks : Handle(t) \/ Work(t) \/ Raise(t) \/ Escape(t) \/ Forget(t)
    \/ \E w \in Watchers :
         Send(w) \/ Look(w) \/ Disconnect(w) \/ \E t \in Tasks : Connect(w, t)
    \/ Crash

(* The event loop serves every request, job and socket again and again,    *)
(* and Redis expires its keys.                                             *)
Fairness ==
    /\ \A t \in Tasks : WF_vars(Handle(t)) /\ WF_vars(Work(t)) /\ WF_vars(Forget(t))
    /\ \A w \in Watchers : WF_vars(Send(w)) /\ WF_vars(Look(w))

Spec == Init /\ [][Next]_vars
FairSpec == Spec /\ Fairness

-----------------------------------------------------------------------------
(* Properties *)

Final == {"Completed", "Failed", "Finished"}
Statuses == Final \cup {"unset", "Queued", "Started", "Processing"}
Entry == [status: Statuses, progress: Nat, owner: SUBSET Users]
States == {"idle", "refused", "open", "sent", "over", "gone", "left"}

TypeOK ==
    /\ by \in [Tasks -> Users] /\ name \in [Tasks -> Names] /\ doc \in [Tasks -> Documents]
    /\ pc \in [Tasks -> {"new", "fetch", "done"} \cup Upload \cup Job]
    /\ at \in [Tasks -> Nat]
    /\ keys \subseteq Tasks /\ ttl \subseteq keys /\ told \subseteq Tasks
    /\ job \in [Tasks -> Entry]
    /\ store \in [{LabOf[u] : u \in Users} \X Names -> SUBSET Tasks]
    /\ read \in [Tasks -> SUBSET Tasks]
    /\ watch \in [Watchers -> [state: States, task: SUBSET Tasks, user: SUBSET Users,
                            got: Entry]]
    /\ faults \in 0 .. MaxFaults

(* What a socket receives belongs to the user it authenticated, although   *)
(* the owner is compared once and the record is read again in every round  *)
(* and may meanwhile expire and be written anew (documents/router.py:128). *)
OwnRecordOnly ==
    \A w \in Watchers : watch[w].state \notin {"idle", "refused"} =>
        \A t \in watch[w].task : watch[w].user = {by[t]}

(* Chunks in the index come from an upload to the indexed folder by a user *)
(* of the same lab under the same name, whichever upload overwrote which   *)
(* (documents/object_store.py:26, "inside this lab's key prefix").         *)
IndexedFromOwnLab ==
    \A c \in index :
        /\ c.lab = LabOf[by[c.from]] /\ name[c.from] = name[c.task]
        /\ doc[c.from].folder = "student_uploads" /\ doc[c.task].folder = "student_uploads"

(* A record that says Finished has all chunks of the one document its job  *)
(* read in the index, also when the record expired on the way.             *)
FinishedMeansIndexed ==
    \A t \in Tasks : job[t].status = "Finished" =>
        /\ Cardinality(read[t]) = 1
        /\ \A i \in 1 .. Content(t).chunks :
             [task |-> t, lab |-> LabOf[by[t]], from |-> CHOOSE c \in read[t] : TRUE,
              chunk |-> i] \in index

(* When the server closes a socket over a record at 100 %, its last message *)
(* was final -- if all pages have text and there are more than three chunks *)
(* (documents/service.py:132 and :185 write 100 % or more before the end). *)
LongTextsToldEnd ==
    \A w \in Watchers : watch[w].state = "over" =>
        \A t \in watch[w].task : \A c \in read[t] :
            (\A i \in DOMAIN doc[c].pages : doc[c].pages[i]) /\ doc[c].chunks > 3
            => watch[w].got.status \in Final

(* All of it: records and chunks of an upload belong to its user and lab,  *)
(* and a final status means what it says.                                  *)
UploadsOwn ==
    TypeOK /\ OwnRecordOnly /\ IndexedFromOwnLab /\ FinishedMeansIndexed /\ LongTextsToldEnd

(* A record that can expire does not stay unfinished: its job ends it, or  *)
(* the crash, the failure or the refused target that left it behind is     *)
(* forgotten with the key (documents/router.py:62-86).                     *)
NoStaleRecord ==
    \A t \in Tasks :
        t \in ttl \/ t \in keys \cap told ~> job[t].status \in Final \/ t \notin keys

(* Every socket ends, also after a job that died (documents/router.py:134).*)
SocketsEnd ==
    \A w \in Watchers : watch[w].state = "open" ~> watch[w].state \in {"over", "gone", "left"}

=============================================================================
