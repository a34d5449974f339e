----------------------------- MODULE EtlJob_proofs -----------------------------
(***************************************************************************)
(* Any number of uploads by any users of any labs, jobs and sockets, with  *)
(* crashes, failures and expired records at any time: what is read, stored *)
(* and sent belongs to the upload's user and lab, and Finished is true.    *)
(***************************************************************************)
EXTENDS EtlJob, FiniteSetTheorems, TLAPS

Pcs == {"new", "fetch", "done"} \cup Upload \cup Job
One(S) == S = {} \/ \E c : S = {c}

LongText(c) == (\A i \in DOMAIN doc[c].pages : doc[c].pages[i]) /\ doc[c].chunks > 3

(* A message at 100 % is final, or from a text that may miscount.          *)
Good(t, e) == e.progress >= 100 => e.status \in Final \/ \E c \in read[t] : ~LongText(c)

Part(t, i) == [task |-> t, lab |-> LabOf[by[t]], from |-> CHOOSE c \in read[t] : TRUE, chunk |-> i]

(* Where an upload is, how far its loop is and what its record says.       *)
Fits(t, p, a, e) ==
    /\ p \in Pcs /\ a \in Nat /\ e \in Entry
    /\ e.owner \subseteq {by[t]}
    /\ p \in {"fetch"} \cup Job => doc[t].folder = "student_uploads"
    /\ p \in Job => read[t] # {}
    /\ read[t] # {} => p \in Job \cup {"done"}
    /\ p \in {"chunks", "insert", "inserted"} => Content(t).chunks # 0
    /\ p \in {"insert", "inserted"} =>
         a <= Content(t).chunks /\ \A i \in 1 .. a : Part(t, i) \in index
    /\ e.status = "Finished" =>
         p = "done" /\ read[t] # {} /\ \A i \in 1 .. Content(t).chunks : Part(t, i) \in index
    /\ p \in {"renew", "parse"} => e.progress <= 5
    /\ p = "start" => e.progress <= 10
    /\ Good(t, e)

Input == by \in [Tasks -> Users] /\ name \in [Tasks -> Names] /\ doc \in [Tasks -> Documents]
Keys == keys \subseteq Tasks /\ ttl \subseteq keys /\ told \subseteq Tasks /\ faults \in 0 .. MaxFaults
Stored ==
    /\ store \in [{LabOf[u] : u \in Users} \X Names -> SUBSET Tasks]
    /\ \A k \in DOMAIN store : One(store[k])
    /\ \A k \in DOMAIN store : \A c \in store[k] : Key(c) = k /\ doc[c].folder = "student_uploads"
Reads ==
    /\ read \in [Tasks -> SUBSET Tasks]
    /\ \A t \in Tasks : One(read[t])
    /\ \A t \in Tasks : \A c \in read[t] : Key(c) = Key(t) /\ doc[c].folder = "student_uploads"
Fitting ==
    /\ pc \in [Tasks -> Pcs] /\ at \in [Tasks -> Nat] /\ job \in [Tasks -> Entry]
    /\ \A t \in Tasks : Fits(t, pc[t], at[t], job[t])
Goods == \A w \in Watchers : \A t \in watch[w].task : Good(t, watch[w].got)
Ends ==
    /\ \A w \in Watchers : \A t, q \in watch[w].task : t = q
    /\ \A w \in Watchers : watch[w].state = "over" => watch[w].got.progress >= 100
Watched ==
    /\ watch \in [Watchers -> [state: States, task: SUBSET Tasks, user: SUBSET Users, got: Entry]]
    /\ OwnRecordOnly
    /\ Goods /\ Ends

IInv == Input /\ Keys /\ Stored /\ Reads /\ Fitting /\ Watched /\ IndexedFromOwnLab

LEMMA EmptyEntry == Empty \in Entry /\ Empty.progress = 0 /\ Empty.owner = {} /\ Empty.status # "Finished"
BY DEF Empty, Entry, Statuses

(* HSET on a record.                                                       *)
Mark(e, s, n) == [status |-> s, progress |-> n, owner |-> e.owner]

LEMMA MarkIs ==
    \A e \in Entry, s \in Statuses, n \in Nat :
        /\ Mark(e, s, n) \in Entry /\ Mark(e, s, n).status = s
        /\ Mark(e, s, n).progress = n /\ Mark(e, s, n).owner = e.owner
BY DEF Mark, Entry

LEMMA HsetIs ==
    ASSUME NEW t \in Tasks, NEW s, NEW n, Hset(t, s, n)
    PROVE  job' = [job EXCEPT ![t] = Mark(job[t], s, n)]
BY DEF Hset, Mark

(* A step outside the loops that only marks the record.                    *)
LEMMA HsetKeys == ASSUME Keys, NEW t \in Tasks, NEW s, NEW n, Hset(t, s, n), told' = told, faults' \in 0 .. MaxFaults PROVE Keys'
BY DEF Keys, Hset

LEMMA Divisions ==
    /\ \A a \in Nat, n \in Nat \ {0} : a \div n \in Nat
    /\ \A a \in Nat, n \in Nat \ {0} : a <= n => (a * 30) \div n <= 30
    /\ \A a, n \in Nat : n > 3 /\ a <= n + 1 => (a * 30) \div n < 40
<1>1. ASSUME NEW a \in Nat, NEW n \in Nat \ {0} PROVE a \div n \in Nat
  OBVIOUS
<1>2. ASSUME NEW a \in Nat, NEW n \in Nat \ {0}, a <= n PROVE (a * 30) \div n <= 30
  BY <1>2
<1>3. ASSUME NEW a \in Nat, NEW n \in Nat, n > 3, a <= n + 1 PROVE (a * 30) \div n < 40
  BY <1>3
<1>4. QED
  BY <1>1, <1>2, <1>3

LEMMA InitInv == ASSUME EtlAssumption, Init PROVE IInv
<1>1. Input /\ Keys /\ Stored /\ Reads
  BY DEF Init, EtlAssumption, Input, Keys, Stored, Reads, One
<1>2. Fitting
  BY EmptyEntry DEF Init, Fitting, Fits, Pcs, Upload, Job, Trying, Good
<1>3. Watched
  BY EmptyEntry DEF Init, Closed, Watched, Goods, Ends, OwnRecordOnly, States, Good
<1>4. IndexedFromOwnLab
  BY DEF Init, IndexedFromOwnLab
<1>5. QED
  BY <1>1, <1>2, <1>3, <1>4 DEF IInv

-----------------------------------------------------------------------------
(* The content of a job is one upload's, of the same user's lab.           *)
LEMMA TheContent ==
    ASSUME EtlAssumption, IInv, NEW t \in Tasks, read[t] # {}
    PROVE  \E c \in Tasks : /\ read[t] = {c} /\ Content(t) = doc[c] /\ Content(t) \in Document
                            /\ (CHOOSE x \in read[t] : TRUE) = c /\ Key(c) = Key(t)
                            /\ doc[c].folder = "student_uploads"
<1>1. PICK c : read[t] = {c}
  BY DEF IInv, Reads, One
<1>2. c \in Tasks /\ Key(c) = Key(t) /\ doc[c].folder = "student_uploads"
  BY <1>1 DEF IInv, Reads
<1>3. (CHOOSE x \in read[t] : TRUE) = c
  BY <1>1
<1>4. Content(t) = doc[c] /\ doc[c] \in Document
  BY <1>2, <1>3 DEF Content, EtlAssumption, IInv, Input
<1>5. QED
  BY <1>1, <1>2, <1>3, <1>4

(* A step that moves one upload to p, its loop to a and its record to e.   *)
LEMMA FitsStays ==
    ASSUME Fitting, NEW t \in Tasks, NEW p, NEW a, NEW e, Fits(t, p, a, e),
           pc' = [pc EXCEPT ![t] = p], at' = [at EXCEPT ![t] = a], job' = [job EXCEPT ![t] = e],
           UNCHANGED <<by, name, doc, read, index>>
    PROVE  Fitting'
<1>1. pc' \in [Tasks -> Pcs] /\ at' \in [Tasks -> Nat] /\ job' \in [Tasks -> Entry]
  BY DEF Fitting, Fits
<1>2. ASSUME NEW q \in Tasks PROVE Fits(q, pc[q], at[q], job[q])'
  <2>1. Fits(q, pc'[q], at'[q], job'[q])
    BY DEF Fitting
  <2>2. QED
    BY <2>1 DEF Fits, Good, LongText, Part, Content
<1>3. QED
  BY <1>1, <1>2 DEF Fitting

LEMMA RestStays ==
    ASSUME IInv, UNCHANGED <<by, name, doc, read, index>>
    PROVE  /\ Input' /\ Reads' /\ IndexedFromOwnLab'
           /\ store' = store => Stored'
           /\ watch' = watch => Watched'
<1>1. Input' /\ Reads' /\ IndexedFromOwnLab'
  BY DEF IInv, Input, Reads, One, Key, IndexedFromOwnLab
<1>2. store' = store => Stored'
  BY DEF IInv, Stored, One, Key
<1>3. watch' = watch => Watched'
  BY DEF IInv, Watched, OwnRecordOnly, Goods, Ends, Good, LongText
<1>4. QED
  BY <1>1, <1>2, <1>3

LEMMA MoveInv ==
    ASSUME IInv, NEW t \in Tasks, NEW p, NEW a, NEW e, Fits(t, p, a, e), Keys',
           pc' = [pc EXCEPT ![t] = p], at' = [at EXCEPT ![t] = a], job' = [job EXCEPT ![t] = e],
           UNCHANGED <<input, files, watch>>
    PROVE  IInv'
BY FitsStays, RestStays DEF IInv, input, files

-----------------------------------------------------------------------------
(* The upload.                                                             *)
LEMMA UploadInv ==
    ASSUME EtlAssumption, IInv, NEW t \in Tasks,
           Reject(t) \/ Create(t) \/ SetExpiry(t) \/ RefuseTarget(t)
    PROVE  IInv'
<1>1. pc[t] \in {"new", "created", "target"} /\ read[t] = {} /\ Fits(t, pc[t], at[t], job[t]) /\ by[t] \in Users
  BY DEF Reject, Create, SetExpiry, RefuseTarget, IInv, Input, Fitting, Fits, Job, Trying
<1>2. PICK p \in {"created", "target", "done"}, e \in {job[t], [status |-> "Queued", progress |-> 0, owner |-> {by[t]}]} :
        pc' = [pc EXCEPT ![t] = p] /\ job' = [job EXCEPT ![t] = e]
  <2>1. CASE Create(t)
    BY <2>1 DEF Create, Goto
  <2>2. CASE Reject(t) \/ SetExpiry(t) \/ RefuseTarget(t)
    <3>1. job' = job /\ job = [job EXCEPT ![t] = job[t]]
      BY <2>2 DEF Reject, SetExpiry, RefuseTarget, record, IInv, Fitting
    <3>2. \E p \in {"created", "target", "done"} : pc' = [pc EXCEPT ![t] = p]
      BY <2>2 DEF Reject, SetExpiry, RefuseTarget, Goto
    <3>3. QED
      BY <3>1, <3>2
  <2>3. QED
    BY <2>1, <2>2
<1>3. UNCHANGED <<input, at, told, files, watch, faults>>
  BY DEF Reject, Create, SetExpiry, RefuseTarget
<1>4. Keys'
  BY DEF Reject, Create, SetExpiry, RefuseTarget, record, Expire, IInv, Keys
<1>5. e \in Entry
  BY <1>1, <1>2 DEF Fits, Entry, Statuses
<1>6. Fits(t, p, at[t], e)
  BY <1>1, <1>2, <1>5 DEF Fits, Pcs, Upload, Job, Trying, Good
<1>7. at' = [at EXCEPT ![t] = at[t]]
  BY <1>3 DEF IInv, Fitting
<1>8. QED
  BY <1>2, <1>3, <1>4, <1>6, <1>7, MoveInv

LEMMA PutInv == ASSUME EtlAssumption, IInv, NEW t \in Tasks, Put(t) PROVE IInv'
<1>1. /\ pc[t] = "target" /\ doc[t].folder # "elsewhere" /\ pc' = [pc EXCEPT ![t] = "stored"]
      /\ UNCHANGED <<by, name, doc, at, keys, ttl, job, told, read, index, watch, faults>>
      /\ store' = IF doc[t].folder = "student_uploads" THEN [store EXCEPT ![Key(t)] = {t}] ELSE store
  BY DEF Put, Goto, input, record
<1>2. Fits(t, "stored", at[t], job[t])
  BY <1>1 DEF IInv, Fitting, Fits, Pcs, Upload, Job, Trying, Good
<1>3. Fitting'
  <2>1. at' = [at EXCEPT ![t] = at[t]] /\ job' = [job EXCEPT ![t] = job[t]]
    BY <1>1 DEF IInv, Fitting
  <2>2. QED
    BY <1>1, <1>2, <2>1, FitsStays DEF IInv
<1>4. Stored'
  <2>1. CASE doc[t].folder # "student_uploads"
    BY <1>1, <2>1 DEF IInv, Stored, One, Key
  <2>2. CASE doc[t].folder = "student_uploads"
    <3>1. Key(t) \in {LabOf[u] : u \in Users} \X Names /\ DOMAIN store = {LabOf[u] : u \in Users} \X Names
      BY DEF IInv, Input, Stored, Key
    <3>2. store' = [store EXCEPT ![Key(t)] = {t}]
      BY <1>1, <2>2
    <3>3. /\ store' \in [{LabOf[u] : u \in Users} \X Names -> SUBSET Tasks]
          /\ \A k \in DOMAIN store' : store'[k] = IF k = Key(t) THEN {t} ELSE store[k]
      BY <3>1, <3>2 DEF IInv, Stored
    <3>4. \A c : Key(c)' = Key(c)
      BY <1>1 DEF Key
    <3>5. \A k \in DOMAIN store' : One(store'[k])
      BY SMTT(30), <3>1, <3>3 DEF IInv, Stored, One
    <3>6. \A k \in DOMAIN store' : \A c \in store'[k] : Key(c) = k /\ doc[c].folder = "student_uploads"
      BY <2>2, <3>1, <3>3 DEF IInv, Stored
    <3>7. QED
      BY <1>1, <3>3, <3>4, <3>5, <3>6 DEF Stored, One
  <2>3. QED
    BY <2>1, <2>2
<1>5. Input' /\ Reads' /\ IndexedFromOwnLab' /\ Watched'
  BY <1>1, RestStays
<1>6. Keys'
  BY <1>1 DEF IInv, Keys
<1>7. QED
  BY <1>3, <1>4, <1>5, <1>6 DEF IInv

LEMMA RespondInv == ASSUME EtlAssumption, IInv, NEW t \in Tasks, Respond(t) PROVE IInv'
<1>1. pc[t] = "stored" /\ Fits(t, pc[t], at[t], job[t]) /\ read[t] = {}
  BY DEF Respond, IInv, Fitting, Fits, Job, Trying
<1>2. PICK p \in {"fetch", "done"}, e \in {job[t], Mark(job[t], "Completed", 100)} :
        /\ pc' = [pc EXCEPT ![t] = p] /\ job' = [job EXCEPT ![t] = e]
        /\ p = "fetch" => doc[t].folder = "student_uploads"
  <2>1. CASE doc[t].folder = "student_uploads" /\ Goto(t, "fetch") /\ UNCHANGED record
    <3>1. job' = [job EXCEPT ![t] = job[t]]
      BY <2>1 DEF record, IInv, Fitting
    <3>2. QED
      BY <2>1, <3>1 DEF Goto
  <2>2. CASE doc[t].folder = "uploads" /\ Hset(t, "Completed", 100) /\ Goto(t, "done")
    BY <2>2, HsetIs DEF Goto, IInv
  <2>3. QED
    BY <2>1, <2>2 DEF Respond
<1>3. UNCHANGED <<input, at, files, watch, faults>> /\ at' = [at EXCEPT ![t] = at[t]]
  BY DEF Respond, IInv, Fitting
<1>4. Keys'
  BY DEF Respond, Hset, record, IInv, Keys
<1>5. e \in Entry /\ e.owner = job[t].owner /\ (e = job[t] \/ (e.status = "Completed" /\ e.progress = 100))
  <2>1. job[t] \in Entry /\ "Completed" \in Statuses
    BY <1>1 DEF Fits, Statuses, Final
  <2>2. QED
    BY <1>2, <2>1, MarkIs
<1>6. Fits(t, p, at[t], e)
  BY <1>1, <1>2, <1>5 DEF Fits, Pcs, Upload, Job, Trying, Good, Final
<1>7. QED
  BY <1>2, <1>3, <1>4, <1>6, MoveInv

-----------------------------------------------------------------------------
(* The job.                                                                *)
LEMMA FailFits ==
    ASSUME IInv, NEW t \in Tasks
    PROVE  Fits(t, "done", at[t], Mark(job[t], "Failed", 100))
<1>1. Fits(t, pc[t], at[t], job[t]) /\ "Failed" \in Statuses
  BY DEF IInv, Fitting, Statuses, Final
<1>2. /\ Mark(job[t], "Failed", 100) \in Entry /\ Mark(job[t], "Failed", 100).status = "Failed"
      /\ Mark(job[t], "Failed", 100).owner = job[t].owner
  BY <1>1, MarkIs DEF Fits
<1>3. QED
  BY <1>1, <1>2 DEF Fits, Pcs, Job, Trying, Final, Good

LEMMA FailInv ==
    ASSUME IInv, NEW t \in Tasks, Fail(t), UNCHANGED <<input, told, files, watch>>,
           faults' \in 0 .. MaxFaults, at' = [at EXCEPT ![t] = 0] \/ at' = at
    PROVE  IInv'
<1>1. pc' = [pc EXCEPT ![t] = "done"] /\ job' = [job EXCEPT ![t] = Mark(job[t], "Failed", 100)]
  BY HsetIs DEF Fail, Goto, IInv
<1>2. Keys'
  BY HsetKeys DEF Fail, IInv
<1>3. Fits(t, "done", at[t], Mark(job[t], "Failed", 100))
  BY FailFits
<1>4. Fits(t, "done", 0, Mark(job[t], "Failed", 100))
  BY <1>3 DEF Fits
<1>5. at' = [at EXCEPT ![t] = 0] \/ at' = [at EXCEPT ![t] = at[t]]
  BY DEF IInv, Fitting
<1>6. QED
  BY <1>1, <1>2, <1>3, <1>4, <1>5, MoveInv

LEMMA FetchInv == ASSUME EtlAssumption, IInv, NEW t \in Tasks, Fetch(t) PROVE IInv'
<1>1. pc[t] = "fetch" /\ Fits(t, pc[t], at[t], job[t]) /\ read[t] = {} /\ doc[t].folder = "student_uploads"
  BY DEF Fetch, IInv, Fitting, Fits, Job, Trying
<1>2. CASE faults < MaxFaults /\ faults' = faults + 1 /\ Fail(t) /\ UNCHANGED read
  <2>1. UNCHANGED <<input, told, files, watch>> /\ at' = at
    BY <1>2 DEF Fetch, files
  <2>2. faults' \in 0 .. MaxFaults
    BY <1>2 DEF EtlAssumption, IInv, Keys
  <2>3. QED
    BY <1>2, <2>1, <2>2, FailInv
<1>3. CASE store[Key(t)] # {} /\ read' = [read EXCEPT ![t] = store[Key(t)]] /\ Goto(t, "begin") /\ UNCHANGED <<record, faults>>
  <2>1. UNCHANGED <<by, name, doc, at, keys, ttl, job, told, store, index, watch, faults>>
        /\ pc' = [pc EXCEPT ![t] = "begin"]
    BY <1>3 DEF Fetch, input, record, Goto
  <2>2. Key(t) \in DOMAIN store
    BY DEF IInv, Input, Stored, Key
  <2>3. PICK c : store[Key(t)] = {c}
    BY <1>3, <2>2 DEF IInv, Stored, One
  <2>4. c \in Tasks /\ Key(c) = Key(t) /\ doc[c].folder = "student_uploads"
    BY <2>2, <2>3 DEF IInv, Stored
  <2>5. \A q \in Tasks : read'[q] = IF q = t THEN {c} ELSE read[q]
    BY <1>3, <2>3 DEF IInv, Reads
  <2>6. Reads'
    <3>1. read' \in [Tasks -> SUBSET Tasks]
      BY <1>3, <2>3, <2>4 DEF IInv, Reads
    <3>2. \A q : Key(q)' = Key(q)
      BY <2>1 DEF Key
    <3>3. \A q \in Tasks : \A x \in read'[q] : Key(x) = Key(q) /\ doc[x].folder = "student_uploads"
      BY <2>4, <2>5 DEF IInv, Reads
    <3>4. \A q \in Tasks : One(read'[q])
      BY <2>5 DEF IInv, Reads, One
    <3>5. QED
      BY <2>1, <3>1, <3>2, <3>3, <3>4 DEF Reads, One
  <2>7. \A q \in Tasks : \A e : Good(q, e) => Good(q, e)'
    BY <1>1, <2>1, <2>5 DEF Good, LongText
  <2>8. Fitting'
    <3>1. pc' \in [Tasks -> Pcs] /\ at' \in [Tasks -> Nat] /\ job' \in [Tasks -> Entry]
      BY <2>1 DEF IInv, Fitting, Pcs, Job
    <3>2. ASSUME NEW q \in Tasks, q # t PROVE Fits(q, pc[q], at[q], job[q])'
      <4>1. Fits(q, pc[q], at[q], job[q]) /\ read'[q] = read[q] /\ pc'[q] = pc[q]
        BY <2>1, <2>5, <3>2 DEF IInv, Fitting
      <4>2. QED
        BY <2>1, <4>1 DEF Fits, Good, LongText, Part, Content
    <3>3. Fits(t, pc[t], at[t], job[t])'
      <4>1. pc'[t] = "begin" /\ read'[t] = {c} /\ Good(t, job[t])'
        BY <1>1, <2>1, <2>5, <2>7 DEF IInv, Fitting, Fits
      <4>2. QED
        BY <1>1, <2>1, <4>1 DEF Fits, Pcs, Job, Trying
    <3>4. QED
      BY <3>1, <3>2, <3>3 DEF Fitting
  <2>9. Watched'
    BY <2>1, <2>7 DEF IInv, Watched, Goods, Ends, OwnRecordOnly
  <2>10. Input' /\ Keys' /\ Stored' /\ IndexedFromOwnLab'
    BY <2>1 DEF IInv, Input, Keys, Stored, One, Key, IndexedFromOwnLab
  <2>11. QED
    BY <2>6, <2>8, <2>9, <2>10 DEF IInv
<1>4. QED
  BY <1>2, <1>3 DEF Fetch

(* A step within the job that writes the record, and one that does not.    *)
LEMMA MarkInv ==
    ASSUME IInv, NEW t \in Tasks, pc[t] \in Job, NEW p \in Job, NEW a \in Nat,
           NEW s \in Statuses \ {"Finished"}, NEW n \in Nat, Hset(t, s, n),
           n < 100 \/ s \in Final \/ \E c \in read[t] : ~LongText(c),
           p \in {"chunks", "insert", "inserted"} => Content(t).chunks # 0,
           p \in {"insert", "inserted"} => a <= Content(t).chunks /\ \A i \in 1 .. a : Part(t, i) \in index,
           p \in {"renew", "parse"} => n <= 5, p = "start" => n <= 10,
           pc' = [pc EXCEPT ![t] = p], at' = [at EXCEPT ![t] = a],
           UNCHANGED <<input, told, files, watch, faults>>
    PROVE  IInv'
<1>1. Fits(t, pc[t], at[t], job[t])
  BY DEF IInv, Fitting
<1>2. /\ Mark(job[t], s, n) \in Entry /\ Mark(job[t], s, n).status = s
      /\ Mark(job[t], s, n).progress = n /\ Mark(job[t], s, n).owner = job[t].owner
  BY <1>1, MarkIs DEF Fits
<1>3. Fits(t, p, a, Mark(job[t], s, n))
  BY <1>1, <1>2 DEF Fits, Pcs, Good
<1>4. Keys'
  BY HsetKeys DEF IInv, Keys
<1>5. QED
  BY <1>3, <1>4, HsetIs, MoveInv

LEMMA GoInv ==
    ASSUME IInv, NEW t \in Tasks, pc[t] \in Job, NEW p \in Job \ {"start"}, NEW a \in Nat,
           p \in {"chunks", "insert", "inserted"} => Content(t).chunks # 0,
           p \in {"insert", "inserted"} => a <= Content(t).chunks /\ \A i \in 1 .. a : Part(t, i) \in index,
           p \in {"renew", "parse"} => pc[t] \in {"renew", "parse"},
           job' = job, pc' = [pc EXCEPT ![t] = p], at' = [at EXCEPT ![t] = a],
           UNCHANGED <<input, files, watch>>, Keys'
    PROVE  IInv'
<1>1. Fits(t, pc[t], at[t], job[t]) /\ job' = [job EXCEPT ![t] = job[t]]
  BY DEF IInv, Fitting
<1>2. Fits(t, p, a, job[t])
  <2>1. job[t].status # "Finished" /\ read[t] # {} /\ doc[t].folder = "student_uploads"
    BY <1>1 DEF Fits, Job, Trying
  <2>2. p \in {"renew", "parse"} => job[t].progress <= 5
    BY <1>1 DEF Fits
  <2>3. QED
    BY <1>1, <2>1, <2>2 DEF Fits, Pcs
<1>3. QED
  BY <1>1, <1>2, MoveInv

(* An upload or a job that is over.                                        *)
LEMMA OverInv ==
    ASSUME IInv, NEW t \in Tasks, UNCHANGED <<input, at, record, told, files, watch>>,
           pc' = [pc EXCEPT ![t] = "done"], faults' \in 0 .. MaxFaults
    PROVE  IInv'
<1>1. /\ Fits(t, pc[t], at[t], job[t])
      /\ job' = [job EXCEPT ![t] = job[t]] /\ at' = [at EXCEPT ![t] = at[t]]
  BY DEF IInv, Fitting, record
<1>2. Fits(t, "done", at[t], job[t])
  BY <1>1 DEF Fits, Pcs, Job, Trying
<1>3. Keys'
  BY DEF IInv, Keys, record
<1>4. QED
  BY <1>1, <1>2, <1>3, MoveInv

LEMMA JobStatus ==
    ASSUME IInv, NEW t \in Tasks, pc[t] \in Job
    PROVE  /\ job[t].status \in Statuses \ {"Finished"} /\ job[t].progress \in Nat /\ at[t] \in Nat
           /\ read[t] # {} /\ Fits(t, pc[t], at[t], job[t])
<1>1. Fits(t, pc[t], at[t], job[t])
  BY DEF IInv, Fitting
<1>2. job[t].status # "Finished"
  BY <1>1 DEF Fits, Job, Trying
<1>3. QED
  BY <1>1, <1>2 DEF Fits, Entry

LEMMA BeginInv == ASSUME IInv, NEW t \in Tasks, Begin(t) PROVE IInv'
<1>1. UNCHANGED <<input, told, files, watch, faults>> /\ at' = at /\ at' = [at EXCEPT ![t] = at[t]]
  BY DEF Begin, IInv, Fitting
<1>2. pc[t] \in Job
  BY DEF Begin, Job
<1>3. CASE pc[t] = "begin" /\ Hset(t, "Queued", 5) /\ Goto(t, "renew")
  <2>1. pc' = [pc EXCEPT ![t] = "renew"] /\ "renew" \in Job /\ "Queued" \in Statuses \ {"Finished"}
    BY <1>3 DEF Goto, Job, Statuses, Final
  <2>2. at[t] \in Nat /\ Hset(t, "Queued", 5)
    BY <1>2, <1>3, JobStatus
  <2>3. "renew" \notin {"chunks", "insert", "inserted"} /\ "renew" # "start" /\ 5 \in Nat /\ 5 < 100 /\ 5 <= 5
    OBVIOUS
  <2>4. QED
    BY <1>1, <1>2, <2>1, <2>2, <2>3, MarkInv
<1>4. CASE pc[t] = "renew" /\ Expire(t) /\ Goto(t, "parse") /\ UNCHANGED <<keys, job>>
  <2>1. pc' = [pc EXCEPT ![t] = "parse"] /\ "parse" \in Job \ {"start"}
    BY <1>4 DEF Goto, Job, Trying
  <2>2. Keys'
    BY <1>1, <1>4 DEF Expire, IInv, Keys
  <2>3. at[t] \in Nat /\ job' = job /\ pc[t] \in {"renew", "parse"}
    BY <1>2, <1>4, JobStatus
  <2>4. UNCHANGED <<input, files, watch>> /\ at' = [at EXCEPT ![t] = at[t]]
    BY <1>1
  <2>5. "parse" \notin {"chunks", "insert", "inserted"}
    OBVIOUS
  <2>6. QED
    BY <1>2, <2>1, <2>2, <2>3, <2>4, <2>5, GoInv
<1>5. QED
  BY <1>3, <1>4 DEF Begin

LEMMA ParseInv == ASSUME IInv, NEW t \in Tasks, Parse(t) PROVE IInv'
<1>1. UNCHANGED <<input, told, files, watch, faults>> /\ at' = at /\ at' = [at EXCEPT ![t] = at[t]]
  BY DEF Parse, IInv, Fitting
<1>2. pc[t] \in Job
  BY DEF Parse, Job, Trying
<1>3. job[t].status \in Statuses \ {"Finished"} /\ job[t].progress \in Nat /\ at[t] \in Nat
      /\ Fits(t, pc[t], at[t], job[t])
  BY <1>2, JobStatus
<1>4. CASE Fail(t)
  <2>1. faults' \in 0 .. MaxFaults
    BY <1>1 DEF IInv, Keys
  <2>2. QED
    BY <1>1, <1>4, <2>1, FailInv
<1>5. CASE pc[t] = "parse" /\ HsetProgress(t, job[t].progress + 5) /\ Goto(t, "start")
  <2>1. job[t].progress + 5 \in Nat /\ job[t].progress + 5 <= 10
    BY <1>3, <1>5 DEF Fits
  <2>2. pc' = [pc EXCEPT ![t] = "start"] /\ "start" \in Job
    BY <1>5 DEF Goto, Job, Trying
  <2>3. Hset(t, job[t].status, job[t].progress + 5)
    BY <1>5 DEF HsetProgress
  <2> DEFINE n == job[t].progress + 5
  <2>4. n \in Nat /\ n <= 10 /\ n < 100 /\ Hset(t, job[t].status, n)
    BY <2>1, <2>3
  <2> HIDE DEF n
  <2>5. QED
    BY <1>1, <1>2, <1>3, <2>2, <2>4, MarkInv
<1>6. CASE pc[t] = "start" /\ Hset(t, "Started", job[t].progress) /\ Goto(t, "pages")
  <2>1. job[t].progress < 100
    BY <1>3, <1>6 DEF Fits
  <2>2. pc' = [pc EXCEPT ![t] = "pages"] /\ "pages" \in Job /\ "Started" \in Statuses \ {"Finished"}
    BY <1>6 DEF Goto, Job, Trying, Statuses, Final
  <2>3. QED
    BY <1>1, <1>2, <1>3, <1>6, <2>1, <2>2, MarkInv
<1>7. QED
  BY <1>4, <1>5, <1>6 DEF Parse

LEMMA PageInv == ASSUME EtlAssumption, IInv, NEW t \in Tasks, Page(t) PROVE IInv'
<1>1. UNCHANGED <<input, told, files, watch, faults>> /\ pc[t] = "pages" /\ pc' = pc
      /\ at' = [at EXCEPT ![t] = at[t] + 1] /\ at[t] < Len(Content(t).pages)
  BY DEF Page
<1>2. pc[t] \in Job /\ pc' = [pc EXCEPT ![t] = "pages"] /\ "pages" \in Job
  BY <1>1 DEF Job, Trying, IInv, Fitting
<1>3. at[t] \in Nat /\ at[t] + 1 \in Nat /\ read[t] # {}
  BY <1>2, JobStatus
<1>4. Len(Content(t).pages) \in Nat
  BY <1>3, TheContent DEF Document
<1> DEFINE n == ((at[t] + 1) * 30) \div Len(Content(t).pages)
<1>5. n \in Nat /\ n < 100
  <2>1. Len(Content(t).pages) \in Nat \ {0} /\ at[t] + 1 <= Len(Content(t).pages) /\ (at[t] + 1) * 30 \in Nat
    BY <1>1, <1>3, <1>4
  <2>2. n \in Nat /\ n <= 30
    BY <1>3, <2>1, Divisions
  <2>3. QED
    BY <2>2
<1>6. Hset(t, "Processing", n) \/ Hset(t, "Failed", 100)
  BY DEF Page
<1> HIDE DEF n
<1>7. "Processing" \in Statuses \ {"Finished"} /\ "Failed" \in Statuses \ {"Finished"} /\ "Failed" \in Final
  BY DEF Statuses, Final
<1>8. CASE Hset(t, "Processing", n)
  BY <1>1, <1>2, <1>3, <1>5, <1>7, <1>8, MarkInv
<1>9. CASE Hset(t, "Failed", 100)
  BY ZenonT(40), <1>1, <1>2, <1>3, <1>7, <1>9, MarkInv
<1>10. QED
  BY <1>6, <1>8, <1>9

LEMMA EndPagesInv == ASSUME EtlAssumption, IInv, NEW t \in Tasks, EndPages(t) PROVE IInv'
<1>1. UNCHANGED <<input, told, files, watch, faults>> /\ pc[t] = "pages" /\ at' = [at EXCEPT ![t] = 0]
  BY DEF EndPages
<1>2. pc[t] \in Job /\ faults' \in 0 .. MaxFaults
  BY <1>1 DEF Job, Trying, IInv, Keys
<1>3. CASE Fail(t)
  BY <1>1, <1>2, <1>3, FailInv
<1>4. CASE Content(t).chunks # 0 /\ Goto(t, "chunks") /\ UNCHANGED record
  <2>1. pc' = [pc EXCEPT ![t] = "chunks"] /\ "chunks" \in Job \ {"start"} /\ job' = job
    BY <1>4 DEF Goto, Job, Trying, record
  <2>2. Keys'
    BY <1>1, <1>4 DEF record, IInv, Keys
  <2>3. 0 \in Nat /\ "chunks" \notin {"insert", "inserted", "renew", "parse"}
    OBVIOUS
  <2>4. QED
    BY <1>1, <1>2, <1>4, <2>1, <2>2, <2>3, GoInv
<1>5. QED
  BY <1>3, <1>4 DEF EndPages

LEMMA ChunkInv == ASSUME EtlAssumption, IInv, NEW t \in Tasks, Chunk(t) PROVE IInv'
<1>1. UNCHANGED <<input, told, files, watch, faults>> /\ pc[t] = "chunks"
  BY DEF Chunk
<1>2. pc[t] \in Job /\ "chunks" \in Job /\ "insert" \in Job \ {"start"}
  BY <1>1 DEF Job, Trying
<1>3. job[t].status \in Statuses \ {"Finished"} /\ at[t] \in Nat /\ read[t] # {} /\ Content(t).chunks # 0
  BY <1>1, <1>2, JobStatus DEF Fits
<1>4. Content(t).chunks \in Nat
  BY <1>3, TheContent DEF Document
<1> DEFINE n == 30 + ((at[t] + 1) * 30) \div Content(t).chunks
<1>5. CASE at[t] < Content(t).chunks
  <2>1. at[t] + 1 \in Nat /\ (at[t] + 1) * 30 \in Nat /\ at[t] + 1 <= Content(t).chunks /\ Content(t).chunks \in Nat \ {0}
    BY <1>3, <1>4, <1>5
  <2>2. ((at[t] + 1) * 30) \div Content(t).chunks \in Nat /\ ((at[t] + 1) * 30) \div Content(t).chunks <= 30
    BY <2>1, Divisions
  <2>3. n \in Nat /\ n < 100
    BY <2>2
  <2>4. Hset(t, job[t].status, n) /\ at' = [at EXCEPT ![t] = at[t] + 1] /\ pc' = pc
    BY <1>5 DEF Chunk, HsetProgress
  <2> HIDE DEF n
  <2>5. pc' = [pc EXCEPT ![t] = "chunks"]
    BY <1>1, <2>4 DEF IInv, Fitting
  <2>6. QED
    BY <1>1, <1>2, <1>3, <2>1, <2>3, <2>4, <2>5, MarkInv
<1>6. CASE ~(at[t] < Content(t).chunks)
  <2>1. at' = [at EXCEPT ![t] = 0] /\ pc' = [pc EXCEPT ![t] = "insert"] /\ UNCHANGED record
    BY <1>6 DEF Chunk, Goto
  <2>2. Keys' /\ job' = job
    BY <1>1, <2>1 DEF record, IInv, Keys
  <2>3. 0 \in Nat /\ 0 <= Content(t).chunks /\ \A i \in 1 .. 0 : Part(t, i) \in index
    BY <1>4
  <2>4. QED
    BY <1>1, <1>2, <1>3, <2>1, <2>2, <2>3, GoInv
<1>7. QED
  BY <1>5, <1>6

LEMMA InsertedInv == ASSUME EtlAssumption, IInv, NEW t \in Tasks, Inserted(t) PROVE IInv'
<1>1. UNCHANGED <<input, at, told, files, watch, faults>> /\ pc[t] = "inserted"
      /\ pc' = [pc EXCEPT ![t] = "insert"] /\ Hset(t, job[t].status, Inserting(t))
  BY DEF Inserted, Goto, HsetProgress
<1>2. pc[t] \in Job /\ "insert" \in Job
  BY <1>1 DEF Job, Trying
<1>3. /\ job[t].status \in Statuses \ {"Finished"} /\ at[t] \in Nat /\ read[t] # {} /\ Content(t).chunks # 0
      /\ at[t] <= Content(t).chunks /\ \A i \in 1 .. at[t] : Part(t, i) \in index
  BY <1>1, <1>2, JobStatus DEF Fits
<1>4. PICK c \in Tasks : read[t] = {c} /\ Content(t) = doc[c] /\ Content(t) \in Document
  BY <1>3, TheContent
<1>5. Content(t).chunks \in Nat \ {0} /\ at[t] + 1 \in Nat /\ (at[t] + 1) * 30 \in Nat
  BY <1>3, <1>4 DEF Document
<1>6. Inserting(t) \in Nat
  <2>1. ((at[t] + 1) * 30) \div Content(t).chunks \in Nat
    BY <1>5, Divisions
  <2>2. QED
    BY <2>1 DEF Inserting
<1>7. Inserting(t) < 100 \/ \E x \in read[t] : ~LongText(x)
  <2>1. CASE Content(t).chunks > 3
    <3>1. at[t] + 1 <= Content(t).chunks + 1
      BY <1>3, <1>5
    <3>2. ((at[t] + 1) * 30) \div Content(t).chunks < 40 /\ ((at[t] + 1) * 30) \div Content(t).chunks \in Nat
      BY <1>5, <2>1, <3>1, Divisions
    <3>3. QED
      BY <3>2 DEF Inserting
  <2>2. CASE ~(Content(t).chunks > 3)
    BY <1>4, <2>2 DEF LongText
  <2>3. QED
    BY <2>1, <2>2
<1>8. at' = [at EXCEPT ![t] = at[t]]
  BY <1>1 DEF IInv, Fitting
<1>9. QED
  BY <1>1, <1>2, <1>3, <1>6, <1>7, <1>8, MarkInv

LEMMA FinishInv == ASSUME EtlAssumption, IInv, NEW t \in Tasks, Finish(t) PROVE IInv'
<1>1. /\ pc[t] = "insert" /\ at[t] = Content(t).chunks /\ Hset(t, "Finished", 100)
      /\ pc' = [pc EXCEPT ![t] = "done"] /\ UNCHANGED <<input, at, told, files, watch, faults>>
  BY DEF Finish, Goto
<1>2. pc[t] \in Job
  BY <1>1 DEF Job, Trying
<1>3. /\ Fits(t, pc[t], at[t], job[t]) /\ read[t] # {} /\ at' = [at EXCEPT ![t] = at[t]]
      /\ \A i \in 1 .. Content(t).chunks : Part(t, i) \in index
  BY <1>1, <1>2, JobStatus DEF Fits, IInv, Fitting
<1> DEFINE e == Mark(job[t], "Finished", 100)
<1>4. e \in Entry /\ e.status = "Finished" /\ e.progress = 100 /\ e.owner = job[t].owner /\ e.status \in Final
  <2>1. job[t] \in Entry /\ "Finished" \in Statuses /\ "Finished" \in Final /\ 100 \in Nat
    BY <1>3 DEF Fits, Statuses, Final
  <2>2. QED
    BY <2>1, MarkIs
<1> HIDE DEF e
<1>5. Fits(t, "done", at[t], e)
  BY <1>3, <1>4 DEF Fits, Pcs, Job, Trying, Good
<1>6. Keys'
  BY <1>1, HsetKeys DEF IInv, Keys
<1>7. job' = [job EXCEPT ![t] = e]
  BY <1>1, HsetIs DEF e
<1>8. QED
  BY <1>1, <1>3, <1>5, <1>6, <1>7, MoveInv

LEMMA InsertInv == ASSUME EtlAssumption, IInv, NEW t \in Tasks, Insert(t) PROVE IInv'
<1> DEFINE next == Least(at[t] + BatchSize, Content(t).chunks)
           new == [task: {t}, lab: {LabOf[by[t]]}, from: read[t], chunk: at[t] + 1 .. next]
<1>1. /\ pc[t] = "insert" /\ at[t] < Content(t).chunks
      /\ pc' = [pc EXCEPT ![t] = "inserted"] /\ at' = [at EXCEPT ![t] = next] /\ index' = index \cup new
      /\ UNCHANGED <<input, record, told, store, read, watch, faults>>
  BY DEF Insert, Goto
<1>2. pc[t] \in Job /\ UNCHANGED <<by, name, doc, keys, ttl, job>>
  BY <1>1 DEF Job, Trying, input, record
<1>3. /\ Fits(t, pc[t], at[t], job[t]) /\ at[t] \in Nat /\ read[t] # {} /\ job[t].status # "Finished"
      /\ doc[t].folder = "student_uploads"
  BY <1>2, JobStatus DEF Fits
<1>4. PICK c \in Tasks : /\ read[t] = {c} /\ Content(t) = doc[c] /\ Content(t) \in Document
                         /\ (CHOOSE x \in read[t] : TRUE) = c /\ Key(c) = Key(t)
                         /\ doc[c].folder = "student_uploads"
  BY <1>3, TheContent
<1>5. next \in Nat /\ next <= Content(t).chunks /\ Content(t).chunks \in Nat
  <2>1. Content(t).chunks \in Nat /\ BatchSize \in Nat
    BY <1>4 DEF Document, EtlAssumption
  <2>2. QED
    BY <1>3, <2>1 DEF Least
<1>6. new = [task: {t}, lab: {LabOf[by[t]]}, from: {c}, chunk: at[t] + 1 .. next]
  BY <1>4
<1> HIDE DEF next, new
<1>7. \A q \in Tasks : \A i : Part(q, i)' = Part(q, i) /\ Content(q)' = Content(q)
  BY <1>1, <1>2 DEF Part, Content
<1>8. \A i \in 1 .. next : Part(t, i) \in index'
  <2> TAKE i \in 1 .. next
  <2>1. CASE i <= at[t]
    <3>1. Part(t, i) \in index
      BY <1>1, <1>3, <1>5, <2>1 DEF Fits
    <3>2. QED
      BY <1>1, <3>1
  <2>2. CASE i > at[t]
    <3>1. i \in at[t] + 1 .. next
      BY <1>3, <1>5, <2>2
    <3>2. Part(t, i) = [task |-> t, lab |-> LabOf[by[t]], from |-> c, chunk |-> i]
      BY <1>4 DEF Part
    <3>3. Part(t, i) \in new
      BY <1>6, <3>1, <3>2
    <3>4. QED
      BY <1>1, <3>3
  <2>3. QED
    BY <1>3, <1>5, <2>1, <2>2
<1>9. Fitting'
  <2>1. pc' \in [Tasks -> Pcs] /\ at' \in [Tasks -> Nat] /\ job' \in [Tasks -> Entry]
    BY <1>1, <1>2, <1>5 DEF IInv, Fitting, Pcs, Job, Trying
  <2>2. \A q \in Tasks : \A e : Good(q, e)' <=> Good(q, e)
    BY <1>1, <1>2 DEF Good, LongText
  <2>3. ASSUME NEW q \in Tasks, q # t PROVE Fits(q, pc[q], at[q], job[q])'
    <3>1. Fits(q, pc[q], at[q], job[q]) /\ pc'[q] = pc[q] /\ at'[q] = at[q]
      BY <1>1, <2>3 DEF IInv, Fitting
    <3>2. Good(q, job[q])'
      BY <1>2, <2>2, <3>1 DEF Fits
    <3>3. QED
      BY <1>1, <1>2, <1>7, <3>1, <3>2 DEF Fits
  <2>4. Fits(t, pc[t], at[t], job[t])'
    <3>1. pc'[t] = "inserted" /\ at'[t] = next /\ "inserted" \in Job
      BY <1>1, <1>5 DEF IInv, Fitting, Job, Trying
    <3>2. Good(t, job[t])'
      BY <1>2, <1>3, <2>2 DEF Fits
    <3>3. Content(t)' = Content(t) /\ Content(t).chunks # 0 /\ \A i \in 1 .. next : Part(t, i)' \in index'
      BY <1>1, <1>3, <1>7, <1>8 DEF Fits
    <3>4. QED
      BY <1>1, <1>2, <1>3, <1>5, <3>1, <3>2, <3>3 DEF Fits, Pcs
  <2>5. QED
    BY <2>1, <2>3, <2>4 DEF Fitting
<1>10. IndexedFromOwnLab'
  <2>1. LabOf[by[c]] = LabOf[by[t]] /\ name[c] = name[t]
    BY <1>4 DEF Key
  <2>2. \A x \in new : /\ x.lab = LabOf[by[x.from]] /\ name[x.from] = name[x.task]
                        /\ doc[x.from].folder = "student_uploads" /\ doc[x.task].folder = "student_uploads"
    BY <1>3, <1>4, <1>6, <2>1
  <2>3. QED
    BY <1>1, <1>2, <2>2 DEF IInv, IndexedFromOwnLab
<1>11. Input' /\ Keys' /\ Stored' /\ Reads'
  <2>1. \A q : Key(q)' = Key(q)
    BY <1>1, <1>2 DEF Key
  <2>2. Input' /\ Keys'
    BY <1>1, <1>2 DEF IInv, Input, Keys
  <2>3. Stored' /\ Reads'
    BY <1>1, <1>2, <2>1 DEF IInv, Stored, Reads, One
  <2>4. QED
    BY <2>2, <2>3
<1>12. Watched'
  BY <1>1, <1>2 DEF IInv, Watched, OwnRecordOnly, Goods, Ends, Good, LongText
<1>13. QED
  BY <1>9, <1>10, <1>11, <1>12 DEF IInv

-----------------------------------------------------------------------------
(* Failures, crashes and expiry.                                           *)
LEMMA FaultInv ==
    ASSUME EtlAssumption, IInv, NEW t \in Tasks, Raise(t) \/ Except(t) \/ Escape(t)
    PROVE  IInv'
<1>1. CASE Raise(t)
  <2>1. pc[t] \in Job /\ "except" \in Job \ {"start"} /\ pc' = [pc EXCEPT ![t] = "except"]
    BY <1>1 DEF Raise, Goto, Job
  <2>2. job' = job /\ UNCHANGED <<input, files, watch>> /\ at' = [at EXCEPT ![t] = at[t]]
    BY <1>1 DEF Raise, record, IInv, Fitting
  <2>3. Keys'
    BY <1>1 DEF Raise, record, EtlAssumption, IInv, Keys
  <2>4. at[t] \in Nat /\ "except" \notin {"chunks", "insert", "inserted", "renew", "parse"}
    BY <2>1, JobStatus
  <2>5. QED
    BY <2>1, <2>2, <2>3, <2>4, GoInv
<1>2. CASE Except(t)
  BY <1>2, FailInv DEF Except, IInv, Keys
<1>3. CASE Escape(t)
  <2>1. UNCHANGED <<input, at, record, told, files, watch>> /\ pc' = [pc EXCEPT ![t] = "done"]
    BY <1>3 DEF Escape, Goto
  <2>2. faults' \in 0 .. MaxFaults
    BY <1>3 DEF Escape, EtlAssumption, IInv, Keys
  <2>3. QED
    BY <2>1, <2>2, OverInv
<1>4. QED
  BY <1>1, <1>2, <1>3

LEMMA ForgetInv == ASSUME IInv, NEW t \in Tasks, Forget(t) PROVE IInv'
<1>1. /\ job' = [job EXCEPT ![t] = Empty] /\ pc' = [pc EXCEPT ![t] = pc[t]] /\ at' = [at EXCEPT ![t] = at[t]]
      /\ UNCHANGED <<input, files, watch>>
  BY DEF Forget, IInv, Fitting
<1>2. Keys'
  BY DEF Forget, IInv, Keys
<1>3. Fits(t, pc[t], at[t], job[t])
  BY DEF IInv, Fitting
<1>4. Fits(t, pc[t], at[t], Empty)
  BY <1>3, EmptyEntry DEF Fits, Good
<1>5. QED
  BY <1>1, <1>2, <1>4, MoveInv

LEMMA EndedIs ==
    ASSUME NEW state \in States
    PROVE  /\ Ended(state) = [state |-> state, task |-> {}, user |-> {}, got |-> Empty]
           /\ Ended(state) \in [state: States, task: SUBSET Tasks, user: SUBSET Users, got: Entry]
<1>1. Ended(state) = [state |-> state, task |-> {}, user |-> {}, got |-> Empty]
  BY DEF Ended, Closed
<1>2. QED
  BY <1>1, EmptyEntry

LEMMA CrashInv == ASSUME EtlAssumption, IInv, Crash PROVE IInv'
<1>1. UNCHANGED <<by, name, doc, at, keys, ttl, job, told, store, read, index>>
  BY DEF Crash, input, record, files
<1>2. Fitting'
  <2>1. \A q \in Tasks : pc'[q] \in {pc[q], "done"}
    BY DEF Crash
  <2>2. pc' \in [Tasks -> Pcs]
    BY DEF Crash, Pcs
  <2>3. ASSUME NEW q \in Tasks PROVE Fits(q, pc[q], at[q], job[q])'
    <3>1. Fits(q, pc[q], at[q], job[q])
      BY DEF IInv, Fitting
    <3>2. Fits(q, "done", at[q], job[q])
      BY <3>1 DEF Fits, Pcs, Job, Trying
    <3>3. Fits(q, pc'[q], at[q], job[q])
      BY <2>1, <3>1, <3>2
    <3>4. QED
      BY <1>1, <3>3 DEF Fits, Good, LongText, Part, Content
  <2>4. QED
    BY <1>1, <2>2, <2>3 DEF IInv, Fitting
<1>3. Watched'
  <2>1. Ended("left") = [state |-> "left", task |-> {}, user |-> {}, got |-> Empty]
        /\ Ended("left") \in [state: States, task: SUBSET Tasks, user: SUBSET Users, got: Entry]
    <3>1. "left" \in States
      BY DEF States
    <3>2. QED
      BY <3>1, EndedIs
  <2>2. \A w \in Watchers : watch'[w] = watch[w] \/ watch'[w] = Ended("left")
    BY DEF Crash
  <2>3. watch' \in [Watchers -> [state: States, task: SUBSET Tasks, user: SUBSET Users, got: Entry]]
    BY <2>1 DEF Crash, IInv, Watched
  <2>4. OwnRecordOnly'
    BY <1>1, <2>1, <2>2 DEF IInv, Watched, OwnRecordOnly
  <2>5. \A w \in Watchers : \A t \in watch'[w].task : Good(t, watch'[w].got)
    BY <2>1, <2>2 DEF IInv, Watched, Goods, Ends
  <2>6. Goods'
    BY <1>1, <2>5 DEF Goods, Good, LongText
  <2>7. Ends'
    BY <2>1, <2>2 DEF IInv, Watched, Ends
  <2>8. QED
    BY <2>3, <2>4, <2>6, <2>7 DEF Watched
<1>4. Keys'
  BY <1>1 DEF Crash, EtlAssumption, IInv, Keys
<1>5. Input' /\ Reads' /\ IndexedFromOwnLab' /\ Stored'
  BY <1>1, RestStays
<1>6. QED
  BY <1>2, <1>3, <1>4, <1>5 DEF IInv

-----------------------------------------------------------------------------
(* The sockets.                                                            *)
Socket == [state: States, task: SUBSET Tasks, user: SUBSET Users, got: Entry]

(* What a socket may be: of its own upload, its last message good.         *)
SocketOK(x) ==
    /\ x \in Socket
    /\ x.state \notin {"idle", "refused"} => \A t \in x.task : x.user = {by[t]}
    /\ \A t \in x.task : Good(t, x.got)
    /\ \A t, q \in x.task : t = q
    /\ x.state = "over" => x.got.progress >= 100

LEMMA SocketInv ==
    ASSUME IInv, NEW w \in Watchers, NEW x, SocketOK(x), watch' = [watch EXCEPT ![w] = x],
           UNCHANGED <<input, pc, at, record, told, files, faults>>
    PROVE  IInv'
<1>1. UNCHANGED <<by, name, doc, pc, at, keys, ttl, job, told, store, read, index, faults>>
  BY DEF input, record, files
<1>2. Watched'
  <2>1. watch' \in [Watchers -> Socket]
    BY DEF IInv, Watched, SocketOK, Socket
  <2>2. \A v \in Watchers : watch'[v] = IF v = w THEN x ELSE watch[v]
    BY DEF IInv, Watched
  <2>3. OwnRecordOnly'
    BY <1>1, <2>2 DEF IInv, Watched, OwnRecordOnly, SocketOK
  <2>4. \A v \in Watchers : \A t \in watch'[v].task : Good(t, watch'[v].got)
    BY <2>2 DEF IInv, Watched, Goods, Ends, SocketOK
  <2>5. Goods'
    BY <1>1, <2>4 DEF Goods, Good, LongText
  <2>6. Ends'
    BY <2>2 DEF IInv, Watched, Ends, SocketOK
  <2>7. QED
    BY <2>1, <2>3, <2>5, <2>6 DEF Watched, Socket
<1>3. Fitting'
  BY <1>1 DEF IInv, Fitting, Fits, Good, LongText, Part, Content
<1>4. Input' /\ Keys' /\ Stored' /\ Reads' /\ IndexedFromOwnLab'
  BY <1>1 DEF IInv, Input, Keys, Stored, Reads, One, Key, IndexedFromOwnLab
<1>5. QED
  BY <1>2, <1>3, <1>4 DEF IInv

LEMMA ConnectInv == ASSUME IInv, NEW w \in Watchers, NEW t \in Tasks, Connect(w, t) PROVE IInv'
<1>1. PICK u \in Users :
        /\ watch' = [watch EXCEPT ![w] =
              [state |-> IF t \in keys /\ job[t].owner = {u} THEN "open" ELSE "refused",
               task |-> {t}, user |-> {u}, got |-> Empty]]
        /\ UNCHANGED <<input, pc, at, record, told, files, faults>>
  BY DEF Connect
<1> DEFINE x == [state |-> IF t \in keys /\ job[t].owner = {u} THEN "open" ELSE "refused",
                 task |-> {t}, user |-> {u}, got |-> Empty]
<1>2. x \in Socket /\ x.task = {t} /\ x.user = {u} /\ x.got = Empty
  BY EmptyEntry DEF Socket, States
<1>3. x.state # "over" /\ (x.state # "refused" => job[t].owner = {u})
  OBVIOUS
<1> HIDE DEF x
<1>4. job[t].owner \subseteq {by[t]}
  BY DEF IInv, Fitting, Fits
<1>5. Good(t, Empty)
  BY EmptyEntry DEF Good
<1>6. SocketOK(x)
  BY <1>2, <1>3, <1>4, <1>5 DEF SocketOK
<1>7. QED
  BY <1>1, <1>6, SocketInv DEF x

LEMMA EndedOK == ASSUME NEW state \in States \ {"over"} PROVE SocketOK(Ended(state))
BY EndedIs DEF SocketOK, Socket

LEMMA WatchInv ==
    ASSUME IInv, NEW w \in Watchers, Send(w) \/ Look(w) \/ Disconnect(w)
    PROVE  IInv'
<1>1. /\ SocketOK(watch[w]) /\ UNCHANGED <<input, pc, at, record, told, files, faults>>
      /\ watch[w].state \in {"open", "sent"}
  BY DEF Send, Look, Disconnect, IInv, Watched, Goods, Ends, OwnRecordOnly, SocketOK, Socket
<1>2. {"open", "sent", "over", "gone", "left"} \subseteq States
  BY DEF States
<1>3. ASSUME NEW s \in {"open", "sent", "over"}, NEW g \in Entry, Turn(w, s, g),
             \A t \in watch[w].task : Good(t, g), s = "over" => g.progress >= 100
      PROVE  IInv'
  <2> DEFINE x == [state |-> s, task |-> watch[w].task, user |-> watch[w].user, got |-> g]
  <2>1. SocketOK(x)
    BY <1>1, <1>2, <1>3 DEF SocketOK, Socket
  <2>2. watch' = [watch EXCEPT ![w] = x]
    BY <1>3 DEF Turn
  <2> HIDE DEF x
  <2>3. QED
    BY <1>1, <2>1, <2>2, SocketInv
<1>4. ASSUME NEW s \in {"gone", "left"}, watch' = [watch EXCEPT ![w] = Ended(s)]
      PROVE  IInv'
  BY <1>1, <1>2, <1>4, EndedOK, SocketInv
<1>5. CASE Send(w)
  <2>1. PICK t \in watch[w].task :
          IF t \in keys THEN Turn(w, "sent", job[t])
          ELSE watch' = [watch EXCEPT ![w] = Ended("gone")]
    BY <1>5 DEF Send
  <2>2. t \in Tasks /\ \A q \in watch[w].task : q = t
    BY <1>1, <2>1 DEF SocketOK, Socket
  <2>3. CASE t \notin keys
    BY <1>4, <2>1, <2>3
  <2>4. CASE t \in keys
    <3>1. job[t] \in Entry /\ Good(t, job[t])
      BY <2>2 DEF IInv, Fitting, Fits
    <3>2. QED
      BY <1>3, <2>1, <2>2, <2>4, <3>1
  <2>5. QED
    BY <2>3, <2>4
<1>6. CASE Look(w)
  <2>1. watch[w].got \in Entry /\ \A t \in watch[w].task : Good(t, watch[w].got)
    BY <1>1 DEF SocketOK, Socket
  <2>2. CASE watch[w].got.progress >= 100
    BY <1>3, <1>6, <2>1, <2>2 DEF Look
  <2>3. CASE ~(watch[w].got.progress >= 100)
    BY <1>3, <1>6, <2>1, <2>3 DEF Look
  <2>4. QED
    BY <2>2, <2>3
<1>7. CASE Disconnect(w)
  BY <1>4, <1>7 DEF Disconnect
<1>8. QED
  BY <1>5, <1>6, <1>7

-----------------------------------------------------------------------------
LEMMA IdleInv == ASSUME IInv, UNCHANGED vars PROVE IInv'
<1>1. UNCHANGED <<by, name, doc, pc, at, keys, ttl, job, told, store, read, index, watch, faults>>
  BY DEF vars, input, record, files
<1>2. Input' /\ Keys' /\ Stored' /\ Reads' /\ IndexedFromOwnLab'
  BY <1>1 DEF IInv, Input, Keys, Stored, Reads, One, Key, IndexedFromOwnLab
<1>3. Fitting'
  <2>1. \A t, p, a, e : Fits(t, p, a, e)' <=> Fits(t, p, a, e)
    BY <1>1 DEF Fits, Good, LongText, Part, Content
  <2>2. QED
    BY <1>1, <2>1 DEF IInv, Fitting
<1>4. Watched'
  BY <1>1 DEF IInv, Watched, OwnRecordOnly, Goods, Ends, Good, LongText
<1>5. QED
  BY <1>2, <1>3, <1>4 DEF IInv

LEMMA NextInv == ASSUME EtlAssumption, IInv, [Next]_vars PROVE IInv'
<1>1. ASSUME NEW t \in Tasks, Handle(t) PROVE IInv'
  BY <1>1, UploadInv, PutInv, RespondInv DEF Handle
<1>2. ASSUME NEW t \in Tasks, Work(t) PROVE IInv'
  BY <1>2, FetchInv, BeginInv, ParseInv, PageInv, EndPagesInv, ChunkInv, InsertInv,
     InsertedInv, FinishInv, FaultInv DEF Work
<1>3. ASSUME NEW t \in Tasks, Raise(t) \/ Escape(t) \/ Forget(t) PROVE IInv'
  BY <1>3, FaultInv, ForgetInv
<1>4. ASSUME NEW w \in Watchers, Send(w) \/ Look(w) \/ Disconnect(w) \/ \E t \in Tasks : Connect(w, t)
      PROVE  IInv'
  BY <1>4, WatchInv, ConnectInv
<1>5. QED
  BY <1>1, <1>2, <1>3, <1>4, CrashInv, IdleInv DEF Next

LEMMA InvOwn == ASSUME EtlAssumption, IInv PROVE UploadsOwn
<1>1. TypeOK
  BY DEF IInv, Input, Keys, Stored, Reads, Fitting, Watched, TypeOK, Pcs
<1>2. FinishedMeansIndexed
  <2>1. SUFFICES ASSUME NEW t \in Tasks, job[t].status = "Finished"
                 PROVE  Cardinality(read[t]) = 1 /\ \A i \in 1 .. Content(t).chunks : Part(t, i) \in index
    BY DEF FinishedMeansIndexed, Part
  <2>2. read[t] # {} /\ \A i \in 1 .. Content(t).chunks : Part(t, i) \in index
    BY <2>1 DEF IInv, Fitting, Fits
  <2>3. QED
    BY <2>2, TheContent, FS_Singleton
<1>3. LongTextsToldEnd
  <2>1. SUFFICES ASSUME NEW w \in Watchers, watch[w].state = "over", NEW t \in watch[w].task,
                        NEW c \in read[t], LongText(c)
                 PROVE  watch[w].got.status \in Final
    BY DEF LongTextsToldEnd, LongText
  <2>2. t \in Tasks /\ Good(t, watch[w].got) /\ watch[w].got.progress >= 100
    BY <2>1 DEF IInv, Watched, Goods, Ends
  <2>3. read[t] = {c}
    BY <2>1, <2>2 DEF IInv, Reads, One
  <2>4. QED
    BY <2>1, <2>2, <2>3 DEF Good
<1>4. QED
  BY <1>1, <1>2, <1>3 DEF IInv, Watched, UploadsOwn

(* For any uploads, users, labs, documents and sockets: whatever crashes,  *)
(* fails or expires, a record is sent to its own user only, the lab's      *)
(* indexed text comes from uploads of that lab, and a record that says     *)
(* Finished has all its chunks indexed (documents/service.py:96-197).      *)
THEOREM UploadsAreOwn == ASSUME EtlAssumption PROVE Spec => []UploadsOwn
<1>1. Init => IInv
  BY InitInv
<1>2. IInv /\ [Next]_vars => IInv'
  BY NextInv
<1>3. IInv => UploadsOwn
  BY InvOwn
<1>4. QED
  BY <1>1, <1>2, <1>3, PTL DEF Spec

=============================================================================
