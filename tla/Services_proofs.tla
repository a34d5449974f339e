---------------------------- MODULE Services_proofs ----------------------------
(***************************************************************************)
(* Any number of chats, pages, logins and connections: threads keep their  *)
(* owner's whole exchanges, a page shows what is of its own login, and a   *)
(* burst of failed logins is counted and logged.  What is proved of        *)
(* uploads is in EtlJob_proofs.                                            *)
(***************************************************************************)
EXTENDS Services, FiniteSetTheorems, SequenceTheorems, TLAPS

-----------------------------------------------------------------------------
(* Chats (ChatHistory)                                                     *)

(* A list of a thread: what was there before, then the exchanges of the    *)
(* chats cs, saved ones of the thread's owner.                             *)
ChatMadeOf(list, th, who, cs) ==
    LET n == Len(History!Old(th))
    IN  /\ Len(list) = n + 2 * Len(cs)
        /\ \A i \in 1 .. n : list[i] = History!Old(th)[i]
        /\ \A k \in 1 .. Len(cs) :
             /\ list[n + 2 * k - 1] = <<cs[k], "user">>
             /\ list[n + 2 * k] = <<cs[k], "ai">>
             /\ cs[k] \in saved /\ ThreadOf[cs[k]] = th /\ OwnerOf[cs[k]] = who
        /\ \A j, k \in 1 .. Len(cs) : cs[j] = cs[k] => j = k

ChatMade(list, th, who) ==
    list \in Seq(History!Message) /\ \E cs \in Seq(Chats) : ChatMadeOf(list, th, who, cs)

ChatsOf(list) == {m[1] : m \in History!ToSet(list)} \cap Chats

(* x was saved in the thread of c, and it is in the list or another chat   *)
(* of the thread was saving when it was.                                   *)
ChatKeptOrOverlapped(x, list) ==
    x \in ChatsOf(list)
        \/ \E d \in saved \ {x} :
             ThreadOf[d] = ThreadOf[x] /\ x \notin before[d] /\ d \notin before[x]

ChatInThread == {"serve", "stream", "append", "write"}

ChatTypes ==
    /\ chatPc \in [Chats -> History!Phases]
    /\ DOMAIN rows = Threads
    /\ copy \in [Chats -> Seq(History!Message)]
    /\ saved \subseteq Chats /\ before \in [Chats -> SUBSET saved]
    /\ chatFaults \in 0 .. ChatFaults

ChatRowsMade ==
    \A th \in Threads :
        /\ \A r, q \in rows[th] : r = q
        /\ \A r \in rows[th] : r = History!Row(r.owner, r.messages)
             /\ ChatMade(r.messages, th, r.owner)
        /\ Existing[th] # {} => rows[th] # {}

(* A chat past its lookups has a thread of its own user; one that is about *)
(* to write has a list of that thread.                                     *)
ChatOwnInv(c) ==
    /\ chatPc[c] \in ChatInThread => \E r \in History!Found(c) : History!Mine(c, r)
    /\ c \in saved => chatPc[c] = "ended"
    /\ chatPc[c] = "write" =>
         /\ ChatMade(copy[c], ThreadOf[c], OwnerOf[c])
         /\ \A x \in before[c] : ThreadOf[x] = ThreadOf[c] => ChatKeptOrOverlapped(x, copy[c])

ChatKept ==
    \A th \in Threads : \A r \in rows[th] : \A x \in saved :
        ThreadOf[x] = th => ChatKeptOrOverlapped(x, r.messages)

ChatInv ==
    /\ ChatTypes /\ ChatRowsMade
    /\ \A c \in Chats : ChatOwnInv(c)
    /\ ChatKept
    /\ \A x \in saved : rows[ThreadOf[x]] # {}

-----------------------------------------------------------------------------
(* Lists *)

LEMMA ChatOldType ==
    ASSUME NEW th \in Threads
    PROVE  /\ History!Old(th) \in Seq({"seed"} \X {"user", "ai"})
           /\ \A r \in Existing[th] : r.messages = History!Old(th)
  BY ServicesAssumption DEF History!ChatAssumption, History!Old

(* A list that was there, or is empty, is made of no exchanges.            *)
LEMMA ChatMadeAtFirst ==
    ASSUME NEW th \in Threads, NEW who
    PROVE  ChatMade(History!Old(th), th, who)
<1>1. History!Old(th) \in Seq(History!Message)
  BY ChatOldType DEF History!Message
<1>2. <<>> \in Seq(Chats) /\ Len(<<>>) = 0
  OBVIOUS
<1>3. ChatMadeOf(History!Old(th), th, who, <<>>)
  BY <1>1, <1>2 DEF ChatMadeOf
<1> QED
  BY <1>1, <1>2, <1>3 DEF ChatMade

(* A list of made exchanges stays one when more chats are saved.           *)
LEMMA ChatMadeStays ==
    ASSUME NEW list, NEW th, NEW who, ChatMade(list, th, who), saved \subseteq saved'
    PROVE  ChatMade(list, th, who)'
  BY DEF ChatMade, ChatMadeOf

LEMMA ChatKeptStays ==
    ASSUME NEW x, NEW list, ChatKeptOrOverlapped(x, list), saved \subseteq saved',
           \A d \in saved \cup {x} : before'[d] = before[d]
    PROVE  ChatKeptOrOverlapped(x, list)'
  BY DEF ChatKeptOrOverlapped, ChatsOf

(* Every index behind the first n belongs to one of m pairs.               *)
LEMMA ChatPairOfIndex ==
    ASSUME NEW n \in Nat, NEW m \in Nat, NEW i \in n + 1 .. n + 2 * m
    PROVE  \E k \in 1 .. m : i = n + 2 * k \/ i = n + 2 * k - 1
<1> DEFINE d == i - n
           k == (d + 1) \div 2
<1>1. d \in 1 .. 2 * m
  OBVIOUS
<1>2. k \in 1 .. m /\ (d = 2 * k \/ d = 2 * k - 1)
  BY <1>1
<1> QED
  BY <1>2

(* The chats of a made list are the ones of its exchanges.                 *)
LEMMA ChatsOfMade ==
    ASSUME NEW th \in Threads, NEW list, NEW who, NEW cs \in Seq(Chats),
           list \in Seq(History!Message), ChatMadeOf(list, th, who, cs)
    PROVE  ChatsOf(list) = {cs[k] : k \in 1 .. Len(cs)}
<1> DEFINE n == Len(History!Old(th))
<1>1. n \in Nat /\ Len(cs) \in Nat /\ Len(list) = n + 2 * Len(cs)
  BY ChatOldType DEF ChatMadeOf
<1>2. ASSUME NEW i \in 1 .. Len(list), list[i][1] \in Chats
      PROVE  \E k \in 1 .. Len(cs) : list[i][1] = cs[k]
  <2>1. CASE i <= n
    <3>1. list[i] = History!Old(th)[i] /\ History!Old(th)[i] \in {"seed"} \X {"user", "ai"}
      BY <1>1, <2>1, ChatOldType DEF ChatMadeOf
    <3>2. list[i][1] = "seed"
      BY <3>1
    <3> QED
      BY <1>2, <3>2, ServicesAssumption DEF History!ChatAssumption
  <2>2. CASE i > n
    <3>1. i \in n + 1 .. n + 2 * Len(cs)
      BY <1>1, <2>2
    <3>2. PICK k \in 1 .. Len(cs) : i = n + 2 * k \/ i = n + 2 * k - 1
      BY <1>1, <3>1, ChatPairOfIndex
    <3>3. list[n + 2 * k] = <<cs[k], "ai">> /\ list[n + 2 * k - 1] = <<cs[k], "user">>
      BY <3>2 DEF ChatMadeOf
    <3> QED
      BY <3>2, <3>3
  <2> QED
    BY <1>1, <2>1, <2>2
<1>3. ASSUME NEW k \in 1 .. Len(cs)
      PROVE  cs[k] \in Chats /\ \E i \in 1 .. Len(list) : list[i][1] = cs[k]
  <2>1. n + 2 * k \in 1 .. Len(list)
    BY <1>1
  <2>2. list[n + 2 * k] = <<cs[k], "ai">>
    BY DEF ChatMadeOf
  <2> QED
    BY <2>1, <2>2
<1>4. History!ToSet(list) = {list[i] : i \in 1 .. Len(list)}
  BY DEF History!ToSet
<1> HIDE DEF n
<1>5. \A c \in ChatsOf(list) : \E k \in 1 .. Len(cs) : c = cs[k]
  BY <1>2, <1>4 DEF ChatsOf
<1>6. \A k \in 1 .. Len(cs) : cs[k] \in ChatsOf(list)
  BY <1>3, <1>4 DEF ChatsOf
<1> QED
  BY <1>5, <1>6

(* One more chat's exchange at the end of a list.                          *)
LEMMA ChatMadeAppend ==
    ASSUME ChatInv, NEW c \in Chats, NEW list, ChatMade(list, ThreadOf[c], OwnerOf[c]),
           c \notin saved, saved' = saved \cup {c}
    PROVE  /\ ChatMade(list \o History!Pair(c), ThreadOf[c], OwnerOf[c])'
           /\ ChatsOf(list \o History!Pair(c)) = ChatsOf(list) \cup {c}
<1> DEFINE th == ThreadOf[c]
           who == OwnerOf[c]
           n == Len(History!Old(th))
           more == list \o History!Pair(c)
<1>1. th \in Threads /\ n \in Nat
  BY ChatOldType, ServicesAssumption DEF History!ChatAssumption
<1>2. PICK cs \in Seq(Chats) : ChatMadeOf(list, th, who, cs)
  BY DEF ChatMade
<1>3. list \in Seq(History!Message) /\ History!Pair(c) \in Seq(History!Message)
        /\ Len(History!Pair(c)) = 2
      /\ History!Pair(c)[1] = <<c, "user">> /\ History!Pair(c)[2] = <<c, "ai">>
  BY DEF ChatMade, History!Pair, History!Message
<1>4. /\ more \in Seq(History!Message) /\ Len(more) = Len(list) + 2
      /\ \A i \in 1 .. Len(list) : more[i] = list[i]
      /\ more[Len(list) + 1] = <<c, "user">> /\ more[Len(list) + 2] = <<c, "ai">>
  <2> DEFINE pair == History!Pair(c)
  <2>1. list \in Seq(History!Message) /\ pair \in Seq(History!Message) /\ Len(pair) = 2
          /\ Len(list) \in Nat
        /\ pair[1] = <<c, "user">> /\ pair[2] = <<c, "ai">>
    BY <1>3
  <2> HIDE DEF pair
  <2>2. /\ list \o pair \in Seq(History!Message) /\ Len(list \o pair) = Len(list) + Len(pair)
        /\ \A i \in 1 .. Len(list) + Len(pair) :
             (list \o pair)[i] = IF i <= Len(list) THEN list[i] ELSE pair[i - Len(list)]
    BY <2>1, ConcatProperties
  <2>3. more = list \o pair
    BY DEF pair
  <2> HIDE DEF more
  <2> QED
    BY <2>1, <2>2, <2>3
<1> DEFINE ds == Append(cs, c)
<1>5. /\ ds \in Seq(Chats) /\ Len(ds) = Len(cs) + 1 /\ ds[Len(cs) + 1] = c
      /\ \A k \in 1 .. Len(cs) : ds[k] = cs[k]
  OBVIOUS
<1>6. /\ Len(list) = n + 2 * Len(cs) /\ Len(cs) \in Nat
      /\ \A i \in 1 .. n : list[i] = History!Old(th)[i]
      /\ \A k \in 1 .. Len(cs) :
           /\ list[n + 2 * k - 1] = <<cs[k], "user">>
           /\ list[n + 2 * k] = <<cs[k], "ai">>
           /\ cs[k] \in saved /\ ThreadOf[cs[k]] = th /\ OwnerOf[cs[k]] = who
      /\ \A j, k \in 1 .. Len(cs) : cs[j] = cs[k] => j = k
  BY <1>2 DEF ChatMadeOf
<1> HIDE DEF more, ds
<1>7. ASSUME NEW k \in 1 .. Len(ds)
      PROVE  /\ more[n + 2 * k - 1] = <<ds[k], "user">>
             /\ more[n + 2 * k] = <<ds[k], "ai">>
             /\ ds[k] \in saved' /\ ThreadOf[ds[k]] = th /\ OwnerOf[ds[k]] = who
  <2>1. CASE k \in 1 .. Len(cs)
    <3> DEFINE a == n + 2 * k - 1
               b == n + 2 * k
    <3>1. a \in 1 .. Len(list) /\ b \in 1 .. Len(list)
      BY <1>1, <1>6, <2>1
    <3>2. list[a] = <<cs[k], "user">> /\ list[b] = <<cs[k], "ai">>
      BY <1>6, <2>1
    <3>3. ds[k] = cs[k] /\ ds[k] \in saved' /\ ThreadOf[ds[k]] = th /\ OwnerOf[ds[k]] = who
      BY <1>5, <1>6, <2>1
    <3> HIDE DEF a, b
    <3>4. more[a] = list[a] /\ more[b] = list[b]
      BY <1>4, <3>1
    <3> QED
      BY <3>2, <3>3, <3>4 DEF a, b
  <2>2. CASE k = Len(cs) + 1
    <3> DEFINE a == n + 2 * k - 1
               b == n + 2 * k
    <3>1. a = Len(list) + 1 /\ b = Len(list) + 2
      BY <1>1, <1>6, <2>2
    <3>2. ds[k] = c /\ ds[k] \in saved'
      BY <1>5, <2>2
    <3> HIDE DEF a, b
    <3>3. more[a] = <<c, "user">> /\ more[b] = <<c, "ai">>
      BY <1>4, <3>1
    <3> QED
      BY <3>2, <3>3 DEF a, b
  <2> QED
    BY <1>5, <1>6, <2>1, <2>2
<1>8. ASSUME NEW j \in 1 .. Len(ds), NEW k \in 1 .. Len(ds), ds[j] = ds[k] PROVE j = k
  <2>1. (j \in 1 .. Len(cs) \/ j = Len(cs) + 1) /\ (k \in 1 .. Len(cs) \/ k = Len(cs) + 1)
    BY <1>5, <1>6
  <2>2. \A i \in 1 .. Len(cs) : ds[i] \in saved /\ ds[i] = cs[i]
    BY <1>5, <1>6
  <2> QED
    BY <1>5, <1>6, <1>8, <2>1, <2>2
<1>9. Len(more) = n + 2 * Len(ds) /\ \A i \in 1 .. n : more[i] = History!Old(th)[i]
  BY <1>1, <1>4, <1>5, <1>6
<1>10. ChatMadeOf(more, th, who, ds)'
  BY <1>7, <1>8, <1>9 DEF ChatMadeOf
<1>11. ChatsOf(more) = ChatsOf(list) \cup {c}
  <2>0. History!ToSet(more) = {more[i] : i \in 1 .. Len(list) + 2}
          /\ History!ToSet(list) = {list[i] : i \in 1 .. Len(list)}
        /\ Len(list) \in Nat
    <3>1. DOMAIN more = 1 .. Len(more) /\ DOMAIN list = 1 .. Len(list) /\ Len(list) \in Nat
      BY <1>3, <1>4
    <3> QED
      BY <1>4, <3>1 DEF History!ToSet
  <2>1. \A m \in History!ToSet(more) :
          m \in History!ToSet(list) \/ m = <<c, "user">> \/ m = <<c, "ai">>
    <3>1. ASSUME NEW i \in 1 .. Len(list) + 2
          PROVE  more[i] \in History!ToSet(list) \/ more[i] = <<c, "user">> \/ more[i] = <<c, "ai">>
      <4>1. i \in 1 .. Len(list) \/ i = Len(list) + 1 \/ i = Len(list) + 2
        BY <2>0
      <4> QED
        BY <1>4, <2>0, <4>1
    <3> QED
      BY <2>0, <3>1
  <2>2. <<c, "ai">> \in History!ToSet(more) /\ History!ToSet(list) \subseteq History!ToSet(more)
    <3>1. Len(list) + 2 \in 1 .. Len(list) + 2 /\ 1 .. Len(list) \subseteq 1 .. Len(list) + 2
      BY <2>0
    <3> QED
      BY <1>4, <2>0, <3>1
  <2> QED
    BY <2>1, <2>2 DEF ChatsOf
<1> QED
  BY <1>4, <1>5, <1>10, <1>11 DEF ChatMade, more

-----------------------------------------------------------------------------
(* Steps *)

LEMMA ChatInitInv == History!Init => ChatInv
<1> SUFFICES ASSUME History!Init PROVE ChatInv
  OBVIOUS
<1> USE DEF History!Init
<1>1. ChatTypes
  BY ServicesAssumption DEF History!ChatAssumption, ChatTypes, History!Phases, History!Over
<1>2. ChatRowsMade
  BY ServicesAssumption, ChatMadeAtFirst, ChatOldType DEF History!ChatAssumption, ChatRowsMade
<1>3. \A c \in Chats : ChatOwnInv(c)
  BY DEF ChatOwnInv, ChatInThread
<1> QED
  BY <1>1, <1>2, <1>3 DEF ChatInv, ChatKept

(* A step that only moves chats on, out of threads or along in them.       *)
LEMMA ChatMoveInv ==
    ASSUME ChatInv, chatPc' \in [Chats -> History!Phases], UNCHANGED <<rows, copy, saved, before>>,
           chatFaults' \in 0 .. ChatFaults,
           \A c \in Chats :
             \/ chatPc'[c] = chatPc[c]
             \/ chatPc'[c] # "write" /\ c \notin saved
                  /\ (chatPc'[c] \in ChatInThread => \E r \in History!Found(c) : History!Mine(c, r))
    PROVE  ChatInv'
<1>1. ChatTypes'
  BY DEF ChatInv, ChatTypes
<1>2. ChatRowsMade'
  BY ChatMadeStays DEF ChatInv, ChatRowsMade
<1>3. ASSUME NEW c \in Chats PROVE ChatOwnInv(c)'
  <2>1. ChatMade(copy[c], ThreadOf[c], OwnerOf[c]) => ChatMade(copy[c], ThreadOf[c], OwnerOf[c])'
    BY ChatMadeStays
  <2>2. \A x \in before[c] : ChatKeptOrOverlapped(x, copy[c]) => ChatKeptOrOverlapped(x, copy[c])'
    BY ChatKeptStays
  <2>3. ChatOwnInv(c)
    BY DEF ChatInv
  <2>4. chatPc'[c] = "write" => chatPc[c] = "write"
    OBVIOUS
  <2>5. c \in saved => chatPc'[c] = "ended"
    BY <2>3 DEF ChatOwnInv
  <2>6. chatPc'[c] \in ChatInThread => \E r \in rows'[ThreadOf[c]] : History!Mine(c, r)
    BY <2>3 DEF ChatOwnInv, History!Found
  <2> QED
    BY <2>1, <2>2, <2>3, <2>4, <2>5, <2>6 DEF ChatOwnInv, History!Found
<1>4. ChatKept' /\ \A x \in saved' : rows'[ThreadOf[x]] # {}
  BY ChatKeptStays DEF ChatInv, ChatKept
<1> QED
  BY <1>1, <1>2, <1>3, <1>4 DEF ChatInv

LEMMA ChatStutterInv == ChatInv /\ UNCHANGED History!vars => ChatInv'
  BY ChatMoveInv DEF History!vars, ChatInv, ChatTypes

LEMMA ChatArriveInv ==
    ASSUME ChatInv, NEW c \in Chats, History!Arrive(c) \/ History!Stream(c) \/ History!NoAnswer(c)
    PROVE  ChatInv'
<1>1. PICK p \in {"route", "append", "failed"} :
         History!Goto(c, p) /\ (p = "append" => chatPc[c] = "stream") /\ chatPc[c] # "ended"
  BY DEF History!Arrive, History!Stream, History!NoAnswer
<1>2. chatPc' \in [Chats -> History!Phases]
  BY <1>1 DEF History!Goto, ChatInv, ChatTypes, History!Phases, History!Over
<1>3. \A d \in Chats : d # c => chatPc'[d] = chatPc[d]
  BY <1>1 DEF History!Goto, ChatInv, ChatTypes
<1>4. chatPc'[c] = p /\ c \notin saved
  BY <1>1 DEF History!Goto, ChatInv, ChatTypes, ChatOwnInv
<1>5. p = "append" => \E r \in History!Found(c) : History!Mine(c, r)
  BY <1>1 DEF ChatInv, ChatOwnInv, ChatInThread
<1>6. UNCHANGED <<rows, copy, saved, before, chatFaults>> /\ chatFaults \in 0 .. ChatFaults
  BY DEF History!Arrive, History!Stream, History!NoAnswer, ChatInv, ChatTypes
<1> QED
  BY <1>1, <1>2, <1>3, <1>4, <1>5, <1>6, ChatMoveInv DEF ChatInThread

LEMMA ChatLookUpInv ==
    ASSUME ChatInv, NEW c \in Chats, History!LookUp(c)
    PROVE  ChatInv'
<1>1. PICK p \in {"refused", "serve", "stream", "create"} :
         History!Goto(c, p) /\ (p \in {"serve", "stream"}
           => \E r \in History!Found(c) : History!Mine(c, r))
  BY DEF History!LookUp
<1>2. chatPc' \in [Chats -> History!Phases]
  BY <1>1 DEF History!Goto, ChatInv, ChatTypes, History!Phases, History!Over
<1>3. \A d \in Chats : d # c => chatPc'[d] = chatPc[d]
  BY <1>1 DEF History!Goto, ChatInv, ChatTypes
<1>4. chatPc'[c] = p /\ c \notin saved
  BY <1>1 DEF History!Goto, History!LookUp, ChatInv, ChatTypes, ChatOwnInv
<1>5. UNCHANGED <<rows, copy, saved, before, chatFaults>> /\ chatFaults \in 0 .. ChatFaults
  BY DEF History!LookUp, ChatInv, ChatTypes
<1> QED
  BY <1>1, <1>2, <1>3, <1>4, <1>5, ChatMoveInv DEF ChatInThread

LEMMA ChatFailsInv ==
    ASSUME ChatInv, History!Crash \/ \E c \in Chats : History!CommitFails(c)
    PROVE  ChatInv'
<1>1. UNCHANGED <<rows, copy, saved, before>> /\ chatFaults' \in 0 .. ChatFaults
  BY ServicesAssumption DEF History!Crash, History!CommitFails, ChatInv, ChatTypes,
       History!ChatAssumption
<1>2. chatPc' \in [Chats -> History!Phases]
  BY DEF History!Crash, History!CommitFails, History!Goto, ChatInv, ChatTypes, History!Phases,
       History!Over
<1>3. \A d \in Chats : chatPc'[d] = chatPc[d] \/ (chatPc'[d] = "failed" /\ chatPc[d] # "ended")
  BY DEF History!Crash, History!CommitFails, History!Goto, ChatInv, ChatTypes, History!Over
<1>4. \A d \in saved : chatPc[d] = "ended"
  BY DEF ChatInv, ChatTypes, ChatOwnInv
<1> QED
  BY <1>1, <1>2, <1>3, <1>4, ChatMoveInv DEF ChatInThread

LEMMA ChatCreateInv ==
    ASSUME ChatInv, NEW c \in Chats, History!Create(c)
    PROVE  ChatInv'
<1>1. CASE History!Found(c) # {}
  <2>1. History!Goto(c, "failed") /\ UNCHANGED <<rows, copy, saved, before, chatFaults>>
          /\ c \notin saved
    BY <1>1 DEF History!Create, ChatInv, ChatTypes, ChatOwnInv
  <2>2. chatPc' \in [Chats -> History!Phases] /\ \A d \in Chats : d # c => chatPc'[d] = chatPc[d]
    BY <2>1 DEF History!Goto, ChatInv, ChatTypes, History!Phases, History!Over
  <2>3. chatPc'[c] = "failed" /\ chatFaults \in 0 .. ChatFaults
    BY <2>1 DEF History!Goto, ChatInv, ChatTypes
  <2> QED
    BY <2>1, <2>2, <2>3, ChatMoveInv DEF ChatInThread
<1>2. CASE History!Found(c) = {}
  <2> DEFINE th == ThreadOf[c]
             row == History!Row(OwnerOf[c], <<>>)
  <2>1. th \in Threads /\ rows[th] = {}
    BY <1>2, ServicesAssumption DEF History!ChatAssumption, History!Found
  <2>2. /\ rows' = [rows EXCEPT ![th] = {row}]
        /\ chatPc' = [chatPc EXCEPT ![c] = "serve"] /\ chatPc[c] = "create"
        /\ UNCHANGED <<copy, saved, before, chatFaults>>
    BY <1>2 DEF History!Create, History!Goto
  <2>3. History!Old(th) = <<>>
    BY <2>1 DEF ChatInv, ChatRowsMade, History!Old
  <2>4. row.owner = OwnerOf[c] /\ row.messages = <<>> /\ row = History!Row(row.owner, row.messages)
    BY DEF History!Row
  <2> HIDE DEF row
  <2>5. DOMAIN rows' = Threads /\ rows'[th] = {row}
          /\ \A t \in Threads : t # th => rows'[t] = rows[t]
    BY <2>1, <2>2 DEF ChatInv, ChatTypes
  <2>6. ChatTypes'
    BY <2>2, <2>5 DEF ChatInv, ChatTypes, History!Phases, History!Over
  <2>7. ChatRowsMade'
    <3>1. ChatMade(<<>>, th, OwnerOf[c])
      BY <2>1, <2>3, ChatMadeAtFirst
    <3>2. ChatMade(<<>>, th, OwnerOf[c])'
      BY <2>2, <3>1, ChatMadeStays
    <3>3. ASSUME NEW t \in Threads, NEW r \in rows[t]
          PROVE  ChatMade(r.messages, t, r.owner)'
      BY <2>2, <3>3, ChatMadeStays DEF ChatInv, ChatRowsMade
    <3> QED
      BY <2>4, <2>5, <3>2, <3>3 DEF ChatInv, ChatRowsMade
  <2>8. ASSUME NEW d \in Chats PROVE ChatOwnInv(d)'
    <3>1. CASE d = c
      <4>1. chatPc'[c] = "serve" /\ c \notin saved'
        BY <2>2 DEF ChatInv, ChatTypes, ChatOwnInv
      <4>2. \E r \in rows'[th] : History!Mine(c, r)
        BY <2>4, <2>5 DEF History!Mine
      <4> QED
        BY <3>1, <4>1, <4>2 DEF ChatOwnInv, History!Found
    <3>2. CASE d # c
      <4>1. chatPc'[d] = chatPc[d]
        BY <2>2, <3>2 DEF ChatInv, ChatTypes
      <4>2. chatPc[d] \in ChatInThread => ThreadOf[d] # th
        BY <2>1 DEF ChatInv, ChatOwnInv, History!Found
      <4>3. ThreadOf[d] \in Threads
        BY ServicesAssumption DEF History!ChatAssumption
      <4> QED
        <5>1. ChatOwnInv(d) /\ copy'[d] = copy[d] /\ before'[d] = before[d]
          BY <2>2 DEF ChatInv
        <5>2. ChatMade(copy[d], ThreadOf[d], OwnerOf[d])
                => ChatMade(copy[d], ThreadOf[d], OwnerOf[d])'
          BY <2>2, ChatMadeStays
        <5>3. \A x \in before[d] : ChatKeptOrOverlapped(x, copy[d])
                => ChatKeptOrOverlapped(x, copy[d])'
          BY <2>2, ChatKeptStays
        <5>4. chatPc'[d] \in ChatInThread => \E r \in rows'[ThreadOf[d]] : History!Mine(d, r)
          BY <2>5, <4>1, <4>2, <4>3, <5>1 DEF ChatOwnInv, History!Found
        <5> QED
          BY <2>2, <4>1, <5>1, <5>2, <5>3, <5>4 DEF ChatOwnInv, History!Found
    <3> QED
      BY <3>1, <3>2
  <2>9. \A x \in saved : ThreadOf[x] # th
    BY <2>1 DEF ChatInv
  <2>10. ChatKept'
    BY <2>2, <2>5, <2>9, ChatKeptStays DEF ChatInv, ChatKept
  <2>11. \A x \in saved' : rows'[ThreadOf[x]] # {}
    BY <2>2, <2>5, <2>9, ServicesAssumption DEF History!ChatAssumption, ChatInv, ChatTypes
  <2> QED
    BY <2>6, <2>7, <2>8, <2>10, <2>11 DEF ChatInv
<1> QED
  BY <1>1, <1>2

LEMMA ChatReadListInv ==
    ASSUME ChatInv, NEW c \in Chats, History!ReadList(c)
    PROVE  ChatInv'
<1>1. PICK r \in History!Found(c) : copy' = [copy EXCEPT ![c] = r.messages]
  BY DEF History!ReadList
<1>2. /\ before' = [before EXCEPT ![c] = saved] /\ chatPc' = [chatPc EXCEPT ![c] = "write"]
      /\ UNCHANGED <<rows, saved, chatFaults>> /\ chatPc[c] = "append"
  BY DEF History!ReadList, History!Goto
<1>3. ThreadOf[c] \in Threads /\ r \in rows[ThreadOf[c]] /\ c \notin saved
  BY <1>2, ServicesAssumption DEF History!ChatAssumption, History!Found, ChatInv, ChatOwnInv
<1>4. ChatMade(r.messages, ThreadOf[c], OwnerOf[c])
  <2>1. r.owner = OwnerOf[c]
    BY <1>2, <1>3 DEF ChatInv, ChatRowsMade, ChatOwnInv, ChatInThread, History!Found, History!Mine
  <2> QED
    BY <1>3, <2>1 DEF ChatInv, ChatRowsMade
<1>5. ChatTypes'
  BY <1>1, <1>2, <1>4 DEF ChatInv, ChatTypes, History!Phases, ChatMade
<1>6. ChatRowsMade'
  BY <1>2, ChatMadeStays DEF ChatInv, ChatRowsMade
<1>7. ASSUME NEW x \in saved, NEW list, ChatKeptOrOverlapped(x, list)
      PROVE  ChatKeptOrOverlapped(x, list)'
  BY <1>2, <1>3, <1>7 DEF ChatKeptOrOverlapped, ChatInv, ChatTypes, ChatsOf
<1>8. ASSUME NEW d \in Chats PROVE ChatOwnInv(d)'
  <2>1. CASE d = c
    <3>1. chatPc'[c] = "write" /\ copy'[c] = r.messages /\ before'[c] = saved
      BY <1>1, <1>2 DEF ChatInv, ChatTypes
    <3>2. \A x \in saved : ThreadOf[x] = ThreadOf[c] => ChatKeptOrOverlapped(x, r.messages)'
      BY <1>3, <1>7 DEF ChatInv, ChatKept
    <3>3. ChatMade(r.messages, ThreadOf[c], OwnerOf[c])'
      BY <1>2, <1>4, ChatMadeStays
    <3>4. \E q \in History!Found(c) : History!Mine(c, q)
      BY <1>2 DEF ChatInv, ChatOwnInv, ChatInThread
    <3> QED
      BY <1>2, <1>3, <2>1, <3>1, <3>2, <3>3, <3>4 DEF ChatOwnInv, History!Found
  <2>2. CASE d # c
    <3>1. chatPc'[d] = chatPc[d] /\ copy'[d] = copy[d] /\ before'[d] = before[d]
            /\ before[d] \subseteq saved
      BY <1>1, <1>2, <2>2 DEF ChatInv, ChatTypes
    <3>2. chatPc[d] = "write" => ChatMade(copy[d], ThreadOf[d], OwnerOf[d])'
      BY <1>2, <3>1, ChatMadeStays DEF ChatInv, ChatOwnInv
    <3> QED
      BY <1>2, <1>7, <3>1, <3>2 DEF ChatInv, ChatOwnInv, History!Found
  <2> QED
    BY <2>1, <2>2
<1>9. ChatKept' /\ \A x \in saved' : rows'[ThreadOf[x]] # {}
  BY <1>2, <1>7 DEF ChatInv, ChatKept
<1> QED
  BY <1>5, <1>6, <1>8, <1>9 DEF ChatInv

LEMMA ChatWriteListInv ==
    ASSUME ChatInv, NEW c \in Chats, History!WriteList(c)
    PROVE  ChatInv'
<1> DEFINE th == ThreadOf[c]
<1> PICK list : list = copy[c] \o History!Pair(c)
  OBVIOUS
<1> PICK row : row = History!Row(OwnerOf[c], list)
  OBVIOUS
<1>1. th \in Threads /\ c \notin saved /\ chatPc[c] = "write"
  BY ServicesAssumption DEF History!ChatAssumption, History!WriteList, ChatInv, ChatOwnInv
<1>2. \A r \in rows[th] : r.owner = OwnerOf[c]
  BY <1>1 DEF ChatInv, ChatRowsMade, ChatOwnInv, ChatInThread, History!Found, History!Mine
<1>3. /\ rows' = [rows EXCEPT ![th] = {row}]
      /\ saved' = saved \cup {c} /\ chatPc' = [chatPc EXCEPT ![c] = "ended"]
      /\ UNCHANGED <<copy, before, chatFaults>>
  BY <1>2 DEF History!WriteList, History!Overwrite, History!Goto, History!Found
<1>4. /\ ChatMade(list, th, OwnerOf[c])'
      /\ ChatsOf(list) = ChatsOf(copy[c]) \cup {c}
  BY <1>1, <1>3, ChatMadeAppend DEF ChatInv, ChatOwnInv
<1>5. row.owner = OwnerOf[c] /\ row.messages = list /\ row = History!Row(row.owner, row.messages)
  BY DEF History!Row
<1>6. DOMAIN rows' = Threads /\ rows'[th] = {row} /\ \A t \in Threads : t # th => rows'[t] = rows[t]
  BY <1>1, <1>3 DEF ChatInv, ChatTypes
<1>7. ChatTypes'
  BY <1>3, <1>6 DEF ChatInv, ChatTypes, History!Phases, History!Over
<1>8. ChatRowsMade'
  <2>1. ASSUME NEW t \in Threads, NEW r \in rows[t]
        PROVE  ChatMade(r.messages, t, r.owner)'
    BY <1>3, <2>1, ChatMadeStays DEF ChatInv, ChatRowsMade
  <2>2. ChatMade(row.messages, th, row.owner)'
    BY <1>4, <1>5
  <2>3. ASSUME NEW t \in Threads
        PROVE  /\ \A r, q \in rows'[t] : r = q
               /\ \A r \in rows'[t] : r = History!Row(r.owner, r.messages)
                    /\ ChatMade(r.messages, t, r.owner)'
               /\ Existing[t] # {} => rows'[t] # {}
    <3>1. CASE t = th
      BY <1>5, <1>6, <2>2, <3>1
    <3>2. CASE t # th
      BY <1>6, <2>1, <3>2 DEF ChatInv, ChatRowsMade
    <3> QED
      BY <3>1, <3>2
  <2> QED
    BY <2>3 DEF ChatRowsMade
<1>9. ASSUME NEW x \in saved, NEW l, ChatKeptOrOverlapped(x, l) PROVE ChatKeptOrOverlapped(x, l)'
  BY <1>3, <1>9 DEF ChatKeptOrOverlapped, ChatsOf
<1>10. ASSUME NEW d \in Chats PROVE ChatOwnInv(d)'
  <2>1. CASE d = c
    BY <1>3, <2>1 DEF ChatInv, ChatTypes, ChatOwnInv, ChatInThread
  <2>2. CASE d # c
    <3>1. chatPc'[d] = chatPc[d] /\ copy'[d] = copy[d] /\ before'[d] = before[d]
            /\ before[d] \subseteq saved
          /\ (d \in saved' <=> d \in saved)
      BY <1>3, <2>2 DEF ChatInv, ChatTypes
    <3>2. chatPc[d] = "write" => ChatMade(copy[d], ThreadOf[d], OwnerOf[d])'
      BY <1>3, <3>1, ChatMadeStays DEF ChatInv, ChatOwnInv
    <3>3. ThreadOf[d] \in Threads
      BY ServicesAssumption DEF History!ChatAssumption
    <3>4. chatPc[d] \in ChatInThread => \E r \in rows'[ThreadOf[d]] : History!Mine(d, r)
      <4>1. CASE ThreadOf[d] # th
        BY <1>6, <3>3, <4>1 DEF ChatInv, ChatOwnInv, History!Found
      <4>2. CASE ThreadOf[d] = th
        BY <1>2, <1>5, <1>6, <4>2 DEF ChatInv, ChatOwnInv, History!Found, History!Mine
      <4> QED
        BY <4>1, <4>2
    <3>5. chatPc[d] = "write" =>
            \A x \in before[d] : ThreadOf[x] = ThreadOf[d] => ChatKeptOrOverlapped(x, copy[d])'
      BY <1>9, <3>1 DEF ChatInv, ChatOwnInv
    <3>6. d \in saved => chatPc[d] = "ended"
      BY DEF ChatInv, ChatOwnInv
    <3> QED
      BY <3>1, <3>2, <3>4, <3>5, <3>6 DEF ChatOwnInv, History!Found
  <2> QED
    BY <2>1, <2>2
<1>11. ChatKept'
  <2> SUFFICES ASSUME NEW t \in Threads, NEW r \in rows'[t], NEW x \in saved', ThreadOf[x] = t
               PROVE  ChatKeptOrOverlapped(x, r.messages)'
    BY DEF ChatKept
  <2>1. CASE t # th
    <3>1. x \in saved /\ r \in rows[t]
      BY <1>3, <1>6, <2>1
    <3> QED
      BY <1>9, <3>1 DEF ChatInv, ChatKept
  <2>2. CASE t = th
    <3>1. r.messages = list
      BY <1>5, <1>6, <2>2
    <3>2. CASE x \in ChatsOf(list)
      BY <3>1, <3>2 DEF ChatKeptOrOverlapped, ChatsOf
    <3>3. CASE x \notin ChatsOf(list)
      <4>1. x # c /\ x \in saved /\ x \notin ChatsOf(copy[c])
        BY <1>3, <1>4, <3>3
      <4>2. CASE x \in before[c]
        <5>1. ChatKeptOrOverlapped(x, copy[c])
          BY <1>1, <2>2, <4>2 DEF ChatInv, ChatOwnInv
        <5> QED
          BY <1>3, <4>1, <5>1 DEF ChatKeptOrOverlapped
      <4>3. CASE x \notin before[c]
        <5>1. c \notin before[x]
          BY <1>1, <4>1 DEF ChatInv, ChatTypes
        <5> QED
          BY <1>3, <2>2, <4>1, <4>3, <5>1 DEF ChatKeptOrOverlapped
      <4> QED
        BY <4>2, <4>3
    <3> QED
      BY <3>2, <3>3
  <2> QED
    BY <2>1, <2>2
<1>12. \A x \in saved' : rows'[ThreadOf[x]] # {}
  BY <1>3, <1>6, ServicesAssumption DEF History!ChatAssumption, ChatInv, ChatTypes
<1> QED
  BY <1>7, <1>8, <1>10, <1>11, <1>12 DEF ChatInv

LEMMA ChatNextInv == ChatInv /\ [History!Next]_(History!vars) => ChatInv'
  BY ChatArriveInv, ChatLookUpInv, ChatFailsInv, ChatCreateInv, ChatReadListInv, ChatWriteListInv,
       ChatStutterInv DEF History!Next, History!Step

-----------------------------------------------------------------------------
(* What the invariant says of the threads *)

LEMMA ChatInvGivesTypes == ChatInv => History!TypeOK
  BY DEF ChatInv, ChatTypes, History!TypeOK, ChatRowsMade, ChatMade, ChatOwnInv, ChatInThread

LEMMA ChatInvGivesOwn == ChatInv => History!OwnThreadOnly
<1> SUFFICES ASSUME ChatInv, NEW th \in Threads, NEW r \in rows[th], NEW c \in History!ChatsIn(th)
             PROVE  ThreadOf[c] = th /\ OwnerOf[c] = r.owner
  BY DEF History!OwnThreadOnly
<1>1. c \in ChatsOf(r.messages)
  BY DEF ChatInv, ChatRowsMade, History!ChatsIn, ChatsOf
<1>2. PICK cs \in Seq(Chats) : r.messages \in Seq(History!Message)
                                 /\ ChatMadeOf(r.messages, th, r.owner, cs)
  BY DEF ChatInv, ChatRowsMade, ChatMade
<1>3. PICK k \in 1 .. Len(cs) : c = cs[k]
  BY <1>1, <1>2, ChatsOfMade
<1> QED
  BY <1>2, <1>3 DEF ChatMadeOf

LEMMA ChatInvGivesWhole == ChatInv => History!WholeExchanges
<1> SUFFICES ASSUME ChatInv, NEW th \in Threads, NEW r \in rows[th]
             PROVE  LET list == r.messages
                        new == Len(History!Old(th)) + 1 .. Len(list)
                    IN  /\ Len(list) >= Len(History!Old(th))
                        /\ \A i \in DOMAIN History!Old(th) : list[i] = History!Old(th)[i]
                        /\ \A i \in new : (i - Len(History!Old(th))) % 2 = 1 =>
                             i + 1 \in new /\ \E c \in Chats :
                               <<list[i], list[i + 1]>> = History!Pair(c)
                        /\ \A i, j \in new : list[i] = list[j] => i = j
  BY DEF History!WholeExchanges
<1> DEFINE list == r.messages
           n == Len(History!Old(th))
           new == n + 1 .. Len(list)
<1>1. PICK cs \in Seq(Chats) : list \in Seq(History!Message) /\ ChatMadeOf(list, th, r.owner, cs)
  BY DEF ChatInv, ChatRowsMade, ChatMade
<1>2. /\ n \in Nat /\ Len(cs) \in Nat /\ Len(list) = n + 2 * Len(cs)
      /\ DOMAIN History!Old(th) = 1 .. n
      /\ \A i \in 1 .. n : list[i] = History!Old(th)[i]
      /\ \A k \in 1 .. Len(cs) :
           list[n + 2 * k - 1] = <<cs[k], "user">> /\ list[n + 2 * k] = <<cs[k], "ai">>
      /\ \A j, k \in 1 .. Len(cs) : cs[j] = cs[k] => j = k
  BY <1>1, ChatOldType DEF ChatMadeOf
<1> HIDE DEF n, list
<1>3. ASSUME NEW i \in new
      PROVE  \E k \in 1 .. Len(cs) : i = n + 2 * k \/ i = n + 2 * k - 1
  <2>1. i \in n + 1 .. n + 2 * Len(cs)
    BY <1>2
  <2> QED
    BY <1>2, <2>1, ChatPairOfIndex
<1>4. ASSUME NEW i \in new, (i - n) % 2 = 1
      PROVE  i + 1 \in new /\ \E c \in Chats : <<list[i], list[i + 1]>> = History!Pair(c)
  <2>1. PICK k \in 1 .. Len(cs) : i = n + 2 * k - 1
    BY <1>2, <1>3, <1>4
  <2>2. i + 1 = n + 2 * k /\ i + 1 \in new /\ cs[k] \in Chats
    BY <1>2, <2>1
  <2> QED
    BY <1>2, <2>1, <2>2 DEF History!Pair
<1>5. ASSUME NEW i \in new, NEW j \in new, list[i] = list[j] PROVE i = j
  <2>1. PICK k \in 1 .. Len(cs) : i = n + 2 * k \/ i = n + 2 * k - 1
    BY <1>3
  <2>2. PICK m \in 1 .. Len(cs) : j = n + 2 * m \/ j = n + 2 * m - 1
    BY <1>3
  <2>3. /\ list[n + 2 * k - 1] = <<cs[k], "user">> /\ list[n + 2 * k] = <<cs[k], "ai">>
        /\ list[n + 2 * m - 1] = <<cs[m], "user">> /\ list[n + 2 * m] = <<cs[m], "ai">>
    BY <1>2
  <2>4. cs[k] = cs[m] /\ (i = n + 2 * k <=> j = n + 2 * m)
    <3>1. \/ list[i] = <<cs[k], "ai">> /\ i = n + 2 * k
          \/ list[i] = <<cs[k], "user">> /\ i # n + 2 * k
      BY <1>2, <2>1, <2>3
    <3>2. \/ list[j] = <<cs[m], "ai">> /\ j = n + 2 * m
          \/ list[j] = <<cs[m], "user">> /\ j # n + 2 * m
      BY <1>2, <2>2, <2>3
    <3> QED
      BY <1>5, <3>1, <3>2
  <2>5. k = m
    BY <1>2, <2>4
  <2> QED
    BY <1>2, <2>1, <2>2, <2>4, <2>5
<1> QED
  BY <1>2, <1>4, <1>5 DEF n, list

LEMMA ChatInvGivesKept == ChatInv => History!LossNeedsOverlap
<1> SUFFICES ASSUME ChatInv, NEW c \in saved
             PROVE  c \in History!ChatsIn(ThreadOf[c])
                      \/ \E d \in saved \ {c} :
                           ThreadOf[d] = ThreadOf[c] /\ c \notin before[d] /\ d \notin before[c]
  BY DEF History!LossNeedsOverlap
<1>1. ThreadOf[c] \in Threads
  BY ServicesAssumption DEF History!ChatAssumption, ChatInv, ChatTypes
<1>2. PICK r \in rows[ThreadOf[c]] : TRUE
  BY DEF ChatInv
<1>3. ChatKeptOrOverlapped(c, r.messages)
  BY <1>1 DEF ChatInv, ChatKept
<1>4. ChatsOf(r.messages) \subseteq History!ChatsIn(ThreadOf[c])
  BY <1>1 DEF ChatsOf, History!ChatsIn
<1> QED
  BY <1>3, <1>4 DEF ChatKeptOrOverlapped

LEMMA ChatThreadsWhole == ChatInv => ThreadsWhole
  BY ChatInvGivesTypes, ChatInvGivesOwn, ChatInvGivesWhole, ChatInvGivesKept DEF ThreadsWhole

(* Any chats of any users in any threads, with crashes and failing         *)
(* commits: each thread is its owner's, holds whole exchanges, and loses   *)
(* one only to a chat that was saved meanwhile (chat/service.py).          *)
THEOREM WholeThreads == History!Spec => []ThreadsWhole
<1>1. History!Init => ChatInv
  BY ChatInitInv
<1>2. ChatInv /\ [History!Next]_(History!vars) => ChatInv'
  BY ChatNextInv
<1>3. ChatInv => ThreadsWhole
  BY ChatThreadsWhole
<1> QED
  BY <1>1, <1>2, <1>3, PTL DEF History!Spec

-----------------------------------------------------------------------------
(* The dashboard (Dashboard)                                               *)

PagePollRow == [for : (1 .. MaxLogins) \X Pages, phase : {"fetch", "answered", "idle"},
                budget : 0 .. Browser!NotRead, logs : 0 .. Browser!NotRead, aborted : BOOLEAN]
PageDataRow == [for : (1 .. MaxLogins) \X Pages, budget : 0 .. MaxActions, logs : 0 .. MaxActions]
PageActionRow == [token : 1 .. MaxLogins, identity : Nat, done : BOOLEAN]

PageTypes ==
    /\ page \in Pages /\ identity \in Nat /\ login \in BOOLEAN
    /\ issued \in 0 .. MaxLogins /\ token \in 0 .. issued
    /\ due \in {{}, {"poll"}, {"identity", "poll"}}
    /\ owner \in (0 .. MaxLogins) \X Pages /\ owner[1] <= issued
    /\ data \in PageDataRow \cup {Browser!NoData}
    /\ polls \subseteq PagePollRow /\ action \subseteq PageActionRow
    /\ applied \in 0 .. MaxActions
    /\ navigations \in 0 .. MaxNavigations /\ fails \in 0 .. MaxFails

(* What a poll has read is no older than what is shown; only answers that  *)
(* came before an abort are still looked at.                               *)
PageNewer(p) ==
    /\ p.for[1] <= issued
    /\ p.phase = "answered" => p.budget <= applied /\ p.logs <= applied
    /\ p.budget <= applied \/ p.budget = Browser!NotRead
    /\ p.logs <= applied \/ p.logs = Browser!NotRead
    /\ p.aborted => p.phase = "answered"
    /\ ~p.aborted => p.budget >= data.budget /\ p.logs >= data.logs

PagePollsNewer ==
    /\ \A p \in polls : PageNewer(p)
    /\ \A p, q \in Browser!Live : p = q
    /\ data.budget <= applied /\ data.logs <= applied

(* One poll runs for the login and page when nothing is due.               *)
PagePollRuns ==
    due = {} => IF token = 0 THEN Browser!Live = {}
      ELSE \E p \in Browser!Live : p.for = <<token, page>>

(* The snapshot is of its owner; during a login nothing is shown of the    *)
(* login to come.                                                          *)
PageSnapshotOwned ==
    /\ data = Browser!NoData \/ data.for = owner
    /\ token # 0 /\ owner[1] = token => data.for = owner
    /\ login => token = 0 /\ Browser!Live = {} /\ owner[1] < issued

(* As long as the identity is an action's, so is the login.                *)
PageActionsOwned ==
    /\ \A a, b \in action : a = b
    /\ \A a \in action : a.identity <= identity /\ (a.identity = identity => a.token = token)

PageInv == PageTypes /\ PagePollsNewer /\ PagePollRuns /\ PageSnapshotOwned /\ PageActionsOwned

(* What the bounds give.                                                   *)
LEMMA PageBounds ==
    /\ MaxLogins \in Nat \ {0} /\ MaxActions \in Nat /\ MaxNavigations \in Nat /\ MaxFails \in Nat
    /\ Browser!NotRead \in Nat /\ Browser!NotRead > MaxActions /\ Browser!NoData.for = <<0, 0>>
    /\ Browser!NoData.budget = 0 /\ Browser!NoData.logs = 0
  BY ServicesAssumption DEF Browser!DashboardAssumption, Browser!NotRead, Browser!NoData

LEMMA PageDataIsRead ==
    PageTypes => /\ data.budget \in 0 .. MaxActions /\ data.logs \in 0 .. MaxActions
                 /\ data = Browser!NoData
                      \/ (data.for \in (1 .. MaxLogins) \X Pages /\ data # Browser!NoData)
  BY PageBounds DEF PageTypes, PageDataRow, Browser!NoData

LEMMA PageInitInv == Browser!Init => PageInv
<1> SUFFICES ASSUME Browser!Init PROVE PageInv
  OBVIOUS
<1> USE PageBounds DEF Browser!Init
<1>0. 0 \in 0 .. MaxActions /\ 0 \in 0 .. MaxNavigations /\ 0 \in 0 .. MaxFails /\ FALSE \in BOOLEAN
      /\ token \in 0 .. issued /\ issued \in 0 .. MaxLogins /\ 0 \in 0 .. MaxLogins /\ 0 \in Nat
  OBVIOUS
<1>1. PageTypes
  <2>1. owner \in (0 .. MaxLogins) \X Pages /\ owner[1] <= issued
    BY <1>0
  <2>2. due \in {{}, {"poll"}, {"identity", "poll"}}
    OBVIOUS
  <2> QED
    BY <1>0, <2>1, <2>2 DEF PageTypes
<1>2. PagePollsNewer
  BY <1>0 DEF PagePollsNewer, PageNewer, Browser!Live
<1>3. PagePollRuns
  BY DEF PagePollRuns, Browser!Live
<1>4. PageSnapshotOwned
  BY DEF PageSnapshotOwned
<1>5. PageActionsOwned
  BY DEF PageActionsOwned
<1> QED
  BY <1>1, <1>2, <1>3, <1>4, <1>5 DEF PageInv

(* The frame of an action that leaves polls and snapshot alone, and whose  *)
(* counts only grow.                                                       *)
LEMMA PagePollsKept ==
    PageTypes /\ PageTypes' /\ PagePollsNewer /\ UNCHANGED <<polls, data>> /\ applied <= applied'
      /\ issued <= issued'
        => PagePollsNewer'
<1> SUFFICES ASSUME PageTypes, PageTypes', PagePollsNewer, UNCHANGED <<polls, data>>,
                    applied <= applied', issued <= issued'
             PROVE  PagePollsNewer'
  OBVIOUS
<1>1. /\ applied \in Nat /\ applied' \in Nat /\ issued \in Nat /\ issued' \in Nat
      /\ data.budget \in Nat /\ data.logs \in Nat
  BY PageBounds, PageDataIsRead DEF PageTypes
<1>2. \A p \in polls : p.for[1] \in Nat /\ p.budget \in Nat /\ p.logs \in Nat
  BY PageBounds DEF PageTypes, PagePollRow
<1>3. Browser!Live' = Browser!Live
  BY DEF Browser!Live
<1>4. Browser!NotRead' = Browser!NotRead
  BY DEF Browser!NotRead
<1>5. ASSUME NEW p \in polls
      PROVE  PageNewer(p)'
  BY <1>1, <1>2, <1>4 DEF PagePollsNewer, PageNewer
<1>6. data.budget <= applied' /\ data.logs <= applied'
  BY <1>1 DEF PagePollsNewer, PageNewer
<1> QED
  BY <1>3, <1>4, <1>5, <1>6 DEF PagePollsNewer, PageNewer

(* logout, wherever it is called, polls, snapshot's owner and login alone. *)
LEMMA PageDropping ==
    PageInv /\ Browser!DropToken
      /\ UNCHANGED <<page, owner, polls, action, login, applied, Browser!counts>> => PageInv'
<1> SUFFICES ASSUME PageInv, Browser!DropToken,
                    UNCHANGED <<page, owner, polls, action, login, applied, Browser!counts>>
             PROVE  PageInv'
  OBVIOUS
<1> USE PageBounds DEF PageInv, Browser!DropToken, Browser!counts
<1>1. PageTypes'
  <2>1. due' \in {{}, {"poll"}, {"identity", "poll"}}
    BY DEF PageTypes
  <2>2. token' \in 0 .. issued' /\ identity' \in Nat
    BY DEF PageTypes
  <2>3. Browser!NoData' = Browser!NoData
    BY DEF Browser!NoData
  <2> QED
    BY <2>1, <2>2, <2>3 DEF PageTypes, PageDataRow
<1>2. PagePollsNewer'
  <2>1. /\ applied \in Nat /\ issued \in Nat
        /\ \A p \in polls : p.budget \in Nat /\ p.logs \in Nat
    BY DEF PageTypes, PagePollRow
  <2>2. Browser!Live' = Browser!Live /\ Browser!NotRead' = Browser!NotRead
    BY DEF Browser!Live, Browser!NotRead
  <2>3. data'.budget = 0 /\ data'.logs = 0
    BY DEF Browser!NoData
  <2> QED
    BY <2>1, <2>2, <2>3 DEF PagePollsNewer, PageNewer
<1>3. PagePollRuns'
  BY DEF PagePollRuns, Browser!Live, PageTypes
<1>4. PageSnapshotOwned'
  BY DEF PageSnapshotOwned, Browser!NoData, Browser!Live, PageTypes
<1>5. PageActionsOwned'
  BY DEF PageActionsOwned, PageTypes, PageActionRow
<1> QED
  BY <1>1, <1>2, <1>3, <1>4, <1>5

LEMMA PageLoginInv == PageInv /\ Browser!Login => PageInv'
<1> SUFFICES ASSUME PageInv, Browser!Login PROVE PageInv'
  OBVIOUS
<1> USE PageBounds DEF PageInv, Browser!Login, Browser!view
<1>1. PageTypes'
  BY DEF PageTypes, PageDataRow, PagePollRow, PageActionRow, Browser!NoData
<1>2. PagePollsNewer'
  BY <1>1, PagePollsKept DEF PageTypes
<1>3. PagePollRuns'
  BY DEF PagePollRuns, Browser!Live
<1>4. PageSnapshotOwned'
  BY DEF PageSnapshotOwned, Browser!NoData, Browser!Live, PageTypes, PagePollRuns
<1>5. PageActionsOwned'
  BY DEF PageActionsOwned
<1> QED
  BY <1>1, <1>2, <1>3, <1>4, <1>5

LEMMA PageLoginOkInv == PageInv /\ Browser!LoginOk => PageInv'
<1> SUFFICES ASSUME PageInv, Browser!LoginOk PROVE PageInv'
  OBVIOUS
<1> USE PageBounds DEF PageInv, Browser!LoginOk, Browser!view, Browser!counts
<1>1. PageTypes'
  <2>1. token' \in 0 .. issued' /\ identity' \in Nat
    BY DEF PageTypes
  <2>2. login' \in BOOLEAN
    OBVIOUS
  <2> QED
    BY <2>1, <2>2 DEF PageTypes, PageDataRow, PagePollRow, PageActionRow, Browser!NoData
<1>2. PagePollsNewer'
  BY <1>1, PagePollsKept DEF PageTypes
<1>3. PagePollRuns'
  BY DEF PagePollRuns
<1>4. PageSnapshotOwned'
  BY DEF PageSnapshotOwned, Browser!NoData, PageTypes
<1>5. PageActionsOwned'
  BY DEF PageActionsOwned, PageTypes, PageActionRow
<1> QED
  BY <1>1, <1>2, <1>3, <1>4, <1>5

LEMMA PageLoginFailsInv == PageInv /\ Browser!LoginFails => PageInv'
<1> SUFFICES ASSUME PageInv, Browser!LoginFails PROVE PageInv'
  OBVIOUS
<1> USE PageBounds DEF PageInv, Browser!LoginFails, Browser!counts
<1>1. PageTypes'
  <2>1. CASE Browser!DropToken
    <3>1. due' \in {{}, {"poll"}, {"identity", "poll"}}
      BY <2>1 DEF PageTypes, Browser!DropToken
    <3>2. token' \in 0 .. issued' /\ identity' \in Nat
      BY <2>1 DEF PageTypes, Browser!DropToken
    <3>4. login' \in BOOLEAN
      OBVIOUS
    <3>3. Browser!NoData' = Browser!NoData /\ data' = Browser!NoData
      BY <2>1 DEF Browser!NoData, Browser!DropToken
    <3> QED
      BY <3>1, <3>2, <3>3, <3>4 DEF PageTypes, PageDataRow
  <2>2. CASE UNCHANGED <<identity, token, data, due>>
    BY <2>2 DEF PageTypes, PageDataRow, PagePollRow, PageActionRow, Browser!NoData
  <2> QED
    BY <2>1, <2>2
<1>2. PagePollsNewer'
  <2>1. CASE Browser!DropToken
    <3>1. /\ applied \in Nat /\ issued \in Nat
          /\ \A p \in polls : p.budget \in Nat /\ p.logs \in Nat
      BY DEF PageTypes, PagePollRow
    <3>2. Browser!Live' = Browser!Live /\ Browser!NotRead' = Browser!NotRead
      BY DEF Browser!Live, Browser!NotRead
    <3>3. data'.budget = 0 /\ data'.logs = 0
      BY <2>1 DEF Browser!NoData, Browser!DropToken
    <3> QED
      BY <3>1, <3>2, <3>3 DEF PagePollsNewer, PageNewer
  <2>2. CASE UNCHANGED <<identity, token, data, due>>
    BY <2>2, <1>1, PagePollsKept DEF PageTypes
  <2> QED
    BY <2>1, <2>2
<1>3. PagePollRuns'
  BY DEF PagePollRuns, Browser!Live, Browser!DropToken, PageSnapshotOwned
<1>4. PageSnapshotOwned'
  BY DEF PageSnapshotOwned, Browser!NoData, Browser!DropToken
<1>5. PageActionsOwned'
  BY DEF PageActionsOwned, PageTypes, PageActionRow, Browser!DropToken
<1> QED
  BY <1>1, <1>2, <1>3, <1>4, <1>5

LEMMA PageLogoutInv == PageInv /\ Browser!Logout => PageInv'
  BY PageDropping DEF Browser!Logout

LEMMA PageNavigateInv == ASSUME PageInv, NEW q \in Pages, Browser!Navigate(q) PROVE PageInv'
<1> USE PageBounds DEF PageInv, Browser!Navigate, Browser!view
<1>1. PageTypes'
  <2>1. navigations' \in 0 .. MaxNavigations /\ page' \in Pages
    BY DEF PageTypes
  <2> QED
    BY <2>1 DEF PageTypes, PageDataRow, PagePollRow, PageActionRow, Browser!NoData
<1>2. PagePollsNewer'
  BY <1>1, PagePollsKept DEF PageTypes
<1>3. PagePollRuns'
  BY DEF PagePollRuns
<1>4. PageSnapshotOwned'
  BY DEF PageSnapshotOwned, Browser!NoData, Browser!Live
<1>5. PageActionsOwned'
  BY DEF PageActionsOwned
<1> QED
  BY <1>1, <1>2, <1>3, <1>4, <1>5

LEMMA PageEffectsInv == PageInv /\ Browser!Effects => PageInv'
<1> SUFFICES ASSUME PageInv, Browser!Effects PROVE PageInv'
  OBVIOUS
<1> USE PageBounds DEF PageInv, Browser!Effects, Browser!view, Browser!counts
<1>1. /\ applied \in Nat /\ issued \in Nat /\ token \in Nat /\ Browser!NotRead \in Nat
           /\ MaxActions \in Nat
      /\ data.budget \in Nat /\ data.logs \in Nat /\ data.budget <= MaxActions
           /\ data.logs <= MaxActions
  BY PageDataIsRead DEF PageTypes
<1>2. token # 0 =>
        /\ Browser!Waiting \in PagePollRow /\ ~Browser!Waiting.aborted
             /\ Browser!Waiting.phase = "fetch" /\ Browser!Waiting.for = <<token, page>>
        /\ Browser!Waiting.budget = Browser!NotRead /\ Browser!Waiting.logs = Browser!NotRead
  BY DEF PageTypes, Browser!Waiting, Browser!Poll, PagePollRow
<1>3. ASSUME NEW p \in Browser!Aborted
      PROVE  /\ p \in PagePollRow /\ p.aborted /\ p.phase = "answered"
             /\ p.for[1] <= issued /\ p.budget <= applied /\ p.logs <= applied
  <2>1. PICK q \in polls : q.phase = "answered" /\ p = [q EXCEPT !.aborted = TRUE]
    BY DEF Browser!Aborted
  <2>2. q \in PagePollRow
    BY DEF PageTypes
  <2>3. /\ p \in PagePollRow /\ p.aborted /\ p.phase = "answered"
        /\ p.for = q.for /\ p.budget = q.budget /\ p.logs = q.logs
    BY <2>1, <2>2 DEF PagePollRow
  <2> QED
    BY <2>1, <2>3 DEF PagePollsNewer, PageNewer
<1>4. PageTypes'
  <2>1. identity' \in Nat
    BY DEF PageTypes
  <2>2. polls' \subseteq PagePollRow
    BY <1>2, <1>3
  <2> QED
    BY <2>1, <2>2 DEF PageTypes, PageDataRow, PageActionRow, Browser!NoData, PagePollRow
<1>5. Browser!Live' = IF token = 0 THEN {} ELSE {Browser!Waiting}
  <2>1. Browser!Live' = {p \in polls' : ~p.aborted}
    BY DEF Browser!Live
  <2> QED
    BY <1>2, <1>3, <2>1
<1>6. PagePollsNewer'
  <2>1. Browser!NotRead' = Browser!NotRead
    BY DEF Browser!NotRead
  <2>2. ASSUME NEW p \in polls'
        PROVE  PageNewer(p)
    <3>1. CASE p \in Browser!Aborted
      BY <1>3, <3>1 DEF PageNewer
    <3>2. CASE token # 0 /\ p = Browser!Waiting
      BY <1>1, <1>2, <3>2 DEF PageTypes, PageNewer
    <3> QED
      BY <3>1, <3>2
  <2> QED
    BY <1>5, <2>1, <2>2 DEF PagePollsNewer, PageNewer
<1>7. PagePollRuns'
  BY <1>2, <1>5 DEF PagePollRuns
<1>8. PageSnapshotOwned'
  BY <1>5 DEF PageSnapshotOwned, Browser!NoData
<1>9. PageActionsOwned'
  BY DEF PageActionsOwned, PageTypes, PageActionRow
<1> QED
  BY <1>4, <1>6, <1>7, <1>8, <1>9

(* One poll replaced by another of the same login and page.                *)
LEMMA PageReplaced ==
    ASSUME PageInv, NEW p \in polls, NEW q \in PagePollRow,
           Browser!Becomes(p, q), q.for = p.for, q.aborted = p.aborted,
           PageNewer(q)
    PROVE  /\ \A r \in polls' : r \in PagePollRow /\ PageNewer(r)
           /\ \A r, s \in Browser!Live' : r = s
           /\ Browser!Live = {} => Browser!Live' = {}
           /\ \A r \in Browser!Live : \E s \in Browser!Live' : s.for = r.for
<1> USE DEF PageInv, Browser!Becomes
<1>1. p \in PagePollRow
  BY DEF PageTypes
<1>2. Browser!Live' = {r \in polls' : ~r.aborted}
  BY DEF Browser!Live
<1>3. ASSUME NEW r \in polls'
      PROVE  r \in PagePollRow /\ PageNewer(r)
  <2>1. CASE r = q
    BY <2>1
  <2>2. CASE r \in polls
    BY <2>2 DEF PageTypes, PagePollsNewer
  <2> QED
    BY <2>1, <2>2
<1>4. ASSUME NEW r \in Browser!Live', NEW s \in Browser!Live' PROVE r = s
  <2>1. (r = q \/ (r \in Browser!Live /\ r # p)) /\ (s = q \/ (s \in Browser!Live /\ s # p))
    BY <1>2 DEF Browser!Live
  <2>2. q.aborted \/ p \in Browser!Live
    BY DEF Browser!Live
  <2> QED
    BY <1>2, <2>1, <2>2 DEF PagePollsNewer, PageNewer
<1>5. Browser!Live = {} => Browser!Live' = {}
  BY <1>2 DEF Browser!Live
<1>6. ASSUME NEW r \in Browser!Live PROVE \E s \in Browser!Live' : s.for = r.for
  BY <1>2 DEF Browser!Live
<1>7. \A r \in polls' : r \in PagePollRow /\ PageNewer(r)
  BY <1>3
<1>8. (\A r, s \in Browser!Live' : r = s)
        /\ (\A r \in Browser!Live : \E s \in Browser!Live' : s.for = r.for)
  BY <1>4, <1>6
<1> QED
  BY ONLY <1>5, <1>7, <1>8

LEMMA PageReadInv == ASSUME PageInv, NEW p \in polls, Browser!Read(p) PROVE PageInv'
<1> USE PageBounds DEF PageInv, Browser!Read, Browser!view, Browser!counts
<1>1. /\ p \in PagePollRow /\ applied \in Nat /\ applied <= MaxActions
      /\ data.budget \in Nat /\ data.logs \in Nat /\ data.budget <= applied /\ data.logs <= applied
  BY PageDataIsRead DEF PageTypes, PagePollsNewer, PageNewer
<1>2. ~p.aborted /\ p.budget >= data.budget /\ p.logs >= data.logs
      /\ p.for[1] <= issued
      /\ (p.budget <= applied \/ p.budget = Browser!NotRead)
           /\ (p.logs <= applied \/ p.logs = Browser!NotRead)
  BY DEF PagePollsNewer, PageNewer
<1>3. PICK q \in {[p EXCEPT !.budget = applied], [p EXCEPT !.logs = applied]} :
           Browser!Becomes(p, IF Browser!NotRead \in {q.budget, q.logs} THEN q
             ELSE [q EXCEPT !.phase = "answered"])
  OBVIOUS
<1>4. /\ q \in PagePollRow /\ ~q.aborted /\ q.aborted = p.aborted /\ q.for = p.for
           /\ q.phase = "fetch"
      /\ q.budget \in {p.budget, applied} /\ q.logs \in {p.logs, applied}
  BY <1>1, <1>2 DEF PagePollRow
<1> DEFINE s == IF Browser!NotRead \in {q.budget, q.logs} THEN q
             ELSE [q EXCEPT !.phase = "answered"]
<1>5. /\ s \in PagePollRow /\ s.aborted = p.aborted /\ ~s.aborted /\ s.for = p.for
           /\ s.budget = q.budget /\ s.logs = q.logs
      /\ s.phase = "answered" => Browser!NotRead \notin {q.budget, q.logs}
  BY <1>4 DEF PagePollRow
<1>6. Browser!Becomes(p, s)
  BY <1>3
<1>7. PageNewer(s)
  BY <1>1, <1>2, <1>4, <1>5 DEF PageNewer
<1> HIDE DEF s
<1>8. /\ \A r \in polls' : r \in PagePollRow /\ PageNewer(r)
      /\ \A r, x \in Browser!Live' : r = x
      /\ Browser!Live = {} => Browser!Live' = {}
      /\ \A r \in Browser!Live : \E x \in Browser!Live' : x.for = r.for
  BY <1>2, <1>5, <1>6, <1>7, PageReplaced
<1>9. PageTypes'
  BY <1>8 DEF PageTypes, PageDataRow, PageActionRow, Browser!NoData, PagePollRow
<1>10. PagePollsNewer'
  <2>1. Browser!NotRead' = Browser!NotRead
    BY DEF Browser!NotRead
  <2> QED
    BY <1>8, <2>1 DEF PagePollsNewer, PageNewer
<1>11. PagePollRuns'
  BY <1>8 DEF PagePollRuns
<1>12. PageSnapshotOwned'
  BY <1>8 DEF PageSnapshotOwned, Browser!NoData
<1>13. PageActionsOwned'
  BY DEF PageActionsOwned
<1> QED
  BY <1>9, <1>10, <1>11, <1>12, <1>13

(* A poll's step that changes nothing but the polls and a count.           *)
LEMMA PagePollStep ==
    ASSUME PageInv, PageTypes',
           UNCHANGED <<token, page, identity, due, owner, data, action, login, applied, issued>>,
           \A r \in polls' : r \in PagePollRow /\ PageNewer(r),
           \A r, s \in Browser!Live' : r = s,
           Browser!Live = {} => Browser!Live' = {},
           \A r \in Browser!Live : \E s \in Browser!Live' : s.for = r.for
    PROVE  PageInv'
<1> USE PageBounds DEF PageInv
<1>1. PagePollsNewer'
  <2>1. Browser!NotRead' = Browser!NotRead
    BY DEF Browser!NotRead
  <2> QED
    BY <2>1 DEF PagePollsNewer, PageNewer
<1>2. PagePollRuns'
  BY DEF PagePollRuns
<1>3. PageSnapshotOwned'
  BY DEF PageSnapshotOwned, Browser!NoData
<1>4. PageActionsOwned'
  BY DEF PageActionsOwned
<1> QED
  BY <1>1, <1>2, <1>3, <1>4

LEMMA PageTimerInv == ASSUME PageInv, NEW p \in polls, Browser!Timer(p) PROVE PageInv'
<1> USE PageBounds DEF PageInv, Browser!Timer, Browser!view, Browser!counts
<1> DEFINE q == [for |-> p.for, phase |-> "fetch", budget |-> Browser!NotRead,
             logs |-> Browser!NotRead, aborted |-> p.aborted]
<1>1. /\ p \in PagePollRow /\ ~p.aborted /\ applied \in Nat /\ applied <= MaxActions
      /\ data.budget \in Nat /\ data.logs \in Nat /\ data.budget <= applied /\ data.logs <= applied
  BY PageDataIsRead DEF PageTypes, PagePollsNewer, PageNewer
<1>2. /\ q \in PagePollRow /\ q.for = p.for /\ q.phase = "fetch" /\ q.aborted = p.aborted
      /\ q.budget = Browser!NotRead /\ q.logs = Browser!NotRead
  BY <1>1 DEF PagePollRow
<1>3. Browser!Becomes(p, q)
  OBVIOUS
<1>4. PageNewer(q)
  BY <1>1, <1>2 DEF PageNewer, PagePollsNewer
<1> HIDE DEF q
<1>5. /\ \A r \in polls' : r \in PagePollRow /\ PageNewer(r)
      /\ \A r, s \in Browser!Live' : r = s
      /\ Browser!Live = {} => Browser!Live' = {}
      /\ \A r \in Browser!Live : \E s \in Browser!Live' : s.for = r.for
  BY <1>1, <1>2, <1>3, <1>4, PageReplaced
<1>6. PageTypes'
  BY <1>5 DEF PageTypes, PageDataRow, PageActionRow, Browser!NoData, PagePollRow
<1> QED
  BY <1>5, <1>6, PagePollStep

(* What a failed poll is replaced by.                                      *)
LEMMA PageIdle ==
    ASSUME PageInv, NEW p \in polls, p.phase = "fetch",
           Browser!Becomes(p, [p EXCEPT !.phase = "idle"])
    PROVE  /\ \A r \in polls' : r \in PagePollRow /\ PageNewer(r)
           /\ \A r, s \in Browser!Live' : r = s
           /\ Browser!Live = {} => Browser!Live' = {}
           /\ \A r \in Browser!Live : \E s \in Browser!Live' : s.for = r.for
           /\ p \in Browser!Live
<1> USE DEF PageInv
<1> DEFINE q == [p EXCEPT !.phase = "idle"]
<1>1. /\ p \in PagePollRow /\ ~p.aborted
      /\ (p.budget <= applied \/ p.budget = Browser!NotRead)
           /\ (p.logs <= applied \/ p.logs = Browser!NotRead)
      /\ p.budget >= data.budget /\ p.logs >= data.logs
  BY DEF PageTypes, PagePollsNewer, PageNewer
<1>2. /\ q \in PagePollRow /\ q.for = p.for /\ q.phase = "idle" /\ q.aborted = p.aborted
      /\ q.budget = p.budget /\ q.logs = p.logs
  BY <1>1 DEF PagePollRow
<1>3. Browser!Becomes(p, q)
  OBVIOUS
<1>4. p \in Browser!Live
  BY <1>1 DEF Browser!Live
<1>5. PageNewer(q)
  BY <1>1, <1>2 DEF PageNewer, PagePollsNewer
<1> HIDE DEF q
<1> QED
  BY <1>2, <1>3, <1>4, <1>5, PageReplaced

LEMMA PagePollFailsInv == ASSUME PageInv, NEW p \in polls, Browser!PollFails(p) PROVE PageInv'
<1> USE PageBounds DEF Browser!PollFails, Browser!view
<1>1. /\ \A r \in polls' : r \in PagePollRow /\ PageNewer(r)
      /\ \A r, s \in Browser!Live' : r = s
      /\ Browser!Live = {} => Browser!Live' = {}
      /\ \A r \in Browser!Live : \E s \in Browser!Live' : s.for = r.for
  BY PageIdle
<1>2. fails' \in 0 .. MaxFails
  BY DEF PageInv, PageTypes
<1>3. PageTypes'
  BY <1>1, <1>2 DEF PageInv, PageTypes, PageDataRow, PageActionRow, Browser!NoData, PagePollRow
<1> QED
  BY <1>1, <1>3, PagePollStep

LEMMA PagePollExpiresInv == ASSUME PageInv, NEW p \in polls, Browser!PollExpires(p) PROVE PageInv'
<1> USE PageBounds DEF Browser!PollExpires, Browser!DropToken
<1>1. /\ \A r \in polls' : r \in PagePollRow /\ PageNewer(r)
      /\ \A r, s \in Browser!Live' : r = s
      /\ Browser!Live = {} => Browser!Live' = {}
      /\ p \in Browser!Live
  BY PageIdle
<1> USE DEF PageInv
<1>2. fails' \in 0 .. MaxFails /\ token' \in 0 .. issued' /\ identity' \in Nat
  BY DEF PageTypes
<1>3. due' \in {{}, {"poll"}, {"identity", "poll"}}
  BY DEF PageTypes
<1>4. Browser!NoData' = Browser!NoData /\ Browser!NotRead' = Browser!NotRead
        /\ data' = Browser!NoData
  BY DEF Browser!NoData, Browser!NotRead
<1>5. PageTypes'
  BY <1>1, <1>2, <1>3, <1>4 DEF PageTypes, PageDataRow, PageActionRow, PagePollRow
<1>6. PagePollsNewer'
  <2>1. /\ applied \in Nat /\ issued \in Nat
        /\ \A r \in polls' : r.budget \in Nat /\ r.logs \in Nat
    BY <1>1 DEF PageTypes, PagePollRow
  <2>2. data'.budget = 0 /\ data'.logs = 0
    BY <1>4
  <2> QED
    BY <1>1, <1>4, <2>1, <2>2 DEF PagePollsNewer, PageNewer
<1>7. PagePollRuns'
  BY <1>1 DEF PagePollRuns
<1>8. PageSnapshotOwned'
  BY <1>1, <1>4 DEF PageSnapshotOwned
<1>9. PageActionsOwned'
  BY DEF PageActionsOwned, PageTypes, PageActionRow
<1> QED
  BY <1>5, <1>6, <1>7, <1>8, <1>9

LEMMA PageShowInv == ASSUME PageInv, NEW p \in polls, Browser!Show(p) PROVE PageInv'
<1> USE PageBounds DEF PageInv, Browser!Show, Browser!Dropped, Browser!counts
<1>1. /\ p \in PagePollRow /\ p.for[1] <= issued /\ p.budget <= applied /\ p.logs <= applied
      /\ applied \in Nat /\ applied <= MaxActions
      /\ data.budget \in Nat /\ data.logs \in Nat
  BY PageDataIsRead DEF PageTypes, PagePollsNewer, PageNewer
<1>2. CASE p.aborted
  <2>1. polls' = polls \ {p} /\ UNCHANGED <<owner, data>>
    BY <1>2 DEF Browser!view
  <2>2. Browser!Live' = Browser!Live
    BY <1>2, <2>1 DEF Browser!Live
  <2>3. PageTypes'
    BY <2>1 DEF PageTypes, PageDataRow, PageActionRow, Browser!NoData, PagePollRow
  <2>4. \A r \in polls' : r \in PagePollRow /\ PageNewer(r)
    BY <2>1 DEF PageTypes, PagePollsNewer, PageNewer
  <2>5. \A r, s \in Browser!Live' : r = s
    BY <2>2 DEF PagePollsNewer, PageNewer
  <2> QED
    BY <2>1, <2>2, <2>3, <2>4, <2>5, PagePollStep
<1>3. CASE ~p.aborted
  <2> DEFINE q == [p EXCEPT !.phase = "idle"]
  <2>1. /\ q \in PagePollRow /\ q.for = p.for /\ q.phase = "idle" /\ q.aborted = p.aborted
        /\ q.budget = p.budget /\ q.logs = p.logs
    BY <1>1 DEF PagePollRow
  <2>2. Browser!Becomes(p, q) /\ owner' = p.for
          /\ data' = [for |-> p.for, budget |-> p.budget, logs |-> p.logs]
    BY <1>3
  <2>3. p.budget >= data.budget /\ p.logs >= data.logs /\ p \in Browser!Live
    BY <1>3 DEF PagePollsNewer, PageNewer, Browser!Live
  <2>12. PageNewer(q)
    BY <1>1, <1>3, <2>1, <2>3 DEF PageNewer, PagePollsNewer
  <2> HIDE DEF q
  <2>4. /\ \A r \in polls' : r \in PagePollRow /\ PageNewer(r)
        /\ \A r, s \in Browser!Live' : r = s
        /\ Browser!Live = {} => Browser!Live' = {}
        /\ \A r \in Browser!Live : \E s \in Browser!Live' : s.for = r.for
    BY <2>1, <2>2, <2>12, PageReplaced
  <2>5. q \in Browser!Live' /\ q \in polls'
    BY <1>3, <2>1, <2>2 DEF Browser!Live, Browser!Becomes
  <2>6. /\ data' \in PageDataRow /\ data'.for = p.for /\ data'.budget = p.budget
             /\ data'.logs = p.logs
        /\ owner' \in (0 .. MaxLogins) \X Pages /\ owner'[1] <= issued
    BY <1>1, <2>2 DEF PagePollRow, PageDataRow
  <2>7. PageTypes'
    BY <2>4, <2>6 DEF PageTypes, PageDataRow, PageActionRow, PagePollRow
  <2>8. PagePollsNewer'
    <3>1. Browser!NotRead' = Browser!NotRead
      BY DEF Browser!NotRead
    <3>2. ASSUME NEW r \in polls', ~r.aborted
          PROVE  r.budget >= data'.budget /\ r.logs >= data'.logs
      <4>1. r \in Browser!Live'
        BY <3>2 DEF Browser!Live
      <4>2. r = q
        BY <2>4, <2>5, <4>1
      <4> QED
        BY <1>1, <2>1, <2>6, <4>2 DEF PagePollRow
    <3> QED
      BY <1>1, <2>4, <2>6, <3>1, <3>2 DEF PagePollsNewer, PageNewer
  <2>9. PagePollRuns'
    BY <2>3, <2>4 DEF PagePollRuns
  <2>10. PageSnapshotOwned'
    BY <2>2, <2>3, <2>6 DEF PageSnapshotOwned
  <2>11. PageActionsOwned'
    BY DEF PageActionsOwned
  <2> QED
    BY <2>7, <2>8, <2>9, <2>10, <2>11
<1> QED
  BY <1>2, <1>3

LEMMA PageActInv == PageInv /\ Browser!Act => PageInv'
<1> SUFFICES ASSUME PageInv, Browser!Act PROVE PageInv'
  OBVIOUS
<1> USE PageBounds DEF PageInv, Browser!Act, Browser!IsCurrent, Browser!view, Browser!counts
<1>1. PageTypes'
  <2>1. action' \subseteq PageActionRow
    <3>1. token \in 1 .. MaxLogins /\ identity \in Nat /\ FALSE \in BOOLEAN
      BY DEF PageTypes
    <3> QED
      BY <3>1 DEF PageActionRow
  <2> QED
    BY <2>1 DEF PageTypes, PageDataRow, PagePollRow, Browser!NoData, PageActionRow
<1>2. PagePollsNewer'
  BY <1>1, PagePollsKept DEF PageTypes
<1>3. PagePollRuns'
  BY DEF PagePollRuns, Browser!Live
<1>4. PageSnapshotOwned'
  BY DEF PageSnapshotOwned, Browser!NoData, Browser!Live
<1>5. PageActionsOwned'
  <2>1. \A a \in action' : a.identity = identity /\ a.token = token
    OBVIOUS
  <2> QED
    BY <2>1 DEF PageActionsOwned, PageTypes
<1> QED
  BY <1>1, <1>2, <1>3, <1>4, <1>5

LEMMA PageApplyInv == ASSUME PageInv, NEW a \in action, Browser!Apply(a) PROVE PageInv'
<1> USE PageBounds DEF PageInv, Browser!Apply, Browser!view, Browser!counts
<1>1. a \in PageActionRow /\ [a EXCEPT !.done = TRUE] \in PageActionRow
      /\ [a EXCEPT !.done = TRUE].identity = a.identity /\ [a EXCEPT !.done = TRUE].token = a.token
  BY DEF PageTypes, PageActionRow
<1>2. PageTypes'
  <2>1. applied' \in 0 .. MaxActions
    BY DEF PageTypes
  <2>2. action' \subseteq PageActionRow
    BY <1>1
  <2> QED
    BY <2>1, <2>2 DEF PageTypes, PageDataRow, PagePollRow, Browser!NoData, PageActionRow
<1>3. PagePollsNewer'
  BY <1>2, PagePollsKept DEF PageTypes
<1>4. PagePollRuns'
  BY DEF PagePollRuns, Browser!Live
<1>5. PageSnapshotOwned'
  BY DEF PageSnapshotOwned, Browser!NoData, Browser!Live
<1>6. PageActionsOwned'
  BY <1>1 DEF PageActionsOwned
<1> QED
  BY <1>2, <1>3, <1>4, <1>5, <1>6

LEMMA PageActOkInv == ASSUME PageInv, NEW a \in action, Browser!ActOk(a) PROVE PageInv'
<1> USE PageBounds DEF PageInv, Browser!ActOk, Browser!view, Browser!counts
<1>1. PageTypes'
  <2>1. due' \in {{}, {"poll"}, {"identity", "poll"}}
    BY DEF PageTypes
  <2> QED
    BY <2>1 DEF PageTypes, PageDataRow, PagePollRow, Browser!NoData
<1>2. PagePollsNewer'
  BY <1>1, PagePollsKept DEF PageTypes
<1>3. PagePollRuns'
  BY DEF PagePollRuns, Browser!Live
<1>4. PageSnapshotOwned'
  BY DEF PageSnapshotOwned, Browser!NoData, Browser!Live
<1>5. PageActionsOwned'
  BY DEF PageActionsOwned
<1> QED
  BY <1>1, <1>2, <1>3, <1>4, <1>5

LEMMA PageActFailsInv == ASSUME PageInv, NEW a \in action, Browser!ActFails(a) PROVE PageInv'
<1> USE PageBounds DEF PageInv, Browser!ActFails, Browser!counts
<1>1. PageTypes'
  <2>1. CASE Browser!DropToken
    <3>1. due' \in {{}, {"poll"}, {"identity", "poll"}}
      BY <2>1 DEF PageTypes, Browser!DropToken
    <3>2. token' \in 0 .. issued' /\ identity' \in Nat
      BY <2>1 DEF PageTypes, Browser!DropToken
    <3>3. Browser!NoData' = Browser!NoData /\ data' = Browser!NoData
      BY <2>1 DEF Browser!NoData, Browser!DropToken
    <3> QED
      BY <3>1, <3>2, <3>3 DEF PageTypes, PageDataRow
  <2>2. CASE UNCHANGED <<identity, token, data, due>>
    BY <2>2 DEF PageTypes, PageDataRow, PagePollRow, Browser!NoData
  <2> QED
    BY <2>1, <2>2
<1>2. PagePollsNewer'
  <2>1. CASE Browser!DropToken
    <3>1. /\ applied \in Nat /\ issued \in Nat
          /\ \A p \in polls : p.budget \in Nat /\ p.logs \in Nat
      BY DEF PageTypes, PagePollRow
    <3>2. Browser!Live' = Browser!Live /\ Browser!NotRead' = Browser!NotRead
      BY DEF Browser!Live, Browser!NotRead
    <3>3. data'.budget = 0 /\ data'.logs = 0
      BY <2>1 DEF Browser!NoData, Browser!DropToken
    <3> QED
      BY <3>1, <3>2, <3>3 DEF PagePollsNewer, PageNewer
  <2>2. CASE UNCHANGED <<identity, token, data, due>>
    BY <2>2, <1>1, PagePollsKept DEF PageTypes
  <2> QED
    BY <2>1, <2>2
<1>3. PagePollRuns'
  BY DEF PagePollRuns, Browser!Live, Browser!DropToken, PageTypes
<1>4. PageSnapshotOwned'
  BY DEF PageSnapshotOwned, Browser!NoData, Browser!DropToken, Browser!Live
<1>5. PageActionsOwned'
  BY DEF PageActionsOwned
<1> QED
  BY <1>1, <1>2, <1>3, <1>4, <1>5

LEMMA PageStutterInv == PageInv /\ UNCHANGED Browser!vars => PageInv'
  BY DEF Browser!vars, Browser!view, Browser!counts, PageInv, PageTypes, PagePollsNewer, PageNewer,
       PagePollRuns, PageSnapshotOwned, PageActionsOwned, Browser!Live, Browser!NotRead,
       Browser!NoData, PageDataRow, PagePollRow, PageActionRow

LEMMA PageNextInv == PageInv /\ [Browser!Next]_(Browser!vars) => PageInv'
  BY PageLoginInv, PageLoginOkInv, PageLoginFailsInv, PageLogoutInv, PageEffectsInv, PageActInv,
       PageNavigateInv, PageReadInv, PageShowInv, PagePollFailsInv, PagePollExpiresInv,
       PageTimerInv, PageApplyInv, PageActOkInv, PageActFailsInv, PageStutterInv DEF Browser!Next

LEMMA PageInvGivesTypes == PageInv => Browser!TypeOK
<1> SUFFICES ASSUME PageInv PROVE Browser!TypeOK
  OBVIOUS
<1> USE PageBounds DEF PageInv
<1>1. token \in 0 .. MaxLogins /\ owner[1] \in 0 .. MaxLogins
  BY DEF PageTypes
<1>2. data.budget \in 0 .. MaxActions /\ data.logs \in 0 .. MaxActions
  BY PageDataIsRead
<1>3. due = {} => IF token = 0 THEN Browser!Live = {}
        ELSE \E p \in Browser!Live : Browser!Live = {p} /\ p.for = <<token, page>>
  BY DEF PagePollRuns, PagePollsNewer, PageNewer
<1>4. (\A a, b \in action : a = b) /\ (login => token = 0)
  BY DEF PageActionsOwned, PageSnapshotOwned
<1> QED
  BY <1>1, <1>2, <1>3, <1>4 DEF Browser!TypeOK, PageTypes

LEMMA PageInvGivesShown == PageInv => Browser!ShownIsCurrent
  BY DEF PageInv, PageSnapshotOwned, Browser!ShownIsCurrent, Browser!IsCurrent, PageTypes

(* Every answer that is shown was read after what it replaces.             *)
LEMMA PageStepNotOlder == PageInv /\ [Browser!Next]_(Browser!vars) => Browser!NotOlder
<1> SUFFICES ASSUME PageInv, [Browser!Next]_(Browser!vars), data'.for = data.for
             PROVE  data'.budget >= data.budget /\ data'.logs >= data.logs
  BY DEF Browser!NotOlder
<1> USE PageBounds
<1>1. data.budget \in Nat /\ data.logs \in Nat
  BY PageDataIsRead DEF PageInv
<1>2. CASE data' = data
  BY <1>1, <1>2
<1>3. CASE Browser!DropToken
  <2>1. data' = Browser!NoData /\ data'.for = <<0, 0>>
    BY <1>3 DEF Browser!DropToken
  <2>2. data = Browser!NoData
    BY <2>1, PageDataIsRead DEF PageInv
  <2> QED
    BY <1>1, <2>1, <2>2
<1>4. ASSUME NEW p \in polls, Browser!Show(p), data' # data
      PROVE  data'.budget >= data.budget /\ data'.logs >= data.logs
  <2>1. ~p.aborted /\ data' = [for |-> p.for, budget |-> p.budget, logs |-> p.logs]
    BY <1>4 DEF Browser!Show, Browser!Dropped, Browser!view
  <2> QED
    BY <2>1 DEF PageInv, PagePollsNewer, PageNewer
<1>5. data' = data \/ Browser!DropToken \/ \E p \in polls : Browser!Show(p)
  BY DEF Browser!Next, Browser!vars, Browser!view, Browser!Login, Browser!LoginOk,
       Browser!LoginFails, Browser!Logout, Browser!Effects, Browser!Act, Browser!Navigate,
       Browser!Read, Browser!PollFails, Browser!PollExpires, Browser!Timer, Browser!Apply,
       Browser!ActOk, Browser!ActFails
<1> QED
  BY <1>2, <1>3, <1>4, <1>5

LEMMA PageStepOwnEnd == PageInv /\ [Browser!Next]_(Browser!vars) => Browser!OwnEnd
<1> SUFFICES ASSUME PageInv, [Browser!Next]_(Browser!vars), NEW a \in action, action' = {},
                    a.token # token
             PROVE  UNCHANGED <<token, identity, due>>
  BY DEF Browser!OwnEnd
<1>1. \E b \in action : Browser!ActOk(b) \/ Browser!ActFails(b)
  BY DEF Browser!Next, Browser!vars, Browser!view, Browser!Login, Browser!LoginOk,
       Browser!LoginFails, Browser!Logout, Browser!Effects, Browser!Act, Browser!Navigate,
       Browser!Read, Browser!Show, Browser!PollFails, Browser!PollExpires, Browser!Timer,
       Browser!Apply
<1>2. Browser!ActOk(a) \/ Browser!ActFails(a)
  BY <1>1 DEF PageInv, PageActionsOwned
<1>3. ~Browser!Same(a)
  BY DEF PageInv, PageActionsOwned, Browser!Same
<1> QED
  BY <1>2, <1>3 DEF Browser!ActOk, Browser!ActFails

(* However answers, logins, actions, navigations and timers interleave,    *)
(* what a page shows is of the current login and page                      *)
(* (useBlueTeamDashboard.ts).                                              *)
THEOREM CurrentIsShown == Browser!Spec => []ShownIsCurrent
<1>1. Browser!Init => PageInv
  BY PageInitInv
<1>2. PageInv /\ [Browser!Next]_(Browser!vars) => PageInv'
  BY PageNextInv
<1>3. PageInv => ShownIsCurrent
  BY PageInvGivesTypes, PageInvGivesShown DEF ShownIsCurrent
<1> QED
  BY <1>1, <1>2, <1>3, PTL DEF Browser!Spec

(* An answer that arrives late neither shows an older state again nor ends *)
(* a login that is not its own (useBlueTeamDashboard.ts).                  *)
THEOREM LateIsDropped == Browser!Spec => LateAnswersDropped
<1>1. Browser!Init => PageInv
  BY PageInitInv
<1>2. PageInv /\ [Browser!Next]_(Browser!vars) => PageInv'
  BY PageNextInv
<1>3. PageInv /\ [Browser!Next]_(Browser!vars) => [Browser!NotOlder /\ Browser!OwnEnd]_pageVars
  BY PageStepNotOlder, PageStepOwnEnd
<1> QED
  BY <1>1, <1>2, <1>3, PTL DEF Browser!Spec, LateAnswersDropped

-----------------------------------------------------------------------------
(* The pool (ConnectionPool)                                               *)

USE ServicesAssumption DEF Pool!PoolAssumption

(* ConnectionPool counts with the FiniteSets of its own instance.          *)
LEMMA PoolCounts ==
    /\ \A S : Pool!IsFiniteSet(S) <=> IsFiniteSet(S)
    /\ \A S : Pool!Cardinality(S) = Cardinality(S)
<1>1. \A S : Pool!IsFiniteSet(S) <=> IsFiniteSet(S)
  BY DEF Pool!IsFiniteSet, IsFiniteSet
<1>2. \A S : Pool!Cardinality(S) = Cardinality(S)
  BY DEF Pool!Cardinality, Cardinality, Pool!IsFiniteSet, IsFiniteSet
<1> QED
  BY <1>1, <1>2

PoolPhases ==
    Pool!Events \cup Pool!Ended
      \cup {"new", "session", "lookup", "verify", "thread", "queue", "model", "save"}

(* Where everybody is and what it holds; only logins open a session        *)
(* before they are counted.                                                *)
PoolPlaces ==
    /\ hardened \in BOOLEAN
    /\ phase \in [Pool!Requests -> PoolPhases]
    /\ \A r \in Pool!Requests : phase[r] = "session" => r \in Pool!Logins
    /\ main \subseteq {r \in Pool!Requests : phase[r] \notin Pool!Ended \cup {"new"}}
    /\ event \subseteq {r \in Pool!Requests : phase[r] \in Pool!Events}
    /\ lock \subseteq event /\ \A p, q \in lock : p = q
    /\ logged \subseteq Pool!Requests \X Pool!Events

PoolBounded == Cardinality(main) + Cardinality(event) <= PoolSize

PoolInLine ==
    /\ line \in Seq(Pool!Requests)
    /\ \A i \in 1 .. Len(line) : Pool!Needs(line[i])
    /\ \A i, j \in 1 .. Len(line) : line[i] = line[j] => i = j

(* Every attempt that was counted is of a login past its session.          *)
PoolCounted == {r \in Pool!Logins : phase[r] \notin {"new", "session"}}
PoolCounting == attempts \in Nat /\ (attempts # 0 => hardened)
                  /\ (hardened => attempts <= Cardinality(PoolCounted))

PoolInv == PoolPlaces /\ PoolBounded /\ PoolInLine /\ PoolCounting

(* The lock is given back by the commit, before the refresh.               *)
PoolLocked == \A r \in lock : ~Pool!Written(r)

LEMMA PoolInitInv == Pool!Init => PoolInv
<1> SUFFICES ASSUME Pool!Init PROVE PoolInv
  OBVIOUS
<1> USE DEF Pool!Init
<1>1. PoolPlaces
  BY DEF PoolPlaces, PoolPhases
<1>2. PoolBounded
  <2>1. Cardinality({}) = 0
    BY FS_EmptySet
  <2> QED
    BY <2>1 DEF PoolBounded
<1>3. PoolInLine
  <2>1. line \in Seq(Pool!Requests) /\ Len(line) = 0
    OBVIOUS
  <2> QED
    BY <2>1 DEF PoolInLine
<1>4. PoolCounting
  <2>1. PoolCounted = {}
    BY DEF PoolCounted, Pool!Requests
  <2>2. Cardinality({}) = 0
    BY FS_EmptySet
  <2> QED
    BY <2>1, <2>2 DEF PoolCounting
<1> QED
  BY <1>1, <1>2, <1>3, <1>4 DEF PoolInv

LEMMA PoolFiniteParts ==
    ASSUME PoolPlaces
    PROVE  /\ IsFiniteSet(main) /\ IsFiniteSet(event) /\ IsFiniteSet(PoolCounted)
                /\ IsFiniteSet(Pool!Logins)
           /\ Cardinality(main) \in Nat /\ Cardinality(event) \in Nat
                /\ Cardinality(PoolCounted) \in Nat
           /\ Cardinality(Pool!Logins) \in Nat
                /\ Cardinality(PoolCounted) <= Cardinality(Pool!Logins)
<1>1. main \in SUBSET Pool!Requests /\ event \in SUBSET Pool!Requests
        /\ Pool!Logins \in SUBSET Pool!Requests
  BY DEF PoolPlaces, Pool!Requests
<1>2. PoolCounted \in SUBSET Pool!Logins
  BY DEF PoolCounted
<1>3. IsFiniteSet(Pool!Requests)
  BY PoolCounts
<1> HIDE DEF PoolCounted, Pool!Requests, Pool!Logins
<1>4. IsFiniteSet(main) /\ IsFiniteSet(event) /\ IsFiniteSet(Pool!Logins)
  BY <1>1, <1>3, FS_Subset
<1>5. IsFiniteSet(PoolCounted) /\ Cardinality(PoolCounted) <= Cardinality(Pool!Logins)
  BY <1>2, <1>4, FS_Subset
<1> QED
  BY <1>4, <1>5, FS_CardinalityType

LEMMA PoolLineFacts ==
    ASSUME PoolInLine
    PROVE  /\ Pool!ToSet(line) = {line[i] : i \in 1 .. Len(line)} /\ Len(line) \in Nat
           /\ line # <<>> => 1 \in 1 .. Len(line)
           /\ \A r \in Pool!ToSet(line) : r \in Pool!Requests /\ Pool!Needs(r)
<1>1. line \in Seq(Pool!Requests) /\ DOMAIN line = 1 .. Len(line) /\ Len(line) \in Nat
      /\ \A i \in 1 .. Len(line) : line[i] \in Pool!Requests
  BY DEF PoolInLine
<1>2. Pool!ToSet(line) = {line[i] : i \in 1 .. Len(line)}
  BY <1>1 DEF Pool!ToSet
<1>3. line # <<>> => 1 \in 1 .. Len(line)
  BY <1>1
<1> QED
  BY <1>1, <1>2, <1>3 DEF PoolInLine

(* Who is served leaves the line, at its head; nobody else's need changes. *)
LEMMA PoolLeaves ==
    ASSUME PoolInLine, NEW r \in Pool!Requests,
           \A q \in Pool!Requests : q # r => (Pool!Needs(q) => Pool!Needs(q)'),
           \/ r \notin Pool!ToSet(line) /\ line' = line
           \/ line # <<>> /\ r = line[1] /\ line' = Tail(line)
    PROVE  PoolInLine'
<1>1. CASE r \notin Pool!ToSet(line) /\ line' = line
  <2>1. \A i \in 1 .. Len(line) : line[i] \in Pool!Requests /\ line[i] # r
    BY <1>1, PoolLineFacts DEF PoolInLine
  <2> QED
    BY <1>1, <2>1 DEF PoolInLine
<1>2. CASE line # <<>> /\ r = line[1] /\ line' = Tail(line)
  <2>1. /\ line' \in Seq(Pool!Requests) /\ Len(line') = Len(line) - 1
        /\ \A i \in 1 .. Len(line') : line'[i] = line[i + 1]
    BY <1>2, HeadTailProperties DEF PoolInLine
  <2>2. \A i \in 1 .. Len(line') : i + 1 \in 1 .. Len(line) /\ i + 1 # 1 /\ 1 \in 1 .. Len(line)
    BY <2>1, PoolLineFacts
  <2>3. ASSUME NEW i \in 1 .. Len(line') PROVE Pool!Needs(line[i])'
    <3>1. line'[i] = line[i + 1] /\ Pool!Needs(line[i + 1]) /\ i + 1 \in 1 .. Len(line)
      BY <2>1, <2>2 DEF PoolInLine
    <3>2. line[i + 1] \in Pool!Requests
      BY <3>1 DEF PoolInLine
    <3>3. line[i + 1] # r
      BY <1>2, <2>2 DEF PoolInLine
    <3>4. PICK q \in Pool!Requests : q = line[i + 1]
      BY <3>2
    <3>5. Pool!Needs(q)'
      BY <3>1, <3>3, <3>4
    <3> QED
      BY <3>1, <3>4, <3>5 DEF Pool!Needs, Pool!NeedsMain, Pool!NeedsEvent
  <2>4. ASSUME NEW i \in 1 .. Len(line'), NEW j \in 1 .. Len(line'), line'[i] = line'[j] PROVE i = j
    <3>1. i + 1 = j + 1
      BY <2>1, <2>2, <2>4 DEF PoolInLine
    <3> QED
      BY <3>1
  <2> QED
    BY <2>1, <2>3, <2>4 DEF PoolInLine
<1> QED
  BY <1>1, <1>2

LEMMA PoolLineWait == ASSUME PoolInv, NEW r \in Pool!Requests, Pool!Wait(r) PROVE PoolInv'
<1> USE DEF PoolInv, Pool!Wait
<1>1. PoolPlaces' /\ PoolBounded' /\ PoolCounting'
  BY DEF PoolPlaces, PoolBounded, PoolCounting, PoolCounted
<1>2. /\ line' \in Seq(Pool!Requests) /\ Len(line') = Len(line) + 1 /\ Len(line) \in Nat
      /\ \A i \in 1 .. Len(line) : line'[i] = line[i]
      /\ line'[Len(line) + 1] = r
  BY AppendProperties, PoolLineFacts DEF PoolInLine
<1>3. \A i \in 1 .. Len(line) : line[i] # r
  BY PoolLineFacts
<1>4. ASSUME NEW i \in 1 .. Len(line') PROVE Pool!Needs(line[i])'
  <2>1. Pool!Needs(line'[i])
    <3>1. CASE i = Len(line) + 1
      BY <1>2, <3>1
    <3>2. CASE i # Len(line) + 1
      <4>1. i \in 1 .. Len(line)
        BY <1>2, <3>2
      <4> QED
        BY <1>2, <4>1 DEF PoolInLine
    <3> QED
      BY <3>1, <3>2
  <2> QED
    BY <2>1 DEF Pool!Needs, Pool!NeedsMain, Pool!NeedsEvent
<1>5. ASSUME NEW i \in 1 .. Len(line'), NEW j \in 1 .. Len(line'), line'[i] = line'[j] PROVE i = j
  <2>1. (i \in 1 .. Len(line) \/ i = Len(line) + 1) /\ (j \in 1 .. Len(line) \/ j = Len(line) + 1)
    BY <1>2
  <2> QED
    BY <1>2, <1>3, <1>5, <2>1 DEF PoolInLine
<1>6. PoolInLine'
  BY <1>2, <1>4, <1>5 DEF PoolInLine
<1> QED
  BY <1>1, <1>6

(* What a step of r leaves to the others.                                  *)
PoolApart(r) ==
    \A q \in Pool!Requests : q # r =>
        (phase'[q] = phase[q] /\ (q \in main' <=> q \in main) /\ (q \in event' <=> q \in event))

LEMMA PoolApartNeeds ==
    ASSUME NEW r \in Pool!Requests, PoolApart(r), NEW q \in Pool!Requests, q # r, Pool!Needs(q)
    PROVE  Pool!Needs(q)'
  BY DEF PoolApart, Pool!Needs, Pool!NeedsMain, Pool!NeedsEvent

LEMMA PoolAfterPhases ==
    ASSUME NEW r, phase[r] \in Pool!Events
    PROVE  Pool!After(r) \in {"queue", "save", "blocked", "done"}
  BY DEF Pool!After, Pool!Events

LEMMA PoolServe ==
    ASSUME PoolInv, NEW r \in Pool!Requests, Pool!Needs(r), Pool!Take(r), PoolApart(r)
    PROVE  PoolInLine'
<1>1. \/ r \notin Pool!ToSet(line) /\ line' = line
      \/ line # <<>> /\ r = line[1] /\ line' = Tail(line)
  <2>1. CASE r \in Pool!ToSet(line)
    <3>1. line # <<>>
      BY <2>1, PoolLineFacts DEF PoolInv
    <3> QED
      BY <2>1, <3>1 DEF Pool!Take
  <2>2. CASE r \notin Pool!ToSet(line)
    BY <2>2 DEF Pool!Take
  <2> QED
    BY <2>1, <2>2
<1> QED
  BY <1>1, PoolApartNeeds, PoolLeaves DEF PoolInv

(* A login that was counted stays counted.                                 *)
LEMMA PoolCountingKept ==
    ASSUME PoolInv, UNCHANGED <<attempts, hardened>>, PoolCounted \subseteq PoolCounted'
    PROVE  PoolCounting'
<1> USE DEF PoolInv
<1>1. PoolCounted' \in SUBSET Pool!Logins
  BY DEF PoolCounted
<1>2. IsFiniteSet(PoolCounted')
  BY <1>1, PoolFiniteParts, FS_Subset
<1>3. Cardinality(PoolCounted) <= Cardinality(PoolCounted') /\ Cardinality(PoolCounted') \in Nat
  BY <1>2, FS_Subset, FS_CardinalityType
<1> QED
  BY <1>3, PoolFiniteParts DEF PoolCounting

LEMMA PoolConnect == ASSUME PoolInv, NEW r \in Pool!Requests, Pool!Connect(r) PROVE PoolInv'
<1> USE DEF PoolInv, Pool!Connect, Pool!Goto
<1>1. r \notin main /\ phase[r] \in {"new", "thread", "lookup"} /\ r \notin event
      /\ phase \in [Pool!Requests -> PoolPhases]
  BY DEF Pool!NeedsMain, PoolPlaces, Pool!Events
<1>2. PICK p \in {"prompt", "session", "lookup", "thread"} : phase' = [phase EXCEPT ![r] = p]
                /\ (p = "session" => phase[r] = "new" /\ r \notin Asks)
                /\ (main' = main \cup {r} \/ main' = main)
  <2>1. CASE main' = main \cup {r}
               /\ Pool!Goto(r, IF r \in Asks THEN "prompt"
                    ELSE IF phase[r] = "new" THEN "session" ELSE "lookup")
    BY <2>1
  <2>2. CASE Pool!Goto(r, "thread") /\ UNCHANGED main
    BY <2>2
  <2> QED
    BY <2>1, <2>2
<1>3. PoolApart(r)
  BY <1>1, <1>2 DEF PoolApart
<1>4. PoolPlaces'
  <2>1. r \in Asks \/ r \in Pool!Logins
    BY DEF Pool!Requests
  <2> QED
    BY <1>1, <1>2, <2>1 DEF PoolPlaces, PoolPhases, Pool!Events, Pool!Ended
<1>5. PoolBounded'
  <2>1. Cardinality(main) + Cardinality(event) < PoolSize /\ PoolSize \in Nat
    BY PoolCounts DEF Pool!Take, Pool!Free
  <2>2. Cardinality(main \cup {r}) = Cardinality(main) + 1
    BY <1>1, PoolFiniteParts, FS_AddElement
  <2>3. Cardinality(main') \in {Cardinality(main), Cardinality(main) + 1} /\ event' = event
    BY <1>2, <2>2
  <2> QED
    BY <2>1, <2>3, PoolFiniteParts DEF PoolBounded
<1>6. PoolInLine'
  BY <1>3, PoolServe DEF Pool!Needs
<1>7. PoolCounting'
  BY <1>1, <1>2, PoolCountingKept DEF PoolCounted, PoolPlaces
<1> QED
  BY <1>4, <1>5, <1>6, <1>7

LEMMA PoolConnectEvent ==
    ASSUME PoolInv, NEW r \in Pool!Requests, Pool!ConnectEvent(r)
    PROVE  PoolInv'
<1> USE DEF PoolInv, Pool!ConnectEvent
<1>1. r \notin event /\ phase[r] \in Pool!Events /\ event' = event \cup {r}
  BY DEF Pool!NeedsEvent
<1>2. PoolApart(r)
  BY <1>1 DEF PoolApart
<1>3. PoolPlaces'
  BY <1>1 DEF PoolPlaces
<1>4. PoolBounded'
  <2>1. Cardinality(main) + Cardinality(event) < PoolSize /\ PoolSize \in Nat
    BY PoolCounts DEF Pool!Take, Pool!Free
  <2>2. Cardinality(event \cup {r}) = Cardinality(event) + 1
    BY <1>1, PoolFiniteParts, FS_AddElement
  <2> QED
    BY <1>1, <2>1, <2>2, PoolFiniteParts DEF PoolBounded
<1>5. PoolInLine'
  BY <1>2, PoolServe DEF Pool!Needs
<1>6. PoolCounting'
  BY PoolCountingKept DEF PoolCounted
<1> QED
  BY <1>3, <1>4, <1>5, <1>6

(* Fewer hold a connection.                                                *)
LEMMA PoolBoundedKept ==
    ASSUME PoolInv, main' \subseteq main, event' \subseteq event
    PROVE  PoolBounded'
<1> USE DEF PoolInv
<1>1. /\ Cardinality(main') <= Cardinality(main) /\ IsFiniteSet(main')
      /\ Cardinality(event') <= Cardinality(event) /\ IsFiniteSet(event')
  BY PoolFiniteParts, FS_Subset
<1>2. Cardinality(main') \in Nat /\ Cardinality(event') \in Nat
  BY <1>1, FS_CardinalityType
<1>3. PoolSize \in Nat
  OBVIOUS
<1> QED
  BY <1>1, <1>2, <1>3, PoolFiniteParts DEF PoolBounded

(* r, which asks for no connection, goes on to p.                          *)
LEMMA PoolOnward ==
    ASSUME PoolInv, NEW r \in Pool!Requests, NEW p \in PoolPhases \ {"new", "session"},
           ~Pool!Needs(r), phase[r] \notin Pool!Events, phase' = [phase EXCEPT ![r] = p],
           main' = main \/ main' = main \ {r},
           p \in Pool!Ended => main' = main \ {r},
           UNCHANGED <<hardened, event, line, lock, logged>>
    PROVE  PoolPlaces' /\ PoolBounded' /\ PoolInLine'
             /\ PoolCounted' = PoolCounted \cup ({r} \cap Pool!Logins)
<1> USE DEF PoolInv
<1>1. PoolApart(r)
  BY DEF PoolApart, PoolPlaces
<1>2. PoolPlaces'
  BY DEF PoolPlaces
<1>3. PoolBounded'
  BY PoolBoundedKept
<1>4. r \notin Pool!ToSet(line)
  BY PoolLineFacts
<1>5. PoolInLine'
  BY <1>1, <1>4, PoolApartNeeds, PoolLeaves
<1>6. PoolCounted' = PoolCounted \cup ({r} \cap Pool!Logins)
  BY DEF PoolCounted, PoolPlaces, Pool!Requests
<1> QED
  BY <1>2, <1>3, <1>5, <1>6

LEMMA PoolLimit == ASSUME PoolInv, NEW r \in Pool!Requests, Pool!Limit(r) PROVE PoolInv'
<1> USE DEF PoolInv, Pool!Limit
<1>1. PICK p \in {"lookup", "limited", "blocked"} :
        phase' = [phase EXCEPT ![r] = p] /\ attempts' = attempts + 1 /\ main' = main \ {r}
  BY DEF Pool!Count, Pool!Goto, Pool!Release
<1>2. p \in PoolPhases \ {"new", "session"} /\ phase[r] \notin Pool!Events /\ ~Pool!Needs(r)
        /\ r \in Pool!Logins
  BY DEF PoolPhases, Pool!Events, Pool!Ended, Pool!Needs, Pool!NeedsMain, Pool!NeedsEvent,
       PoolPlaces
<1>3. PoolPlaces' /\ PoolBounded' /\ PoolInLine' /\ PoolCounted' = PoolCounted \cup {r}
  BY <1>1, <1>2, PoolOnward
<1>4. PoolCounting'
  <2>1. r \notin PoolCounted
    BY DEF PoolCounted
  <2>2. Cardinality(PoolCounted') = Cardinality(PoolCounted) + 1
    BY <1>3, <2>1, PoolFiniteParts, FS_AddElement
  <2> QED
    BY <1>1, <2>2, PoolFiniteParts DEF PoolCounting
<1> QED
  BY <1>3, <1>4

LEMMA PoolSteps ==
    ASSUME PoolInv, NEW r \in Pool!Requests,
           \/ Pool!Lookup(r) \/ Pool!Reject(r) \/ Pool!AcceptRed(r) \/ Pool!AcceptBlue(r)
           \/ Pool!TakeTurn(r) \/ Pool!NoTurn(r) \/ Pool!Answer(r) \/ Pool!Save(r)
    PROVE  PoolInv'
<1> USE DEF PoolInv
<1>1. PICK p \in {"verify", "failed", "welcome", "done", "model", "error", "tool", "save"} :
        /\ phase' = [phase EXCEPT ![r] = p]
        /\ phase[r] \in {"session", "lookup", "verify", "queue", "model", "save"}
        /\ phase[r] = "lookup" => r \in main
        /\ main' = main \/ main' = main \ {r}
        /\ p \in {"done", "error"} => main' = main \ {r}
        /\ UNCHANGED <<hardened, event, line, lock, logged, attempts>>
  <2>1. CASE Pool!Lookup(r)
    BY <2>1 DEF Pool!Lookup, Pool!Goto
  <2>2. CASE Pool!Reject(r)
    BY <2>2 DEF Pool!Reject, Pool!Release, Pool!Goto
  <2>3. CASE Pool!AcceptRed(r)
    BY <2>3 DEF Pool!AcceptRed, Pool!Goto
  <2>4. CASE Pool!AcceptBlue(r)
    BY <2>4 DEF Pool!AcceptBlue, Pool!Release, Pool!Goto
  <2>5. CASE Pool!TakeTurn(r)
    BY <2>5 DEF Pool!TakeTurn, Pool!Goto
  <2>6. CASE Pool!NoTurn(r)
    BY <2>6 DEF Pool!NoTurn, Pool!Release, Pool!Goto
  <2>7. CASE Pool!Answer(r)
    BY <2>7 DEF Pool!Answer, Pool!Goto
  <2>8. CASE Pool!Save(r)
    BY <2>8 DEF Pool!Save, Pool!Release, Pool!Goto
  <2> QED
    BY <2>1, <2>2, <2>3, <2>4, <2>5, <2>6, <2>7, <2>8
<1>2. p \in PoolPhases \ {"new", "session"} /\ phase[r] \notin Pool!Events /\ ~Pool!Needs(r)
      /\ (p \in Pool!Ended => main' = main \ {r})
  BY <1>1 DEF PoolPhases, Pool!Events, Pool!Ended, Pool!Needs, Pool!NeedsMain, Pool!NeedsEvent
<1>3. PoolPlaces' /\ PoolBounded' /\ PoolInLine' /\ PoolCounted \subseteq PoolCounted'
  BY <1>1, <1>2, PoolOnward
<1>4. PoolCounting'
  BY <1>1, <1>3, PoolCountingKept
<1> QED
  BY <1>3, <1>4

LEMMA PoolTakeLock == ASSUME PoolInv, NEW r \in Pool!Requests, Pool!TakeLock(r) PROVE PoolInv'
<1> USE DEF PoolInv, Pool!TakeLock
<1>1. PoolPlaces'
  BY DEF PoolPlaces
<1>2. PoolBounded' /\ PoolInLine' /\ PoolCounting'
  BY DEF PoolBounded, PoolInLine, Pool!Needs, Pool!NeedsMain, Pool!NeedsEvent, PoolCounting,
       PoolCounted
<1> QED
  BY <1>1, <1>2

LEMMA PoolWrite == ASSUME PoolInv, NEW r \in Pool!Requests, Pool!Write(r) PROVE PoolInv'
<1> USE DEF PoolInv, Pool!Write
<1>1. phase[r] \in Pool!Events /\ r \in event /\ ~Pool!Needs(r)
  BY DEF PoolPlaces, Pool!Needs, Pool!NeedsMain, Pool!NeedsEvent, Pool!Events
<1>2. PoolApart(r)
  BY DEF PoolApart
<1>3. PoolPlaces'
  BY <1>1 DEF PoolPlaces
<1>4. PoolBounded'
  BY PoolBoundedKept
<1>5. PoolInLine'
  <2>1. r \notin Pool!ToSet(line)
    BY <1>1, PoolLineFacts
  <2> QED
    BY <1>2, <2>1, PoolApartNeeds, PoolLeaves
<1>6. PoolCounting'
  BY PoolCountingKept DEF PoolCounted
<1> QED
  BY <1>3, <1>4, <1>5, <1>6

LEMMA PoolRefresh ==
    ASSUME PoolInv, PoolLocked, NEW r \in Pool!Requests, Pool!Refresh(r)
    PROVE  PoolInv'
<1> USE DEF PoolInv, Pool!Refresh
<1>0. r \notin lock
  BY DEF PoolLocked
<1>1. phase[r] \in Pool!Events /\ r \in event
  BY DEF PoolPlaces
<1>2. PICK p \in {"queue", "save", "blocked", "done"} :
        /\ phase' = [phase EXCEPT ![r] = p]
        /\ main' = IF p \in {"blocked", "done"} THEN main \ {r} ELSE main
        /\ p = Pool!After(r)
  BY <1>1, PoolAfterPhases DEF Pool!Resume, Pool!Release, Pool!Goto, Pool!Ended
<1>3. PoolApart(r)
  BY <1>2 DEF PoolApart, PoolPlaces
<1>4. PoolPlaces'
  <2>1. phase' \in [Pool!Requests -> PoolPhases]
          /\ \A q \in Pool!Requests : phase'[q] = "session" => q \in Pool!Logins
    BY <1>2 DEF PoolPlaces, PoolPhases, Pool!Ended
  <2>2. main' \subseteq {q \in Pool!Requests : phase'[q] \notin Pool!Ended \cup {"new"}}
    BY <1>2 DEF PoolPlaces, Pool!Ended
  <2>3. event' \subseteq {q \in Pool!Requests : phase'[q] \in Pool!Events}
    BY <1>2 DEF PoolPlaces
  <2>4. (lock' \subseteq event' /\ \A q, s \in lock' : q = s)
          /\ logged' \subseteq Pool!Requests \X Pool!Events
    BY <1>0, <1>1 DEF PoolPlaces
  <2> QED
    BY <2>1, <2>2, <2>3, <2>4 DEF PoolPlaces
<1>5. PoolBounded'
  BY <1>2, PoolBoundedKept
<1>6. PoolInLine'
  <2>1. ~Pool!Needs(r)
    BY <1>1 DEF Pool!Needs, Pool!NeedsMain, Pool!NeedsEvent, Pool!Events
  <2>2. r \notin Pool!ToSet(line)
    BY <2>1, PoolLineFacts
  <2> QED
    BY <1>3, <2>2, PoolApartNeeds, PoolLeaves
<1>7. PoolCounting'
  BY <1>2, PoolCountingKept DEF PoolCounted, PoolPlaces
<1> QED
  BY <1>4, <1>5, <1>6, <1>7

LEMMA PoolTimeout == ASSUME PoolInv, NEW r \in Pool!Requests, Pool!PoolTimeout(r) PROVE PoolInv'
<1> USE DEF PoolInv, Pool!PoolTimeout
<1>1. line # <<>> /\ r = line[1] /\ line' = Tail(line) /\ Pool!Needs(r)
  BY PoolLineFacts DEF PoolInLine
<1>2. PICK p \in {"error", "uncounted", "queue", "save", "blocked", "done"} :
        /\ phase' = [phase EXCEPT ![r] = p]
        /\ main' = main \/ main' = main \ {r}
        /\ p \in {"blocked", "done"} => main' = main \ {r}
        /\ p \in {"error", "uncounted"} => main' = main
        /\ p = "error" => r \notin main
        /\ p = "error" => Pool!NeedsMain(r)
  <2>1. CASE Pool!NeedsMain(r) /\ Pool!Goto(r, "error") /\ UNCHANGED main
    BY <2>1 DEF Pool!Goto, Pool!NeedsMain
  <2>2. CASE phase[r] = "failed" /\ Pool!Goto(r, "uncounted") /\ UNCHANGED main
    BY <2>2 DEF Pool!Goto
  <2>3. CASE Pool!NeedsEvent(r) /\ Pool!Resume(r)
    <3>1. Pool!After(r) \in {"queue", "save", "blocked", "done"}
      BY <2>3, PoolAfterPhases DEF Pool!NeedsEvent
    <3> QED
      BY <2>3, <3>1 DEF Pool!Resume, Pool!Release, Pool!Goto, Pool!Ended
  <2> QED
    BY <2>1, <2>2, <2>3
<1>3. r \notin event
  BY <1>1 DEF Pool!Needs, Pool!NeedsMain, Pool!NeedsEvent, PoolPlaces, Pool!Events
<1>4. PoolApart(r)
  BY <1>2 DEF PoolApart, PoolPlaces
<1>5. PoolPlaces'
  <2>1. phase' \in [Pool!Requests -> PoolPhases]
          /\ \A q \in Pool!Requests : phase'[q] = "session" => q \in Pool!Logins
    BY <1>2 DEF PoolPlaces, PoolPhases, Pool!Ended, Pool!Events
  <2>2. main' \subseteq {q \in Pool!Requests : phase'[q] \notin Pool!Ended \cup {"new"}}
    BY <1>2 DEF PoolPlaces, Pool!Ended
  <2>3. event' \subseteq {q \in Pool!Requests : phase'[q] \in Pool!Events}
    BY <1>2, <1>3 DEF PoolPlaces
  <2> QED
    BY <2>1, <2>2, <2>3 DEF PoolPlaces
<1>6. PoolBounded'
  BY <1>2, PoolBoundedKept
<1>7. PoolInLine'
  BY <1>1, <1>4, PoolApartNeeds, PoolLeaves
<1>8. PoolCounting'
  BY <1>2, PoolCountingKept DEF PoolCounted, PoolPlaces
<1> QED
  BY <1>5, <1>6, <1>7, <1>8

(* Who holds the lock goes nowhere but to its commit.                      *)
LEMMA PoolLockedKept ==
    ASSUME PoolInv, PoolLocked, NEW r \in Pool!Requests, r \notin event,
           \A q \in Pool!Requests : q # r => phase'[q] = phase[q], UNCHANGED <<lock, logged>>
    PROVE  PoolLocked'
  BY DEF PoolInv, PoolPlaces, PoolLocked, Pool!Written

LEMMA PoolLockedInv ==
    ASSUME PoolInv, PoolLocked, NEW r \in Pool!Requests, Pool!Step(r) \/ Pool!NoTurn(r)
    PROVE  PoolLocked'
<1> USE DEF PoolInv
<1>1. /\ phase \in [Pool!Requests -> PoolPhases] /\ line \in Seq(Pool!Requests)
      /\ \A q \in event : q \in Pool!Requests /\ phase[q] \in Pool!Events
      /\ lock \subseteq event /\ \A i \in 1 .. Len(line) : Pool!Needs(line[i])
  BY DEF PoolPlaces, PoolInLine
<1>2. CASE Pool!Wait(r) \/ Pool!ConnectEvent(r)
  BY <1>2 DEF Pool!Wait, Pool!ConnectEvent, PoolLocked, Pool!Written
<1>3. CASE Pool!TakeLock(r)
  BY <1>3 DEF Pool!TakeLock, PoolLocked, Pool!Written
<1>4. CASE Pool!Write(r)
  BY <1>1, <1>4 DEF Pool!Write, PoolLocked, Pool!Written
<1>5. CASE Pool!Refresh(r)
  <2>1. r \notin lock
    BY <1>5 DEF Pool!Refresh, PoolLocked
  <2>2. \A q \in Pool!Requests : q # r => phase'[q] = phase[q]
    BY <1>1, <1>5 DEF Pool!Refresh, Pool!Resume, Pool!Goto
  <2> QED
    BY <1>1, <1>5, <2>1, <2>2 DEF Pool!Refresh, PoolLocked, Pool!Written
<1>6. CASE Pool!PoolTimeout(r)
  <2>1. r \notin event
    BY <1>1, <1>6 DEF Pool!PoolTimeout, Pool!Needs, Pool!NeedsMain, Pool!NeedsEvent, Pool!Events
  <2>2. /\ \A q \in Pool!Requests : q # r => phase'[q] = phase[q]
        /\ UNCHANGED <<lock, logged>>
    BY <1>1, <1>6 DEF Pool!PoolTimeout, Pool!Resume, Pool!Goto
  <2> QED
    BY <2>1, <2>2, PoolLockedKept
<1>7. CASE Pool!Connect(r) \/ Pool!Limit(r)
  <2>1. r \notin event
    BY <1>1, <1>7 DEF Pool!Connect, Pool!Limit, Pool!NeedsMain, Pool!Events
  <2>2. /\ \A q \in Pool!Requests : q # r => phase'[q] = phase[q]
        /\ UNCHANGED <<lock, logged>>
    BY <1>1, <1>7 DEF Pool!Connect, Pool!Limit, Pool!Count, Pool!Goto
  <2> QED
    BY <2>1, <2>2, PoolLockedKept
<1>8. CASE \/ Pool!Lookup(r) \/ Pool!Reject(r) \/ Pool!AcceptRed(r) \/ Pool!AcceptBlue(r)
           \/ Pool!TakeTurn(r) \/ Pool!NoTurn(r) \/ Pool!Answer(r) \/ Pool!Save(r)
  <2>1. r \notin event
    BY <1>1, <1>8 DEF Pool!Lookup, Pool!Reject, Pool!AcceptRed, Pool!AcceptBlue, Pool!TakeTurn,
         Pool!NoTurn, Pool!Answer, Pool!Save, Pool!Events
  <2>2. /\ \A q \in Pool!Requests : q # r => phase'[q] = phase[q]
        /\ UNCHANGED <<lock, logged>>
    BY <1>1, <1>8 DEF Pool!Lookup, Pool!Reject, Pool!AcceptRed, Pool!AcceptBlue, Pool!TakeTurn,
         Pool!NoTurn, Pool!Answer, Pool!Save, Pool!Goto
  <2> QED
    BY <2>1, <2>2, PoolLockedKept
<1> QED
  BY <1>2, <1>3, <1>4, <1>5, <1>6, <1>7, <1>8 DEF Pool!Step

LEMMA PoolNextInv ==
    PoolInv /\ PoolLocked /\ [Pool!Next]_(Pool!vars) => PoolInv' /\ PoolLocked'
<1>1. PoolInv /\ UNCHANGED Pool!vars => PoolInv'
  BY DEF Pool!vars, PoolInv, PoolPlaces, PoolBounded, PoolInLine, Pool!Needs, Pool!NeedsMain,
       Pool!NeedsEvent, PoolCounting, PoolCounted
<1>2. PoolLocked /\ UNCHANGED Pool!vars => PoolLocked'
  BY DEF Pool!vars, PoolLocked, Pool!Written
<1>3. PoolInv /\ PoolLocked /\ Pool!Next => PoolInv'
  BY PoolConnect, PoolConnectEvent, PoolLimit, PoolSteps, PoolTakeLock, PoolWrite, PoolRefresh,
       PoolTimeout, PoolLineWait DEF Pool!Next, Pool!Step
<1>4. PoolInv /\ PoolLocked /\ Pool!Next => PoolLocked'
  BY PoolLockedInv DEF Pool!Next
<1> QED
  BY <1>1, <1>2, <1>3, <1>4

LEMMA PoolInvGivesTypes == PoolInv => Pool!TypeOK
<1> SUFFICES ASSUME PoolInv PROVE Pool!TypeOK
  OBVIOUS
<1> USE DEF PoolInv
<1>1. Pool!IsInjective(line) /\ Pool!ToSet(line) \subseteq {r \in Pool!Requests : Pool!Needs(r)}
  <2>1. DOMAIN line = 1 .. Len(line)
    BY DEF PoolInLine
  <2> QED
    BY <2>1, PoolLineFacts DEF Pool!IsInjective, PoolInLine
<1>2. Cardinality(lock) <= 1
  <2>1. CASE lock = {}
    BY <2>1, FS_EmptySet
  <2>2. CASE lock # {}
    <3>1. PICK p \in lock : lock = {p}
      BY <2>2 DEF PoolPlaces
    <3>2. Cardinality({p}) = 1
      BY FS_Singleton
    <3> QED
      BY ONLY <3>1, <3>2
  <2> QED
    BY <2>1, <2>2
<1>3. attempts \in 0 .. Cardinality(Pool!Logins)
  BY PoolFiniteParts DEF PoolCounting, PoolPlaces
<1> QED
  BY <1>1, <1>2, <1>3, PoolCounts DEF Pool!TypeOK, PoolPlaces, PoolPhases, PoolBounded

(* Requests of every kind hold connections and the lock of a source only   *)
(* while they are at work, never more than the pool has, and wait for one  *)
(* only while they need it (db/database.py).                               *)
THEOREM PoolWellFormed == Pool!Spec => []Pool!TypeOK
<1>1. Pool!Init => PoolInv /\ PoolLocked
  BY PoolInitInv DEF Pool!Init, PoolLocked
<1>2. PoolInv /\ PoolLocked /\ [Pool!Next]_(Pool!vars) => PoolInv' /\ PoolLocked'
  BY PoolNextInv
<1>3. PoolInv => Pool!TypeOK
  BY PoolInvGivesTypes
<1> QED
  BY <1>1, <1>2, <1>3, PTL DEF Pool!Spec

-----------------------------------------------------------------------------
(* A burst of failed logins (ConnectionPool)                               *)

USE DEF Pool!Requests, Pool!Logins

(* Failing Red Team logins and Blue Team logins of either kind.            *)
OnlyFailures == Asks = {} /\ Correct \cap Red = {}

BurstPhases == {"new", "session", "lookup", "verify", "limited", "failed", "done", "blocked"}

(* Who has a connection of its own is not at an event, and who has one for *)
(* an event is.                                                            *)
BurstHolding ==
    /\ phase \in [Pool!Requests -> BurstPhases]
    /\ main \subseteq Pool!Requests /\ event \subseteq Pool!Requests /\ lock \subseteq event
    /\ \A r \in main : phase[r] \in {"session", "lookup", "verify"}
    /\ \A r \in event : phase[r] \in {"limited", "failed"}

(* The attempt that went over the limit is being logged, or was.           *)
BurstAlarm ==
    /\ attempts \in Nat
    /\ attempts > MaxAttempts
         => \E r \in Pool!Logins : phase[r] = "limited" \/ <<r, "limited">> \in logged

(* A login that goes on to fail or to be done was not blocked.             *)
BurstInv == BurstHolding /\ BurstAlarm /\ Pool!FailedCounted

LEMMA BurstInitInv == Pool!Init => BurstInv
BY DEF Pool!Init, BurstInv, BurstHolding, BurstAlarm, Pool!FailedCounted, BurstPhases

(* Somebody who has a connection can always go on without another.         *)
LEMMA NeverStalled == ASSUME OnlyFailures, BurstHolding PROVE ~Pool!Stalled
<1> SUFFICES ASSUME Pool!Stalled PROVE FALSE
  OBVIOUS
<1>1. event = {}
  BY DEF Pool!Stalled, BurstHolding
<1>2. main = {}
  BY <1>1 DEF Pool!Stalled, BurstHolding, Pool!Needs, Pool!NeedsMain, Pool!NeedsEvent, Pool!Events
<1>3. Cardinality({}) = 0
  BY FS_EmptySet
<1>4. QED
  BY <1>1, <1>2, <1>3, PoolCounts DEF Pool!Stalled, Pool!Free

LEMMA BurstConnectInv ==
    ASSUME OnlyFailures, BurstInv, NEW r \in Pool!Requests, Pool!Connect(r)
    PROVE  BurstInv'
<1>1. /\ main' = main \cup {r} /\ phase[r] \in {"new", "lookup"}
      /\ phase' = [phase EXCEPT ![r] = IF phase[r] = "new" THEN "session" ELSE "lookup"]
      /\ UNCHANGED <<event, lock, attempts, logged>>
  BY DEF OnlyFailures, BurstInv, BurstHolding, BurstPhases, Pool!Connect, Pool!NeedsMain, Pool!Goto
<1>2. BurstHolding' /\ Pool!FailedCounted'
  BY <1>1 DEF BurstInv, BurstHolding, BurstPhases, Pool!FailedCounted
<1>3. BurstAlarm'
  BY <1>1 DEF BurstInv, BurstHolding, BurstPhases, BurstAlarm
<1>4. QED
  BY <1>2, <1>3 DEF BurstInv

LEMMA BurstConnectEventInv ==
    ASSUME BurstInv, NEW r \in Pool!Requests, Pool!ConnectEvent(r)
    PROVE  BurstInv'
<1>1. /\ event' = event \cup {r} /\ phase[r] \in {"limited", "failed"}
      /\ UNCHANGED <<main, phase, lock, attempts, logged>>
  BY DEF BurstInv, BurstHolding, BurstPhases, Pool!ConnectEvent, Pool!NeedsEvent, Pool!Events
<1>2. QED
  BY <1>1 DEF BurstInv, BurstHolding, BurstAlarm, Pool!FailedCounted

LEMMA BurstLimitInv ==
    ASSUME OnlyFailures, BurstInv, NEW r \in Pool!Requests, Pool!Limit(r)
    PROVE  BurstInv'
<1>1. /\ phase[r] = "session" /\ main' = main \ {r} /\ attempts' = attempts + 1
      /\ phase' = [phase EXCEPT ![r] = IF attempts < MaxAttempts THEN "lookup"
                                       ELSE IF attempts = MaxAttempts THEN "limited" ELSE "blocked"]
      /\ UNCHANGED <<event, lock, logged>>
  BY DEF Pool!Limit, Pool!Count, Pool!Release, Pool!Goto
<1>2. BurstHolding'
  BY <1>1 DEF BurstInv, BurstHolding, BurstPhases
<1>3. Pool!FailedCounted'
  BY <1>1 DEF BurstInv, BurstHolding, Pool!FailedCounted
<1>4. BurstAlarm'
  <2>1. CASE attempts < MaxAttempts
    BY <1>1, <2>1 DEF BurstInv, BurstAlarm
  <2>2. CASE attempts = MaxAttempts
    <3>1. phase'[r] = "limited" /\ r \in Pool!Logins /\ attempts' \in Nat
      BY <1>1, <2>2 DEF BurstInv, BurstAlarm, BurstHolding, OnlyFailures
    <3>2. QED
      BY <3>1 DEF BurstAlarm
  <2>3. CASE attempts > MaxAttempts
    <3>1. PICK q \in Pool!Logins : phase[q] = "limited" \/ <<q, "limited">> \in logged
      BY <2>3 DEF BurstInv, BurstAlarm
    <3>2. phase'[q] = "limited" \/ <<q, "limited">> \in logged'
      BY <1>1, <3>1 DEF BurstInv, BurstHolding
    <3>3. attempts' \in Nat
      BY <1>1 DEF BurstInv, BurstAlarm
    <3>4. QED
      BY <3>2, <3>3 DEF BurstAlarm
  <2>4. QED
    BY <2>1, <2>2, <2>3 DEF BurstInv, BurstAlarm
<1>5. QED
  BY <1>2, <1>3, <1>4 DEF BurstInv

(* Steps of a login that change nothing but where it is and what it holds. *)
LEMMA BurstOnwardInv ==
    ASSUME OnlyFailures, BurstInv, NEW r \in Pool!Requests, Pool!Lookup(r) \/ Pool!Reject(r)
           \/ Pool!AcceptBlue(r)
    PROVE BurstInv'
<1>1. PICK p \in {"verify", "failed", "done"} :
        /\ phase[r] \in {"session", "lookup", "verify"} /\ phase' = [phase EXCEPT ![r] = p]
        /\ p = "done" => r \in Correct
        /\ \/ p = "verify" /\ main' = main /\ r \in main
           \/ main' = main \ {r}
        /\ UNCHANGED <<event, lock, attempts, logged>>
  <2>1. CASE Pool!Lookup(r)
    BY <2>1 DEF Pool!Lookup, Pool!Goto
  <2>2. CASE Pool!Reject(r)
    BY <2>2 DEF Pool!Reject, Pool!Release, Pool!Goto
  <2>3. CASE Pool!AcceptBlue(r)
    BY <2>3 DEF Pool!AcceptBlue, Pool!Release, Pool!Goto
  <2>4. QED
    BY <2>1, <2>2, <2>3
<1>2. BurstHolding'
  BY <1>1 DEF BurstInv, BurstHolding, BurstPhases
<1>3. Pool!FailedCounted'
  BY <1>1 DEF BurstInv, BurstHolding, Pool!FailedCounted
<1>4. BurstAlarm'
  BY <1>1 DEF BurstInv, BurstHolding, BurstAlarm
<1>5. QED
  BY <1>2, <1>3, <1>4 DEF BurstInv

LEMMA BurstWriteInv ==
    ASSUME BurstInv, NEW r \in Pool!Requests, Pool!Write(r)
    PROVE  BurstInv'
  BY DEF Pool!Write, BurstInv, BurstHolding, BurstAlarm, Pool!FailedCounted

LEMMA BurstRefreshInv ==
    ASSUME BurstInv, PoolLocked, NEW r \in Pool!Requests, Pool!Refresh(r)
    PROVE  BurstInv'
<1>1. /\ r \in event /\ phase[r] \in {"limited", "failed"} /\ phase[r] \in BurstPhases
      /\ <<r, phase[r]>> \in logged /\ logged' = logged /\ r \notin lock
      /\ event' = event \ {r} /\ lock' = lock /\ attempts' = attempts
  BY DEF BurstInv, BurstHolding, Pool!Refresh, Pool!Written, PoolLocked
<1>2. Pool!After(r) = IF phase[r] = "limited" THEN "blocked" ELSE "done"
  BY <1>1 DEF Pool!After
<1>3. phase' = [phase EXCEPT ![r] = Pool!After(r)] /\ main' = main \ {r}
  BY <1>2 DEF Pool!Refresh, Pool!Resume, Pool!Release, Pool!Goto, Pool!Ended
<1>4. BurstHolding'
  BY <1>1, <1>2, <1>3 DEF BurstInv, BurstHolding, BurstPhases
<1>5. Pool!FailedCounted'
  <2> SUFFICES ASSUME NEW q \in Pool!Logins \ Correct, phase'[q] = "done"
               PROVE <<q, "failed">> \in logged'
    BY DEF Pool!FailedCounted
  <2>1. CASE q = r
    BY <1>1, <1>2, <1>3, <2>1 DEF BurstInv, BurstHolding
  <2>2. CASE q # r
    BY <1>1, <1>3, <2>2 DEF BurstInv, BurstHolding, Pool!FailedCounted
  <2>3. QED
    BY <2>1, <2>2
<1>6. BurstAlarm'
  <2>1. attempts' \in Nat
    BY <1>1 DEF BurstInv, BurstAlarm
  <2> SUFFICES ASSUME attempts' > MaxAttempts
               PROVE (\E q \in Pool!Logins : phase[q] = "limited" \/ <<q, "limited">> \in logged)'
    BY <2>1 DEF BurstAlarm
  <2>2. PICK q \in Pool!Logins : phase[q] = "limited" \/ <<q, "limited">> \in logged
    BY <1>1 DEF BurstInv, BurstAlarm
  <2>3. phase'[q] = "limited" \/ <<q, "limited">> \in logged'
    BY <1>1, <1>3, <2>2 DEF BurstInv, BurstHolding
  <2>4. QED
    BY <2>3
<1>7. QED
  BY <1>4, <1>5, <1>6 DEF BurstInv

(* The remaining steps: waiting, the lock, and what only chats, successful *)
(* Red Team logins or a stalled pool can do.                               *)
LEMMA BurstOtherInv ==
    ASSUME OnlyFailures, BurstInv, NEW r \in Pool!Requests,
           \/ Pool!Wait(r) \/ Pool!TakeLock(r) \/ Pool!PoolTimeout(r) \/ Pool!AcceptRed(r)
           \/ Pool!TakeTurn(r) \/ Pool!NoTurn(r) \/ Pool!Answer(r) \/ Pool!Save(r)
    PROVE BurstInv'
<1>1. CASE Pool!Wait(r)
  BY <1>1 DEF Pool!Wait, BurstInv, BurstHolding, BurstAlarm, Pool!FailedCounted
<1>2. CASE Pool!TakeLock(r)
  BY <1>2 DEF Pool!TakeLock, BurstInv, BurstHolding, BurstAlarm, Pool!FailedCounted
<1>3. CASE Pool!PoolTimeout(r)
  BY <1>3, NeverStalled DEF Pool!PoolTimeout, BurstInv
<1>4. CASE Pool!AcceptRed(r)
  BY <1>4 DEF Pool!AcceptRed, OnlyFailures
<1>5. CASE Pool!TakeTurn(r) \/ Pool!NoTurn(r) \/ Pool!Answer(r) \/ Pool!Save(r)
  <2>1. phase[r] \in BurstPhases
    BY DEF BurstInv, BurstHolding
  <2>2. QED
    BY <1>5, <2>1 DEF Pool!TakeTurn, Pool!NoTurn, Pool!Answer, Pool!Save, BurstPhases
<1>6. QED
  BY <1>1, <1>2, <1>3, <1>4, <1>5

LEMMA BurstNextInv ==
    ASSUME OnlyFailures, PoolLocked, BurstInv, [Pool!Next]_(Pool!vars)
    PROVE  BurstInv'
<1>1. CASE Pool!Next
  <2>1. PICK r \in Pool!Requests : Pool!Step(r) \/ Pool!NoTurn(r)
    BY <1>1 DEF Pool!Next
  <2>2. QED
    BY <2>1, BurstConnectInv, BurstConnectEventInv, BurstLimitInv, BurstOnwardInv, BurstWriteInv,
         BurstRefreshInv, BurstOtherInv DEF Pool!Step
<1>2. CASE UNCHANGED Pool!vars
  BY <1>2 DEF Pool!vars, BurstInv, BurstHolding, BurstAlarm, Pool!FailedCounted
<1>3. QED
  BY <1>1, <1>2

LEMMA AlarmSounds == BurstInv => Pool!FirstBlockedLogged
BY DEF BurstInv, BurstAlarm, Pool!FirstBlockedLogged, Pool!Ended

(* However many logins fail at once: those that were answered are in the   *)
(* log, and the first attempt over the limit is (auth/service.py:254,      *)
(* defense/service.py:138).                                                *)
THEOREM BurstIsLogged == ASSUME OnlyFailures PROVE Pool!Spec => []BurstLogged
<1>1. Pool!Init => PoolInv /\ PoolLocked /\ BurstInv
  BY PoolInitInv, BurstInitInv DEF Pool!Init, PoolLocked
<1>2. PoolInv /\ PoolLocked /\ [Pool!Next]_(Pool!vars) => PoolInv' /\ PoolLocked'
  BY PoolNextInv
<1>3. PoolLocked /\ BurstInv /\ [Pool!Next]_(Pool!vars) => BurstInv'
  BY BurstNextInv
<1>4. PoolInv /\ BurstInv => BurstLogged
  BY PoolInvGivesTypes, AlarmSounds DEF BurstInv, BurstLogged
<1> QED
  BY <1>1, <1>2, <1>3, <1>4, PTL DEF Pool!Spec

=============================================================================
