-------------------------- MODULE ModelQueue_proofs --------------------------
(***************************************************************************)
(* Theorems about ModelQueue for any set of chats and any capacity.        *)
(*                                                                         *)
(* The argument is about the deque of waiters: it holds each waiting client*)
(* once, only its first member can have been woken, and only while the     *)
(* lock is free.  So a woken client that takes the lock takes it from      *)
(* nobody, and nobody who came earlier still wants it.                     *)
(***************************************************************************)
EXTENDS ModelQueue, SequenceTheorems, FiniteSetTheorems, TLAPS

USE QueueAssumption

-----------------------------------------------------------------------------
(* Sequences without repetition *)

Injective(s) == \A i, j \in DOMAIN s : s[i] = s[j] => i = j

Occurs(s, c) == \E i \in DOMAIN s : s[i] = c

(* What RemoveAt returns.                                                  *)
LEMMA RemoveAtElements ==
    ASSUME NEW S, NEW s \in Seq(S), NEW n \in DOMAIN s
    PROVE  /\ RemoveAt(s, n) \in Seq(S)
           /\ Len(RemoveAt(s, n)) = Len(s) - 1
           /\ \A i \in 1 .. Len(s) - 1 :
                RemoveAt(s, n)[i] = IF i < n THEN s[i] ELSE s[i + 1]
<1>1. n \in 1 .. Len(s) /\ Len(s) \in Nat /\ \A i \in 1 .. Len(s) : s[i] \in S
  BY LenProperties, ElementOfSeq
<1> DEFINE a == SubSeq(s, 1, n - 1)
           b == SubSeq(s, n + 1, Len(s))
<1>2. /\ a \in Seq(S)
      /\ Len(a) = n - 1
      /\ \A i \in 1 .. n - 1 : a[i] = s[i]
  <2>1. \A i \in 1 .. n - 1 : s[i] \in S
    BY <1>1
  <2>2. 1 \in Int /\ n - 1 \in Int
    BY <1>1
  <2> HIDE DEF a
  <2>3. /\ a \in Seq(S)
        /\ Len(a) = IF 1 <= n - 1 THEN (n - 1) - 1 + 1 ELSE 0
        /\ \A i \in 1 .. (n - 1) - 1 + 1 : a[i] = s[1 + i - 1]
    BY <2>1, <2>2, SubSeqProperties DEF a
  <2>4. QED
    BY <2>3, <1>1
<1>3. /\ b \in Seq(S)
      /\ Len(b) = Len(s) - n
      /\ \A i \in 1 .. Len(s) - n : b[i] = s[n + i]
  <2>1. \A i \in n + 1 .. Len(s) : s[i] \in S
    BY <1>1
  <2>2. n + 1 \in Int /\ Len(s) \in Int
    BY <1>1
  <2> HIDE DEF b
  <2>3. /\ b \in Seq(S)
        /\ Len(b) = IF n + 1 <= Len(s) THEN Len(s) - (n + 1) + 1 ELSE 0
        /\ \A i \in 1 .. Len(s) - (n + 1) + 1 : b[i] = s[(n + 1) + i - 1]
    BY <2>1, <2>2, SubSeqProperties DEF b
  <2>4. QED
    BY <2>3, <1>1
<1> HIDE DEF a, b
<1>4. /\ a \o b \in Seq(S)
      /\ Len(a \o b) = Len(a) + Len(b)
      /\ \A i \in 1 .. Len(a) + Len(b) :
           (a \o b)[i] = IF i <= Len(a) THEN a[i] ELSE b[i - Len(a)]
  BY <1>2, <1>3, ConcatProperties
<1>5. RemoveAt(s, n) = a \o b
  BY DEF RemoveAt, a, b
<1>6. Len(a) + Len(b) = Len(s) - 1
  BY <1>1, <1>2, <1>3
<1>7. ASSUME NEW i \in 1 .. Len(s) - 1
      PROVE  (a \o b)[i] = IF i < n THEN s[i] ELSE s[i + 1]
  <2>1. CASE i < n
    BY <2>1, <1>1, <1>2, <1>4, <1>6
  <2>2. CASE ~(i < n)
    <3>1. i - (n - 1) \in 1 .. Len(s) - n /\ i > Len(a)
      BY <2>2, <1>1, <1>2
    <3>2. (a \o b)[i] = b[i - Len(a)]
      BY <3>1, <1>1, <1>4, <1>6
    <3>3. b[i - (n - 1)] = s[n + (i - (n - 1))] /\ n + (i - (n - 1)) = i + 1
      BY SMTT(30), <3>1, <1>3, <1>1
    <3>4. QED
      BY <2>2, <3>2, <3>3, <1>2
  <2>3. QED
    BY <2>1, <2>2
<1>8. QED
  BY <1>4, <1>5, <1>6, <1>7

(* Removing one member of a sequence without repetition leaves the others  *)
(* in their order.                                                         *)
LEMMA RemoveAtOrder ==
    ASSUME NEW S, NEW s \in Seq(S), NEW n \in DOMAIN s, Injective(s)
    PROVE  /\ Injective(RemoveAt(s, n))
           /\ \A c : Occurs(RemoveAt(s, n), c) <=> Occurs(s, c) /\ c # s[n]
           /\ \A c, d : c # s[n] /\ d # s[n] =>
                (Ahead(RemoveAt(s, n), c, d) <=> Ahead(s, c, d))
<1> DEFINE t == RemoveAt(s, n)
<1>1. /\ t \in Seq(S)
      /\ Len(t) = Len(s) - 1
      /\ \A i \in 1 .. Len(s) - 1 : t[i] = IF i < n THEN s[i] ELSE s[i + 1]
  BY RemoveAtElements
<1> HIDE DEF t
<1>2. /\ DOMAIN s = 1 .. Len(s) /\ Len(s) \in Nat
      /\ DOMAIN t = 1 .. Len(s) - 1
      /\ n \in 1 .. Len(s)
  BY <1>1, LenProperties
<1>3. Injective(t)
  <2>1. ASSUME NEW i \in 1 .. Len(s) - 1, NEW j \in 1 .. Len(s) - 1, t[i] = t[j]
        PROVE  i = j
    <3> DEFINE p == IF i < n THEN i ELSE i + 1
               q == IF j < n THEN j ELSE j + 1
    <3>1. p \in 1 .. Len(s) /\ q \in 1 .. Len(s)
      BY <1>2
    <3>2. s[p] = s[q]
      BY <2>1, <1>1
    <3> HIDE DEF p, q
    <3>3. p = q
      BY <3>1, <3>2, <1>2 DEF Injective
    <3>4. QED
      BY <3>3, <1>2 DEF p, q
  <2>2. QED
    BY <2>1, <1>2 DEF Injective
(* Where each member of s went.                                            *)
<1>4. ASSUME NEW i \in 1 .. Len(s), i # n
      PROVE  LET k == IF i < n THEN i ELSE i - 1
             IN  k \in 1 .. Len(s) - 1 /\ t[k] = s[i]
  BY <1>1, <1>2, <1>4
<1>5. \A c : Occurs(t, c) <=> Occurs(s, c) /\ c # s[n]
  <2>1. ASSUME NEW c, Occurs(t, c)
        PROVE  Occurs(s, c) /\ c # s[n]
    BY <2>1, <1>1, <1>2 DEF Occurs, Injective
  <2>2. ASSUME NEW c, Occurs(s, c), c # s[n]
        PROVE  Occurs(t, c)
    <3>1. PICK i \in 1 .. Len(s) : s[i] = c
      BY <2>2, <1>2 DEF Occurs
    <3>2. i # n
      BY <2>2, <3>1
    <3>3. QED
      BY <3>1, <3>2, <1>2, <1>4 DEF Occurs
  <2>3. QED
    BY <2>1, <2>2
<1>6. ASSUME NEW c, NEW d, c # s[n], d # s[n]
      PROVE  Ahead(t, c, d) <=> Ahead(s, c, d)
  <2>1. ASSUME Ahead(t, c, d)
        PROVE  Ahead(s, c, d)
    <3>1. PICK i \in 1 .. Len(s) - 1, j \in 1 .. Len(s) - 1 : i < j /\ t[i] = c /\ t[j] = d
      BY <2>1, <1>2 DEF Ahead
    <3> DEFINE p == IF i < n THEN i ELSE i + 1
               q == IF j < n THEN j ELSE j + 1
    <3>2. p \in 1 .. Len(s) /\ q \in 1 .. Len(s) /\ p < q
      BY <3>1, <1>2
    <3>3. s[p] = c /\ s[q] = d
      BY <3>1, <1>1
    <3>4. QED
      BY <3>2, <3>3, <1>2 DEF Ahead
  <2>2. ASSUME Ahead(s, c, d)
        PROVE  Ahead(t, c, d)
    <3>1. PICK i \in 1 .. Len(s), j \in 1 .. Len(s) : i < j /\ s[i] = c /\ s[j] = d
      BY <2>2, <1>2 DEF Ahead
    <3>2. i # n /\ j # n
      BY <3>1, <1>6
    <3> DEFINE p == IF i < n THEN i ELSE i - 1
               q == IF j < n THEN j ELSE j - 1
    <3>3. p \in 1 .. Len(s) - 1 /\ t[p] = c /\ q \in 1 .. Len(s) - 1 /\ t[q] = d
      BY <3>1, <3>2, <1>4
    <3>4. p < q
      BY <3>1, <3>2, <1>2
    <3>5. QED
      BY <3>3, <3>4, <1>2 DEF Ahead
  <2>3. QED
    BY <2>1, <2>2
<1>7. QED
  BY <1>3, <1>5, <1>6 DEF t

-----------------------------------------------------------------------------
(* The inductive invariant *)

Futures == {"none", "pending", "set", "cancelled"}

(* The types of the lock's and the clients' state.                         *)
Types ==
    /\ locked \in BOOLEAN
    /\ waiters \in Seq(Clients)
    /\ fut \in [Clients -> Futures]
    /\ interrupted \in [Clients -> BOOLEAN]
    /\ phase \in [Clients -> {"idle", "waiting", "turn", "orphaned"}]

(* Each waiting client is in the deque, once, and awaits a future; only a  *)
(* waiting chat is interrupted, and its future tells.                      *)
Deque ==
    /\ Injective(waiters)
    /\ \A c \in Clients :
         /\ phase[c] = "waiting" <=> Occurs(waiters, c)
         /\ fut[c] # "none" <=> phase[c] = "waiting"
         /\ fut[c] = "cancelled" => interrupted[c]
         /\ fut[c] = "pending" => ~interrupted[c]
         /\ interrupted[c] => phase[c] = "waiting" /\ c # Soc

(* Only the first waiter can have been woken, and the lock is then free.   *)
OnlyFirstWoken ==
    \A c \in Clients : fut[c] = "set" => ~locked /\ waiters[1] = c

LockInv == Types /\ Deque /\ OnlyFirstWoken /\ OneTurn /\ NoLostWakeup

IInv == LockInv /\ tickets \in Nat /\ TicketsBalanced

LEMMA WakeFirstFutures ==
    ASSUME NEW line \in Seq(Clients), NEW f \in [Clients -> Futures]
    PROVE  /\ WakeFirst(line, f) \in [Clients -> Futures]
           /\ \A c \in Clients : WakeFirst(line, f)[c] =
                IF line # <<>> /\ line[1] = c /\ f[c] = "pending" THEN "set" ELSE f[c]
<1>1. CASE line = <<>>
  BY <1>1 DEF WakeFirst
<1>2. CASE line # <<>>
  <2>1. line[1] \in Clients
    BY <1>2, EmptySeq, ElementOfSeq
  <2>2. QED
    BY <1>2, <2>1 DEF WakeFirst, Futures
<1>3. QED
  BY <1>1, <1>2

LEMMA InitLock == Init => LockInv
<1> SUFFICES ASSUME Init PROVE LockInv
  OBVIOUS
<1>1. Types
  BY EmptySeq DEF Init, Types, Futures
<1>2. Deque
  BY DEF Init, Deque, Injective, Occurs
<1>3. QED
  BY <1>1, <1>2 DEF Init, LockInv, OnlyFirstWoken, OneTurn, NoLostWakeup, Using

(* Lock.acquire up to its first await.                                     *)
LEMMA AcquireLock ==
    ASSUME LockInv, NEW c \in Clients, phase[c] = "idle", Acquire(c),
           UNCHANGED interrupted
    PROVE  LockInv'
<1> USE DEF LockInv
<1>1. CASE Unclaimed /\ locked' = TRUE /\ Goto(c, "turn") /\ UNCHANGED <<waiters, fut>>
  <2>1. Types'
    BY <1>1 DEF Types, Goto
  <2>2. Deque'
    BY <1>1 DEF Deque, Types, Goto
  <2>3. Using' = {c}
    BY <1>1 DEF OneTurn, Unclaimed, Using, Goto, Types
  <2>4. \A d \in Clients : fut[d] # "set"
    BY <1>1 DEF Unclaimed, Deque, Occurs, Types
  <2>5. QED
    BY <1>1, <2>1, <2>2, <2>3, <2>4 DEF OneTurn, OnlyFirstWoken, NoLostWakeup
<1>2. CASE /\ ~Unclaimed
           /\ waiters' = Append(waiters, c)
           /\ fut' = [fut EXCEPT ![c] = "pending"]
           /\ Goto(c, "waiting")
           /\ UNCHANGED locked
  <2>1. /\ waiters' \in Seq(Clients)
        /\ DOMAIN waiters = 1 .. Len(waiters) /\ Len(waiters) \in Nat
        /\ DOMAIN waiters' = 1 .. Len(waiters) + 1
        /\ \A i \in 1 .. Len(waiters) : waiters'[i] = waiters[i]
        /\ waiters'[Len(waiters) + 1] = c
    BY <1>2, AppendProperties, LenProperties DEF Types
  <2>2. Types'
    BY <1>2, <2>1 DEF Types, Goto, Futures
  <2>3. \A d \in Clients : Occurs(waiters', d) <=> Occurs(waiters, d) \/ d = c
    BY <2>1 DEF Occurs
  <2>4. ~Occurs(waiters, c)
    BY DEF Deque
  <2>5. Injective(waiters')
    BY <2>1, <2>4 DEF Deque, Injective, Occurs
  <2>6. Deque'
    BY <1>2, <2>3, <2>5 DEF Deque, Types, Goto
  <2>7. OneTurn'
    <3>1. Using' = Using
      BY <1>2 DEF Using, Goto, Types
    <3>2. QED
      BY <1>2, <3>1 DEF OneTurn
  <2>8. OnlyFirstWoken'
    <3>1. ASSUME NEW d \in Clients, fut'[d] = "set"
          PROVE  ~locked' /\ waiters'[1] = d
      <4>1. d # c /\ fut[d] = "set"
        BY <1>2, <3>1 DEF Types
      <4>2. Occurs(waiters, d)
        BY <4>1 DEF Deque
      <4>3. QED
        BY <1>2, <2>1, <4>1, <4>2 DEF OnlyFirstWoken, Occurs
    <3>2. QED
      BY <3>1 DEF OnlyFirstWoken
  <2>9. NoLostWakeup'
    <3>1. CASE waiters = <<>>
      (* With no waiters, ~Unclaimed means the lock is held.               *)
      BY <1>2, <3>1 DEF NoLostWakeup, Unclaimed
    <3>2. CASE waiters # <<>>
      <4>1. waiters'[1] = waiters[1] /\ waiters[1] \in Clients /\ Occurs(waiters, waiters[1])
        BY <3>2, <2>1, EmptySeq, ElementOfSeq DEF Types, Occurs
      <4>2. waiters[1] # c
        BY <4>1, <2>4
      <4>3. fut'[waiters'[1]] = fut[waiters[1]]
        BY <1>2, <4>1, <4>2 DEF Types
      <4>4. QED
        BY <1>2, <3>2, <4>3 DEF NoLostWakeup
    <3>3. QED
      BY <3>1, <3>2
  <2>10. QED
    BY <2>2, <2>6, <2>7, <2>8, <2>9
<1>3. QED
  BY <1>1, <1>2 DEF Acquire

(* A client leaves the deque.                                              *)
LEMMA Leaving ==
    ASSUME LockInv, NEW c \in Clients, NEW n \in DOMAIN waiters, waiters[n] = c
    PROVE  LET rest == RemoveAt(waiters, n)
           IN  /\ rest \in Seq(Clients)
               /\ Injective(rest)
               /\ \A d \in Clients : Occurs(rest, d) <=> Occurs(waiters, d) /\ d # c
               /\ phase[c] = "waiting"
               /\ waiters[1] # c => rest # <<>> /\ rest[1] = waiters[1]
<1> DEFINE rest == RemoveAt(waiters, n)
<1>1. waiters \in Seq(Clients) /\ Injective(waiters)
  BY DEF LockInv, Types, Deque
<1>2. /\ rest \in Seq(Clients)
      /\ Len(rest) = Len(waiters) - 1
      /\ \A i \in 1 .. Len(waiters) - 1 :
           rest[i] = IF i < n THEN waiters[i] ELSE waiters[i + 1]
  BY <1>1, RemoveAtElements
<1>3. Injective(rest) /\ \A d : Occurs(rest, d) <=> Occurs(waiters, d) /\ d # c
  BY <1>1, RemoveAtOrder
<1>4. phase[c] = "waiting"
  BY DEF LockInv, Deque, Occurs
<1> HIDE DEF rest
<1>5. ASSUME waiters[1] # c
      PROVE  rest # <<>> /\ rest[1] = waiters[1]
  <2>1. n \in 1 .. Len(waiters) /\ Len(waiters) \in Nat /\ n # 1
    BY <1>1, <1>5, LenProperties
  <2>2. 1 \in 1 .. Len(waiters) - 1 /\ 1 < n
    BY <2>1
  <2>3. rest # <<>>
    BY <2>2, <1>2, EmptySeq
  <2>4. QED
    BY <2>2, <2>3, <1>2
<1>6. QED
  BY <1>2, <1>3, <1>4, <1>5 DEF rest

LEMMA TakeTurnLock ==
    ASSUME LockInv, NEW c \in Clients, TakeTurn(c)
    PROVE  LockInv'
<1> USE DEF LockInv
<1>1. PICK n \in DOMAIN waiters : waiters[n] = c /\ waiters' = RemoveAt(waiters, n)
  BY DEF TakeTurn
<1>2. /\ waiters' \in Seq(Clients)
      /\ Injective(waiters')
      /\ \A d \in Clients : Occurs(waiters', d) <=> Occurs(waiters, d) /\ d # c
      /\ phase[c] = "waiting"
  BY <1>1, Leaving
<1>3. Types'
  BY <1>2 DEF TakeTurn, Types, Futures, Goto
<1>4. Deque'
  BY <1>2 DEF TakeTurn, Types, Deque, Goto
(* The lock is free, so nobody uses the GPU.                               *)
<1>5. ~locked /\ Using = {}
  BY DEF TakeTurn, OnlyFirstWoken, OneTurn
<1>6. Using' = {c}
  BY <1>5 DEF TakeTurn, Using, Goto, Types
<1>7. \A d \in Clients : fut'[d] # "set"
  BY DEF TakeTurn, OnlyFirstWoken, Types
<1>8. QED
  BY <1>3, <1>4, <1>6, <1>7 DEF TakeTurn, OneTurn, OnlyFirstWoken, NoLostWakeup

LEMMA InterruptLock ==
    ASSUME LockInv, NEW c \in Chats, Interrupt(c)
    PROVE  LockInv'
<1> USE DEF LockInv
<1>1. c \in Clients /\ c # Soc
  BY DEF Clients
<1>2. Types'
  BY <1>1 DEF Interrupt, Interruptible, Types, Futures
<1>3. Deque'
  BY <1>1 DEF Interrupt, Interruptible, Types, Deque, Futures
<1>4. Using' = Using
  BY DEF Interrupt, Interruptible, Using
<1>5. OnlyFirstWoken'
  BY <1>1 DEF Interrupt, Interruptible, OnlyFirstWoken, Types
<1>6. NoLostWakeup'
  <2>1. CASE waiters = <<>>
    BY <2>1 DEF Interrupt, Interruptible, NoLostWakeup
  <2>2. CASE waiters # <<>>
    <3>1. waiters[1] \in Clients
      BY <2>2, EmptySeq, ElementOfSeq DEF Types
    <3>2. QED
      BY <2>2, <3>1 DEF Interrupt, Interruptible, NoLostWakeup, Types
  <2>3. QED
    BY <2>1, <2>2
<1>7. QED
  BY <1>2, <1>3, <1>4, <1>5, <1>6 DEF Interrupt, Interruptible, OneTurn

(* Lock.acquire of an interrupted client.                                  *)
LEMMA WithdrawLock ==
    ASSUME LockInv, NEW c \in Clients, Withdraw(c), interrupted[c],
           interrupted' = [interrupted EXCEPT ![c] = FALSE], Goto(c, "idle")
    PROVE  LockInv'
<1> USE DEF LockInv
<1> DEFINE rest == [fut EXCEPT ![c] = "none"]
<1>1. PICK n \in DOMAIN waiters :
        /\ waiters[n] = c
        /\ waiters' = RemoveAt(waiters, n)
        /\ fut' = IF locked THEN rest ELSE WakeFirst(waiters', rest)
        /\ UNCHANGED locked
  BY DEF Withdraw
<1>2. /\ waiters' \in Seq(Clients)
      /\ Injective(waiters')
      /\ \A d \in Clients : Occurs(waiters', d) <=> Occurs(waiters, d) /\ d # c
      /\ phase[c] = "waiting"
      /\ waiters[1] # c => waiters' # <<>> /\ waiters'[1] = waiters[1]
  BY <1>1, Leaving
<1>3. rest \in [Clients -> Futures] /\ \A d \in Clients : rest[d] = IF d = c THEN "none" ELSE fut[d]
  BY DEF Types, Futures
<1> HIDE DEF rest
<1>4. /\ fut' \in [Clients -> Futures]
      /\ \A d \in Clients : fut'[d] =
           IF ~locked /\ waiters' # <<>> /\ waiters'[1] = d /\ rest[d] = "pending"
           THEN "set" ELSE rest[d]
  BY <1>1, <1>2, <1>3, WakeFirstFutures
<1>5. Types'
  BY <1>1, <1>2, <1>4 DEF Types, Goto
<1>6. Deque'
  BY <1>1, <1>2, <1>3, <1>4 DEF Types, Deque, Goto
<1>7. Using' = Using
  BY <1>2 DEF Using, Goto, Types
<1>8. OnlyFirstWoken'
  <2>1. ASSUME NEW d \in Clients, fut'[d] = "set"
        PROVE  ~locked' /\ waiters'[1] = d
    <3>1. CASE rest[d] = "set"
      (* d had been woken before, so it was the first and still is.        *)
      BY <3>1, <1>1, <1>2, <1>3 DEF OnlyFirstWoken
    <3>2. CASE rest[d] # "set"
      BY <3>2, <2>1, <1>1, <1>4
    <3>3. QED
      BY <3>1, <3>2
  <2>2. QED
    BY <2>1 DEF OnlyFirstWoken
<1>9. NoLostWakeup'
  <2>1. CASE waiters' = <<>>
    BY <2>1 DEF NoLostWakeup
  <2>2. CASE waiters' # <<>>
    <3>1. waiters'[1] \in Clients
      BY <2>2, <1>2, EmptySeq, ElementOfSeq
    <3>2. QED
      BY <2>2, <3>1, <1>1, <1>4 DEF NoLostWakeup
  <2>3. QED
    BY <2>1, <2>2
<1>10. QED
  BY <1>1, <1>5, <1>6, <1>7, <1>8, <1>9 DEF OneTurn

(* The client that uses the GPU releases the lock.                         *)
LEMMA ReleaseLock ==
    ASSUME LockInv, NEW c \in Using, Release, UNCHANGED interrupted, Goto(c, "idle")
    PROVE  LockInv'
<1> USE DEF LockInv
<1>1. c \in Clients /\ phase[c] \in {"turn", "orphaned"} /\ locked
  BY DEF Using, OneTurn
<1>2. /\ fut' \in [Clients -> Futures]
      /\ \A d \in Clients : fut'[d] =
           IF waiters # <<>> /\ waiters[1] = d /\ fut[d] = "pending" THEN "set" ELSE fut[d]
  BY WakeFirstFutures DEF Release, Types
<1>3. Types'
  BY <1>2 DEF Types, Release, Goto
<1>4. Deque'
  BY <1>1, <1>2 DEF Types, Deque, Release, Goto
<1>5. Using' = {}
  BY DEF Using, OneTurn, Goto, Types
<1>6. OnlyFirstWoken'
  BY <1>1, <1>2 DEF OnlyFirstWoken, Release
<1>7. NoLostWakeup'
  <2>1. CASE waiters = <<>>
    BY <2>1 DEF NoLostWakeup, Release
  <2>2. CASE waiters # <<>>
    <3>1. waiters[1] \in Clients
      BY <2>2, EmptySeq, ElementOfSeq DEF Types
    <3>2. QED
      BY <2>2, <3>1, <1>2 DEF NoLostWakeup, Release
  <2>3. QED
    BY <2>1, <2>2
<1>8. QED
  BY <1>3, <1>4, <1>5, <1>6, <1>7 DEF OneTurn, Release

LEMMA AbandonLock ==
    ASSUME LockInv, NEW c \in Chats, Abandon(c)
    PROVE  LockInv'
<1> USE DEF LockInv
<1>1. c \in Clients
  BY DEF Clients
<1>2. Types' /\ Deque'
  BY <1>1 DEF Abandon, lockVars, Goto, Types, Deque
<1>3. Using' = Using
  BY <1>1 DEF Abandon, Using, Goto, Types
<1>4. QED
  BY <1>2, <1>3 DEF Abandon, lockVars, OneTurn, OnlyFirstWoken, NoLostWakeup

LEMMA LockNext == LockInv /\ [Next]_vars => LockInv'
<1> SUFFICES ASSUME LockInv, [Next]_vars PROVE LockInv'
  OBVIOUS
<1>1. ASSUME NEW c \in Chats, ChatStep(c) PROVE LockInv'
  <2>1. c \in Clients
    BY DEF Clients
  <2>2. CASE Enter(c)
    BY <2>1, <2>2, AcquireLock DEF Enter
  <2>3. CASE Interrupt(c)
    BY <2>3, InterruptLock
  <2>4. CASE GiveUp(c)
    BY <2>1, <2>4, WithdrawLock DEF GiveUp
  <2>5. CASE Finish(c)
    BY <2>1, <2>5, ReleaseLock DEF Finish, ReleaseTurn, Using
  <2>6. CASE Abandon(c)
    BY <2>6, AbandonLock
  <2>7. CASE Finalize(c)
    BY <2>1, <2>7, ReleaseLock DEF Finalize, ReleaseTurn, Using
  <2>8. CASE TurnedAway(c)
    BY <2>8 DEF TurnedAway, vars, lockVars, LockInv, Types, Deque, OnlyFirstWoken,
                OneTurn, NoLostWakeup, Using
  <2>9. QED
    BY <1>1, <2>2, <2>3, <2>4, <2>5, <2>6, <2>7, <2>8 DEF ChatStep
<1>2. ASSUME NEW c \in Clients, TakeTurn(c) PROVE LockInv'
  BY <1>2, TakeTurnLock
<1>3. Soc \in Clients
  BY DEF Clients
<1>4. CASE SocAcquire
  BY <1>3, <1>4, AcquireLock DEF SocAcquire
<1>5. CASE SocRelease
  BY <1>3, <1>5, ReleaseLock DEF SocRelease, Using
<1>6. CASE UNCHANGED vars
  BY <1>6 DEF vars, lockVars, LockInv, Types, Deque, OnlyFirstWoken, OneTurn,
              NoLostWakeup, Using
<1>7. QED
  BY <1>1, <1>2, <1>4, <1>5, <1>6 DEF Next

-----------------------------------------------------------------------------
(* Tickets *)

Inside == {c \in Chats : phase[c] # "idle"}

LEMMA InsideFinite == IsFiniteSet(Inside) /\ Cardinality(Inside) \in Nat
<1>1. Inside \subseteq Chats
  BY DEF Inside
<1>2. QED
  BY <1>1, FS_Subset, FS_CardinalityType

(* A chat comes in or goes out with its ticket.                            *)
LEMMA ComeIn ==
    ASSUME Types, TicketsBalanced, NEW c \in Chats, NEW p \in {"waiting", "turn"},
           phase[c] = "idle", Goto(c, p), tickets' = tickets + 1
    PROVE  tickets' \in Nat /\ TicketsBalanced'
<1>1. Inside' = Inside \cup {c} /\ c \notin Inside
  BY DEF Types, Goto, Inside, Clients
<1>2. Cardinality(Inside') = Cardinality(Inside) + 1
  BY <1>1, InsideFinite, FS_AddElement
<1>3. QED
  BY <1>2, InsideFinite DEF TicketsBalanced, Inside

LEMMA GoOut ==
    ASSUME Types, TicketsBalanced, NEW c \in Chats,
           phase[c] # "idle", Goto(c, "idle"), tickets' = tickets - 1
    PROVE  tickets' \in Nat /\ TicketsBalanced'
<1>1. Inside' = Inside \ {c} /\ c \in Inside
  BY DEF Types, Goto, Inside, Clients
<1>2. Cardinality(Inside') = Cardinality(Inside) - 1 /\ Cardinality(Inside') \in Nat
  <2>1. IsFiniteSet(Inside \ {c})
    BY InsideFinite, FS_Subset
  <2>2. QED
    BY <1>1, <2>1, InsideFinite, FS_RemoveElement, FS_CardinalityType
<1>3. QED
  BY <1>2 DEF TicketsBalanced, Inside

LEMMA StayInside ==
    ASSUME tickets \in Nat, TicketsBalanced, UNCHANGED tickets, Inside' = Inside
    PROVE  tickets' \in Nat /\ TicketsBalanced'
BY DEF TicketsBalanced, Inside

LEMMA InitTickets == Init => tickets \in Nat /\ TicketsBalanced
<1> SUFFICES ASSUME Init PROVE tickets \in Nat /\ TicketsBalanced
  OBVIOUS
<1>1. Inside = {}
  BY DEF Init, Inside, Clients
<1>2. QED
  BY <1>1, FS_EmptySet DEF Init, TicketsBalanced, Inside

LEMMA TicketsNext ==
    IInv /\ [Next]_vars => tickets' \in Nat /\ TicketsBalanced'
<1> SUFFICES ASSUME IInv, [Next]_vars
             PROVE  tickets' \in Nat /\ TicketsBalanced'
  OBVIOUS
<1> USE DEF IInv, LockInv
<1>1. ASSUME NEW c \in Chats, ChatStep(c)
      PROVE  tickets' \in Nat /\ TicketsBalanced'
  <2>1. c \in Clients
    BY DEF Clients
  <2>2. CASE Enter(c)
    BY <2>2, ComeIn DEF Enter, Acquire
  <2>3. CASE Interrupt(c)
    <3>1. Inside' = Inside
      BY <2>3 DEF Interrupt, Interruptible, Inside
    <3>2. QED
      BY <2>3, <3>1, StayInside DEF Interrupt, Interruptible
  <2>4. CASE GiveUp(c)
    <3>1. phase[c] = "waiting"
      BY <2>1, <2>4 DEF GiveUp, Deque
    <3>2. QED
      BY <2>4, <3>1, GoOut DEF GiveUp, DropTicket
  <2>5. CASE Finish(c)
    BY <2>5, GoOut DEF Finish, ReleaseTurn, DropTicket
  <2>6. CASE Abandon(c)
    <3>1. Inside' = Inside
      BY <2>1, <2>6 DEF Abandon, Inside, Goto, Types, Clients
    <3>2. QED
      BY <2>6, <3>1, StayInside DEF Abandon
  <2>7. CASE Finalize(c)
    BY <2>7, GoOut DEF Finalize, ReleaseTurn, DropTicket
  <2>8. CASE TurnedAway(c)
    BY <2>8, StayInside DEF TurnedAway, vars, Inside
  <2>9. QED
    BY <1>1, <2>2, <2>3, <2>4, <2>5, <2>6, <2>7, <2>8 DEF ChatStep
<1>2. ASSUME NEW c \in Clients, TakeTurn(c)
      PROVE  tickets' \in Nat /\ TicketsBalanced'
  <2>1. phase[c] = "waiting"
    BY <1>2 DEF TakeTurn, Deque
  <2>2. Inside' = Inside
    BY <1>2, <2>1 DEF TakeTurn, Goto, Inside, Types, Clients
  <2>3. QED
    BY <1>2, <2>2, StayInside DEF TakeTurn
<1>3. CASE SocAcquire \/ SocRelease
  <2>1. Soc \notin Chats /\ Soc \in Clients
    BY DEF Clients
  <2>2. Inside' = Inside
    BY <1>3, <2>1 DEF SocAcquire, SocRelease, Acquire, Goto, Inside, Types, Clients
  <2>3. QED
    BY <1>3, <2>2, StayInside DEF SocAcquire, SocRelease
<1>4. CASE UNCHANGED vars
  BY <1>4, StayInside DEF vars, Inside
<1>5. QED
  BY <1>1, <1>2, <1>3, <1>4 DEF Next

-----------------------------------------------------------------------------
(* Theorems *)

(* The inductive invariant holds: the deque, the futures and the tickets   *)
(* follow the clients.                                                     *)
THEOREM Invariance == Spec => []IInv
<1>1. Init => IInv
  BY InitLock, InitTickets DEF IInv
<1>2. IInv /\ [Next]_vars => IInv'
  <2> SUFFICES ASSUME IInv, [Next]_vars PROVE IInv'
    OBVIOUS
  <2>1. LockInv'
    BY LockNext DEF IInv
  <2>2. QED
    BY <2>1, TicketsNext DEF IInv
<1>3. QED
  BY <1>1, <1>2, PTL DEF Spec

(* Every variable keeps its type, a client has a future exactly while it   *)
(* waits, and only a waiting chat is interrupted.                          *)
THEOREM QueueTypes == Spec => []TypeOK
<1>1. IInv => TypeOK
  BY DEF IInv, LockInv, Types, Deque, TypeOK, Futures
<1>2. QED
  BY <1>1, Invariance, PTL

(* The GPU is used by one client at a time, whatever timeouts, departures  *)
(* and delayed wake-ups interleave.                                        *)
THEOREM ExclusiveGpu == Spec => []OneTurn
<1>1. IInv => OneTurn
  BY DEF IInv, LockInv
<1>2. QED
  BY <1>1, Invariance, PTL

(* No ticket leaks and none is returned twice.                             *)
THEOREM NoTicketLeaks == Spec => []TicketsBalanced
<1>1. IInv => TicketsBalanced
  BY DEF IInv
<1>2. QED
  BY <1>1, Invariance, PTL

(* A free lock with waiters is on its way to one of them.                  *)
THEOREM WakeupsSurvive == Spec => []NoLostWakeup
<1>1. IInv => NoLostWakeup
  BY DEF IInv, LockInv
<1>2. QED
  BY <1>1, Invariance, PTL

-----------------------------------------------------------------------------
(* Refinement: ModelQueue implements TurnQueue *)

LEMMA StrictCardinality == \A S : Strict!Cardinality(S) = Cardinality(S)
BY DEF Strict!Cardinality, Cardinality

LEMMA AdmissibleWithTicket ==
    ASSUME IInv, NEW c \in Clients, phase[c] = "idle",
           c # Soc => tickets < Capacity
    PROVE  Strict!Admissible(c)
<1>1. c \notin Line \cup Using
  BY DEF Line, Using
<1>2. ASSUME c # Soc
      PROVE  Cardinality(Strict!Inside) < Capacity
  <2>1. Strict!Inside \in SUBSET Inside
    BY DEF Strict!Inside, Inside, Line, Using
  <2>2. Cardinality(Strict!Inside) <= Cardinality(Inside)
    BY <2>1, InsideFinite, FS_Subset
  <2>3. Cardinality(Strict!Inside) \in Nat
    BY <2>1, InsideFinite, FS_Subset, FS_CardinalityType
  <2>4. QED
    BY <1>2, <2>2, <2>3, InsideFinite DEF IInv, TicketsBalanced, Inside
<1>3. QED
  BY <1>1, <1>2, StrictCardinality DEF Strict!Admissible

LEMMA AcquireImplements ==
    ASSUME IInv, NEW c \in Clients, phase[c] = "idle", Acquire(c),
           UNCHANGED interrupted, c # Soc => tickets < Capacity
    PROVE  Strict!Arrive(c) \/ Strict!ArriveFirst(c)
<1> USE DEF IInv, LockInv
<1>1. Strict!Admissible(c)
  BY AdmissibleWithTicket
<1>2. CASE Unclaimed /\ locked' = TRUE /\ Goto(c, "turn") /\ UNCHANGED <<waiters, fut>>
  <2>1. \A d \in Clients : phase[d] = "waiting" => interrupted[d]
    BY <1>2 DEF Unclaimed, Deque, Occurs
  <2>2. Line = {} /\ Line' = {}
    BY <1>2, <2>1 DEF Line, Goto, Types
  <2>3. Before = {} /\ Before' = {}
    BY <2>2 DEF Before
  <2>4. Using = {} /\ Using' = {c}
    BY <1>2 DEF OneTurn, Unclaimed, Using, Goto, Types
  <2>5. QED
    BY <1>1, <2>2, <2>3, <2>4 DEF Strict!ArriveFirst
<1>3. CASE /\ ~Unclaimed
           /\ waiters' = Append(waiters, c)
           /\ fut' = [fut EXCEPT ![c] = "pending"]
           /\ Goto(c, "waiting")
           /\ UNCHANGED locked
  <2>1. /\ DOMAIN waiters = 1 .. Len(waiters) /\ Len(waiters) \in Nat
        /\ DOMAIN waiters' = 1 .. Len(waiters) + 1
        /\ \A i \in 1 .. Len(waiters) : waiters'[i] = waiters[i]
        /\ waiters'[Len(waiters) + 1] = c
    BY <1>3, AppendProperties, LenProperties DEF Types
  <2>2. ~interrupted[c] /\ ~Occurs(waiters, c)
    BY DEF Deque
  <2>3. Line' = Line \cup {c} /\ c \notin Line /\ Using' = Using
    BY <1>3, <2>2 DEF Line, Using, Goto, Types
  <2>4. ASSUME NEW d \in Line'
        PROVE  ~Ahead(waiters', c, d)
    BY <2>1, <2>2 DEF Ahead, Occurs
  <2>5. ASSUME NEW d \in Line
        PROVE  Ahead(waiters', d, c)
    <3>1. PICK i \in 1 .. Len(waiters) : waiters[i] = d
      BY <2>1 DEF Line, Deque, Occurs
    <3>2. i < Len(waiters) + 1 /\ waiters'[i] = d
      BY <3>1, <2>1
    <3>3. QED
      BY <3>2, <2>1 DEF Ahead
  <2>6. ASSUME NEW d \in Line, NEW e \in Line
        PROVE  Ahead(waiters', d, e) <=> Ahead(waiters, d, e)
    <3>1. d # c /\ e # c
      BY <2>3
    <3>2. ASSUME NEW i \in 1 .. Len(waiters) + 1, waiters'[i] # c
          PROVE  i \in 1 .. Len(waiters) /\ waiters'[i] = waiters[i]
      BY <3>2, <2>1
    <3>3. QED
      BY <3>1, <3>2, <2>1 DEF Ahead
  <2>7. Before' = Before \cup (Line \X {c})
    <3>1. ASSUME NEW d \in Line', NEW e \in Line'
          PROVE  Ahead(waiters', d, e) <=>
                   \/ d \in Line /\ e \in Line /\ Ahead(waiters, d, e)
                   \/ d \in Line /\ e = c
      <4>1. CASE e = c
        BY <4>1, <2>3, <2>4, <2>5
      <4>2. CASE e # c /\ d = c
        BY <4>2, <2>3, <2>4
      <4>3. CASE e # c /\ d # c
        BY <4>3, <2>3, <2>6
      <4>4. QED
        BY <4>1, <4>2, <4>3
    <3>2. QED
      BY <3>1, <2>3 DEF Before
  <2>8. QED
    BY <1>1, <2>3, <2>7 DEF Strict!Arrive
<1>4. QED
  BY <1>2, <1>3 DEF Acquire

(* The pairs of a line from which a client is gone.                        *)
LEMMA LineWithout ==
    ASSUME NEW c, Line' = Line \ {c},
           \A d, e \in Line \ {c} : Ahead(waiters', d, e) <=> Ahead(waiters, d, e)
    PROVE  Strict!Drop(c)
BY DEF Before, Strict!Drop

LEMMA TakeTurnImplements ==
    ASSUME IInv, NEW c \in Clients, TakeTurn(c)
    PROVE  Strict!Take(c)
<1> USE DEF IInv, LockInv
<1>1. PICK n \in DOMAIN waiters : waiters[n] = c /\ waiters' = RemoveAt(waiters, n)
  BY DEF TakeTurn
<1>2. \A d, e : d # c /\ e # c => (Ahead(waiters', d, e) <=> Ahead(waiters, d, e))
  BY <1>1, RemoveAtOrder DEF Types, Deque
<1>3. phase[c] = "waiting" /\ ~interrupted[c]
  BY DEF TakeTurn, Deque
<1>4. c \in Line /\ Line' = Line \ {c}
  BY <1>3 DEF TakeTurn, Line, Goto, Types
<1>5. Strict!Drop(c)
  BY <1>2, <1>4, LineWithout
<1>6. Using = {} /\ Using' = {c}
  BY DEF TakeTurn, OnlyFirstWoken, OneTurn, Using, Goto, Types
<1>7. ASSUME NEW d \in Line
      PROVE  ~Ahead(waiters, d, c)
  <2>1. waiters[1] = c /\ DOMAIN waiters = 1 .. Len(waiters) /\ Len(waiters) \in Nat
    BY LenProperties DEF TakeTurn, OnlyFirstWoken, Types
  <2>2. QED
    BY <2>1, <1>1 DEF Ahead, Deque, Injective
<1>8. QED
  BY <1>4, <1>5, <1>6, <1>7 DEF Strict!Take, Before

LEMMA InterruptImplements ==
    ASSUME IInv, NEW c \in Chats, Interrupt(c)
    PROVE  Strict!Leave(c)
<1> USE DEF IInv, LockInv
<1>1. c \in Line /\ Line' = Line \ {c} /\ Using' = Using
  BY DEF Interrupt, Interruptible, Line, Using, Clients, Types
<1>2. Strict!Drop(c)
  BY <1>1, LineWithout DEF Interrupt, Interruptible
<1>3. QED
  BY <1>1, <1>2 DEF Strict!Leave

LEMMA GiveUpStutters ==
    ASSUME IInv, NEW c \in Chats, GiveUp(c)
    PROVE  UNCHANGED Strict!vars
<1> USE DEF IInv, LockInv
<1>1. PICK n \in DOMAIN waiters : waiters[n] = c /\ waiters' = RemoveAt(waiters, n)
  BY DEF GiveUp, Withdraw
<1>2. \A d, e : d # c /\ e # c => (Ahead(waiters', d, e) <=> Ahead(waiters, d, e))
  BY <1>1, RemoveAtOrder DEF Types, Deque
<1>3. phase[c] = "waiting" /\ c \in Clients
  BY DEF GiveUp, Deque, Clients
<1>4. Line' = Line /\ c \notin Line /\ Using' = Using
  BY <1>3 DEF GiveUp, Line, Using, Goto, Types
<1>5. Before' = Before
  BY <1>2, <1>4 DEF Before
<1>6. QED
  BY <1>4, <1>5 DEF Strict!vars

LEMMA ReleaseImplements ==
    ASSUME IInv, NEW c \in Using, Release, UNCHANGED interrupted, Goto(c, "idle")
    PROVE  Strict!Done(c)
<1> USE DEF IInv, LockInv
<1>1. Using' = Using \ {c} /\ Line' = Line
  BY DEF Using, Line, Goto, Types
<1>2. Before' = Before
  BY <1>1 DEF Before, Release
<1>3. QED
  BY <1>1, <1>2 DEF Strict!Done

LEMMA StepSimulation == IInv /\ [Next]_vars => [Strict!Next]_(Strict!vars)
<1> SUFFICES ASSUME IInv, [Next]_vars PROVE [Strict!Next]_(Strict!vars)
  OBVIOUS
<1>1. \A c \in Clients : c \in Strict!Clients
  BY DEF Clients, Strict!Clients
<1>2. ASSUME NEW c \in Chats, ChatStep(c) PROVE [Strict!Next]_(Strict!vars)
  <2>1. c \in Clients
    BY DEF Clients
  <2>2. CASE Enter(c)
    BY <1>1, <2>1, <2>2, AcquireImplements DEF Enter, Strict!Next
  <2>3. CASE Interrupt(c)
    BY <1>1, <2>1, <2>3, InterruptImplements DEF Strict!Next
  <2>4. CASE GiveUp(c)
    BY <2>4, GiveUpStutters
  <2>5. CASE Finish(c)
    BY <1>1, <2>1, <2>5, ReleaseImplements DEF Finish, ReleaseTurn, Using, Strict!Next
  <2>6. CASE Abandon(c)
    <3>1. Line' = Line /\ Using' = Using
      BY <2>1, <2>6 DEF Abandon, Line, Using, Goto, IInv, LockInv, Types
    <3>2. Before' = Before
      BY <3>1, <2>6 DEF Before, Abandon, lockVars
    <3>3. QED
      BY <3>1, <3>2 DEF Strict!vars
  <2>7. CASE Finalize(c)
    BY <1>1, <2>1, <2>7, ReleaseImplements DEF Finalize, ReleaseTurn, Using, Strict!Next
  <2>8. CASE TurnedAway(c)
    BY <2>8 DEF TurnedAway, vars, lockVars, Strict!vars, Line, Before, Using
  <2>9. QED
    BY <1>2, <2>2, <2>3, <2>4, <2>5, <2>6, <2>7, <2>8 DEF ChatStep
<1>3. ASSUME NEW c \in Clients, TakeTurn(c) PROVE [Strict!Next]_(Strict!vars)
  BY <1>1, <1>3, TakeTurnImplements DEF Strict!Next
<1>4. Soc \in Clients
  BY DEF Clients
<1>5. CASE SocAcquire
  BY <1>1, <1>4, <1>5, AcquireImplements DEF SocAcquire, Strict!Next
<1>6. CASE SocRelease
  BY <1>1, <1>4, <1>6, ReleaseImplements DEF SocRelease, Using, Strict!Next
<1>7. CASE UNCHANGED vars
  BY <1>7 DEF vars, lockVars, Strict!vars, Line, Before, Using
<1>8. QED
  BY <1>2, <1>3, <1>5, <1>6, <1>7 DEF Next

(* The queue is strict: nobody gets the GPU before a client that came      *)
(* earlier and still waits, and no more chats than the capacity get in.    *)
THEOREM QueueIsStrict == Spec => StrictQueue
<1>1. Init => Strict!Init
  <2> SUFFICES ASSUME Init PROVE Strict!Init
    OBVIOUS
  <2>1. Line = {} /\ Using = {}
    BY DEF Init, Line, Using
  <2>2. QED
    BY <2>1 DEF Before, Strict!Init
<1>2. QED
  BY <1>1, Invariance, StepSimulation, PTL DEF Spec, StrictQueue, Strict!Spec

=============================================================================
