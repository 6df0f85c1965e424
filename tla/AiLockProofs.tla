---------------------------- MODULE AiLockProofs ----------------------------
(***************************************************************************)
(* Proofs about AiLock, for any number of jobs and any timeouts.           *)
(*                                                                         *)
(* The lock flag alone does not make an inductive invariant: resume sets   *)
(* it without testing it, so exclusion rests on who may have a resolved    *)
(* future.  HandOver says it: only the first waiter, and only while the    *)
(* lock is free.                                                           *)
(***************************************************************************)
EXTENDS AiLock, TLAPS, SequenceTheorems

\* The wake-up of a free lock is with the first waiter, and nowhere else.
HandOver ==
  /\ woken \subseteq FirstOf(waiters)
  /\ locked => woken = {}
  /\ ~locked /\ waiters # <<>> => woken # {}

LockInv == TypeOK /\ OneHolder /\ QueueHoldsTheWaiting /\ HandOver

-----------------------------------------------------------------------------
(* Sequences. *)

\* Removing position i shifts what follows it.
LEMMA RemoveAtElements ==
  ASSUME NEW S, NEW s \in Seq(S), NEW i \in DOMAIN s
  PROVE  /\ RemoveAt(s, i) \in Seq(S)
         /\ Len(RemoveAt(s, i)) = Len(s) - 1
         /\ \A k \in 1..(Len(s) - 1) :
              RemoveAt(s, i)[k] = IF k < i THEN s[k] ELSE s[k + 1]
<1>. DEFINE front == SubSeq(s, 1, i - 1)
            back  == SubSeq(s, i + 1, Len(s))
<1>1. i \in 1..Len(s) /\ Len(s) \in Nat
  OBVIOUS
<1>2. /\ front \in Seq(S)
      /\ Len(front) = i - 1
      /\ \A k \in 1..(i - 1) : front[k] = s[k]
  BY <1>1, SubSeqProperties
<1>3. /\ back \in Seq(S)
      /\ Len(back) = Len(s) - i
      /\ \A k \in 1..(Len(s) - i) : back[k] = s[k + i]
  BY <1>1, SubSeqProperties
<1>4. RemoveAt(s, i) = front \o back
  BY DEF RemoveAt
<1>. HIDE DEF front, back
<1>5. /\ front \o back \in Seq(S)
      /\ Len(front \o back) = Len(s) - 1
      /\ \A k \in 1..(Len(s) - 1) :
           (front \o back)[k] = IF k <= i - 1 THEN front[k]
                                 ELSE back[k - (i - 1)]
  BY <1>1, <1>2, <1>3, ConcatProperties, SMTT(20)
<1>6. ASSUME NEW k \in 1..(Len(s) - 1)
      PROVE  (front \o back)[k] = IF k < i THEN s[k] ELSE s[k + 1]
  <2>1. CASE k < i
    BY <1>1, <1>2, <1>5, <2>1
  <2>2. CASE k >= i
    <3>1. k - (i - 1) \in 1..(Len(s) - i) /\ (k - (i - 1)) + i = k + 1
      BY <1>1, <2>2
    <3>2. back[k - (i - 1)] = s[k + 1]
      BY <1>3, <3>1
    <3>3. QED
      BY <1>1, <1>5, <2>2, <3>2
  <2>3. k < i \/ k >= i
    BY <1>1
  <2>4. QED
    BY <2>1, <2>2, <2>3, Zenon
<1>7. QED
  BY <1>4, <1>5, <1>6

\* Removing the only occurrence of an element removes exactly that element.
LEMMA RemoveOnly ==
  ASSUME NEW S, NEW s \in Seq(S), NEW i \in DOMAIN s,
         \A k, l \in DOMAIN s : s[k] = s[l] => k = l
  PROVE  /\ RemoveAt(s, i) \in Seq(S)
         /\ ToSet(RemoveAt(s, i)) = ToSet(s) \ {s[i]}
         /\ \A k, l \in DOMAIN RemoveAt(s, i) :
              RemoveAt(s, i)[k] = RemoveAt(s, i)[l] => k = l
<1>. DEFINE r == RemoveAt(s, i)
<1>1. /\ i \in 1..Len(s) /\ Len(s) \in Nat
      /\ r \in Seq(S) /\ Len(r) = Len(s) - 1
      /\ \A k \in 1..(Len(s) - 1) : r[k] = IF k < i THEN s[k] ELSE s[k + 1]
  BY RemoveAtElements
<1>2. DOMAIN r = 1..(Len(s) - 1) /\ DOMAIN s = 1..Len(s)
  BY <1>1
<1>. HIDE DEF r
<1>3. ASSUME NEW x \in ToSet(r)
      PROVE  x \in ToSet(s) \ {s[i]}
  BY <1>1, <1>2, <1>3 DEF ToSet
<1>4. ASSUME NEW x \in ToSet(s) \ {s[i]}
      PROVE  x \in ToSet(r)
  <2>1. PICK k \in 1..Len(s) : x = s[k] /\ k # i
    BY <1>2, <1>4 DEF ToSet
  <2>2. CASE k < i
    BY <1>1, <1>2, <2>1, <2>2 DEF ToSet
  <2>3. CASE k > i
    <3>1. k - 1 \in DOMAIN r /\ r[k - 1] = s[k]
      BY <1>1, <1>2, <2>1, <2>3
    <3>2. QED
      BY <2>1, <3>1 DEF ToSet
  <2>4. QED
    BY <1>1, <2>1, <2>2, <2>3
<1>5. ASSUME NEW k \in DOMAIN r, NEW l \in DOMAIN r, r[k] = r[l]
      PROVE  k = l
  <2>. DEFINE Old(n) == IF n < i THEN n ELSE n + 1
  <2>1. /\ r[k] = s[Old(k)] /\ Old(k) \in DOMAIN s
        /\ r[l] = s[Old(l)] /\ Old(l) \in DOMAIN s
    BY <1>1, <1>2
  <2>2. Old(k) = Old(l)
    <3>. HIDE DEF Old
    <3>. QED  BY <1>5, <2>1
  <2>3. QED
    BY <1>1, <1>2, <2>2
<1>6. QED
  BY <1>1, <1>3, <1>4, <1>5 DEF r

\* Appending a new element keeps a sequence free of repetitions.
LEMMA AppendNew ==
  ASSUME NEW S, NEW s \in Seq(S), NEW x \in S, x \notin ToSet(s),
         \A k, l \in DOMAIN s : s[k] = s[l] => k = l
  PROVE  /\ Append(s, x) \in Seq(S)
         /\ ToSet(Append(s, x)) = ToSet(s) \cup {x}
         /\ \A k, l \in DOMAIN Append(s, x) :
              Append(s, x)[k] = Append(s, x)[l] => k = l
<1>1. /\ Append(s, x) \in Seq(S) /\ Len(Append(s, x)) = Len(s) + 1
      /\ Append(s, x)[Len(s) + 1] = x
      /\ \A k \in 1..Len(s) : Append(s, x)[k] = s[k]
      /\ Len(s) \in Nat /\ DOMAIN s = 1..Len(s)
      /\ DOMAIN Append(s, x) = 1..(Len(s) + 1)
  BY AppendProperties
<1>2. QED
  BY <1>1 DEF ToSet

\* The first waiter: nobody in an empty queue, and unmoved by an arrival.
LEMMA FirstWaiter ==
  ASSUME NEW S, NEW s \in Seq(S)
  PROVE  /\ FirstOf(s) \subseteq ToSet(s)
         /\ s # <<>> => FirstOf(s) = {s[1]} /\ 1 \in DOMAIN s
         /\ s = <<>> => ToSet(s) = {}
         /\ \A x \in S : s # <<>> => FirstOf(Append(s, x)) = FirstOf(s)
BY DEF FirstOf, ToSet

-----------------------------------------------------------------------------
(* Type correctness. *)

\* Leaving the queue and trying again keeps every variable in its type.
LEMMA TryAcquireType ==
  ASSUME AiLockAssumption, TypeOK, NEW j \in Jobs, NEW queue \in Seq(Jobs),
         TryAcquire(j, queue)
  PROVE  /\ pc' \in [Jobs -> PC]
         /\ locked' \in BOOLEAN
         /\ waiters' \in Seq(Jobs)
         /\ timer' \in [Jobs -> 0..CheckInterval]
         /\ active' \in [Jobs -> BOOLEAN]
         /\ idle' \in 0..InactivityLimit
         /\ silence' \in 0..InactivityLimit
<1>1. CASE TakeLock(j, queue)
  BY <1>1 DEF AiLockAssumption, TypeOK, PC, TakeLock, BumpActivity
<1>2. CASE JoinQueue(j, queue)
  BY <1>2, AppendProperties DEF AiLockAssumption, TypeOK, PC, JoinQueue
<1>3. QED
  BY <1>1, <1>2 DEF TryAcquire

LEMMA TypeInit == AiLockAssumption /\ Init => TypeOK
<1>. SUFFICES ASSUME AiLockAssumption, Init
              PROVE  TypeOK
  OBVIOUS
<1>1. registered \in BOOLEAN
  BY Zenon DEF Init
<1>2. waiters \in Seq(Jobs)
  BY DEF Init
<1>3. pc \in [Jobs -> PC]
  <2>1. pc = [j \in Jobs |-> "idle"]
    BY Zenon DEF Init
  <2>2. QED
    BY <2>1 DEF PC
<1>4. locked \in BOOLEAN /\ woken \in SUBSET Jobs
  BY Zenon DEF Init
<1>5. timer \in [Jobs -> 0..CheckInterval] /\ bumps \in [Jobs -> 0..MaxBumps]
  <2>1. timer = [j \in Jobs |-> 0] /\ bumps = [j \in Jobs |-> 0]
    BY Zenon DEF Init
  <2>2. QED
    BY <2>1 DEF AiLockAssumption
<1>6. active \in [Jobs -> BOOLEAN]
  <2>1. active = [j \in Jobs |-> FALSE]
    BY Zenon DEF Init
  <2>2. QED
    BY <2>1, Zenon
<1>7. idle \in 0..InactivityLimit /\ silence \in 0..InactivityLimit
  <2>1. idle \in 0..InactivityLimit /\ silence = 0
    BY Zenon DEF Init
  <2>2. QED
    BY <2>1 DEF AiLockAssumption
<1>8. QED
  BY <1>1, <1>2, <1>3, <1>4, <1>5, <1>6, <1>7, Zenon DEF TypeOK

LEMMA TypeStep ==
  ASSUME AiLockAssumption, TypeOK, [Next]_vars
  PROVE  TypeOK'
<1>1. CASE UNCHANGED vars
  BY <1>1 DEF TypeOK, vars
<1>2. CASE Register
  BY <1>2 DEF TypeOK, Register
<1>3. CASE Tick
  BY <1>3 DEF AiLockAssumption, TypeOK, Tick
<1>4. ASSUME NEW j \in Jobs, Acquire(j)
      PROVE  TypeOK'
  BY <1>4, TryAcquireType DEF TypeOK, Acquire
<1>5. ASSUME NEW j \in Jobs, RunBare(j)
      PROVE  TypeOK'
  BY <1>5 DEF TypeOK, PC, RunBare
<1>6. ASSUME NEW j \in Jobs, FinishBare(j)
      PROVE  TypeOK'
  BY <1>6 DEF AiLockAssumption, TypeOK, PC, FinishBare
<1>7. ASSUME NEW j \in Jobs, Resume(j)
      PROVE  TypeOK'
  <2>1. PICK i \in DOMAIN waiters :
          /\ TakeLock(j, RemoveAt(waiters, i))
          /\ woken' = woken \ {j}
          /\ UNCHANGED <<registered, bumps>>
    BY <1>7 DEF Resume
  <2>2. RemoveAt(waiters, i) \in Seq(Jobs)
    BY RemoveAtElements DEF TypeOK
  <2>3. QED
    BY <2>1, <2>2 DEF AiLockAssumption, TypeOK, PC, TakeLock, BumpActivity
<1>8. ASSUME NEW j \in Jobs, TimeOut(j)
      PROVE  TypeOK'
  <2>1. PICK i \in DOMAIN waiters :
          /\ woken' = (woken \ {j}) \cup
                      (IF locked THEN {} ELSE FirstOf(RemoveAt(waiters, i)))
          /\ AfterTimeout(j, RemoveAt(waiters, i))
          /\ UNCHANGED <<registered, bumps>>
    BY <1>8 DEF TimeOut
  <2>2. RemoveAt(waiters, i) \in Seq(Jobs)
    BY RemoveAtElements DEF TypeOK
  <2>3. woken' \in SUBSET Jobs
    BY <2>1, <2>2, SMTT(20) DEF TypeOK, FirstOf
  <2>4. CASE TryAcquire(j, RemoveAt(waiters, i))
    BY <2>1, <2>2, <2>3, <2>4, TryAcquireType DEF TypeOK
  <2>5. CASE ~TryAcquire(j, RemoveAt(waiters, i))
    BY <2>1, <2>2, <2>3, <2>5 DEF TypeOK, PC, AfterTimeout
  <2>6. QED
    BY <2>4, <2>5
<1>9. ASSUME NEW j \in Jobs, ToolCall(j)
      PROVE  TypeOK'
  BY <1>9 DEF AiLockAssumption, TypeOK, ToolCall, BumpActivity
<1>10. ASSUME NEW j \in Jobs, Release(j)
       PROVE  TypeOK'
  <2>1. woken \cup FirstOf(waiters) \in SUBSET Jobs
    BY DEF TypeOK, FirstOf
  <2>2. QED
    BY <1>10, <2>1 DEF TypeOK, PC, Release
<1>11. QED
  BY <1>1, <1>2, <1>3, <1>4, <1>5, <1>6, <1>7, <1>8, <1>9, <1>10 DEF Next

\* Every variable of the lock keeps its type (ai_lock.py:46-111 and the
\* callers), whatever the numbers of jobs and the timeouts.
THEOREM TypeCorrect == Spec => []TypeOK
<1>1. Init => TypeOK
  BY AiLockAssumption, TypeInit
<1>2. TypeOK /\ [Next]_vars => TypeOK'
  BY AiLockAssumption, TypeStep
<1>3. QED
  BY <1>1, <1>2, PTL DEF Spec

-----------------------------------------------------------------------------
(* The queue and the lock. *)

\* What a waiter leaves behind when it goes out of position i of the queue.
LEMMA LeaveQueue ==
  ASSUME LockInv, NEW i \in DOMAIN waiters, NEW queue,
         queue = RemoveAt(waiters, i)
  PROVE  /\ queue \in Seq(Jobs)
         /\ ToSet(queue) = ToSet(waiters) \ {waiters[i]}
         /\ \A k, l \in DOMAIN queue : queue[k] = queue[l] => k = l
         /\ (woken \ {waiters[i]}) \cup (IF locked THEN {} ELSE FirstOf(queue))
            = IF locked THEN {} ELSE FirstOf(queue)
<1>1. /\ queue \in Seq(Jobs)
      /\ ToSet(queue) = ToSet(waiters) \ {waiters[i]}
      /\ \A k, l \in DOMAIN queue : queue[k] = queue[l] => k = l
  BY RemoveOnly DEF LockInv, TypeOK, QueueHoldsTheWaiting
<1>2. woken \ {waiters[i]} \subseteq IF locked THEN {} ELSE FirstOf(queue)
  <2>1. CASE locked
    BY <2>1 DEF LockInv, HandOver
  <2>2. CASE ~locked
    <3>1. /\ woken \subseteq {waiters[1]}
          /\ Len(waiters) \in Nat \ {0}
          /\ DOMAIN waiters = 1..Len(waiters)
      BY FirstWaiter DEF LockInv, HandOver, TypeOK, FirstOf
    <3>2. CASE i = 1
      BY <3>1, <3>2
    <3>3. CASE i # 1
      <4>0. i > 1 /\ 1 \in 1..(Len(waiters) - 1)
        BY <3>1, <3>3
      <4>. waiters \in Seq(Jobs)
        BY DEF LockInv, TypeOK
      <4>1. /\ Len(queue) = Len(waiters) - 1
            /\ \A k \in 1..(Len(waiters) - 1) :
                 queue[k] = IF k < i THEN waiters[k] ELSE waiters[k + 1]
        BY RemoveAtElements
      <4>2. queue # <<>> /\ FirstOf(queue) = {waiters[1]}
        BY <1>1, <3>1, <4>0, <4>1, FirstWaiter
      <4>3. QED
        BY <2>2, <3>1, <4>2
    <3>4. QED
      BY <3>2, <3>3
  <2>3. QED
    BY <2>1, <2>2
<1>3. QED
  BY <1>1, <1>2

\* acquire() by a job outside the queue, the wake-up being with the first
\* waiter of a free lock, keeps the queue and the lock in order.
LEMMA TryAcquireKeeps ==
  ASSUME TypeOK, OneHolder, NEW j \in Jobs, NEW queue \in Seq(Jobs),
         \A k, l \in DOMAIN queue : queue[k] = queue[l] => k = l,
         j \notin ToSet(queue), pc[j] # "holding",
         \A k \in Jobs \ {j} : pc[k] = "waiting" <=> k \in ToSet(queue),
         TryAcquire(j, queue),
         woken' = IF locked THEN {} ELSE FirstOf(queue)
  PROVE  OneHolder' /\ QueueHoldsTheWaiting' /\ HandOver'
<1>1. CASE ~locked /\ queue = <<>>
  <2>1. TakeLock(j, queue) /\ woken' = {}
    BY <1>1 DEF TryAcquire, FirstOf
  <2>2. pc' = [pc EXCEPT ![j] = "holding"] /\ locked' = TRUE /\ waiters' = <<>>
    BY <1>1, <2>1 DEF TakeLock
  <2>3. ToSet(waiters') = {} /\ DOMAIN waiters' = {}
    BY <2>2 DEF ToSet
  <2>4. OneHolder'
    BY <1>1, <2>2 DEF OneHolder, TypeOK
  <2>5. QueueHoldsTheWaiting'
    BY <1>1, <2>2, <2>3, FirstWaiter DEF QueueHoldsTheWaiting, TypeOK
  <2>6. HandOver'
    BY <2>1, <2>2 DEF HandOver, FirstOf
  <2>7. QED
    BY <2>4, <2>5, <2>6
<1>2. CASE locked \/ queue # <<>>
  <2>1. JoinQueue(j, queue)
    BY <1>2 DEF TryAcquire
  <2>2. /\ pc' = [pc EXCEPT ![j] = "waiting"]
        /\ locked' = locked
        /\ waiters' = Append(queue, j)
    BY <2>1 DEF JoinQueue
  <2>3. /\ ToSet(waiters') = ToSet(queue) \cup {j}
        /\ \A k, l \in DOMAIN waiters' : waiters'[k] = waiters'[l] => k = l
    BY <2>2, AppendNew
  <2>4. OneHolder'
    BY <2>2 DEF OneHolder, TypeOK
  <2>5. QueueHoldsTheWaiting'
    BY <2>2, <2>3 DEF QueueHoldsTheWaiting, TypeOK
  <2>6. HandOver'
    <3>1. CASE locked
      BY <2>2, <3>1 DEF HandOver, TypeOK
    <3>2. CASE ~locked
      <4>1. queue # <<>> /\ woken' = FirstOf(queue) /\ FirstOf(queue) # {}
        BY <1>2, <3>2, FirstWaiter
      <4>2. FirstOf(waiters') = FirstOf(queue)
        BY <2>2, <4>1, FirstWaiter
      <4>3. QED
        BY <2>2, <3>2, <4>1, <4>2 DEF HandOver
    <3>3. QED
      BY <3>1, <3>2
  <2>7. QED
    BY <2>4, <2>5, <2>6
<1>3. QED
  BY <1>1, <1>2

LEMMA LockInit == AiLockAssumption /\ Init => LockInv
<1>. SUFFICES ASSUME AiLockAssumption, Init
              PROVE  LockInv
  OBVIOUS
<1>1. TypeOK
  BY TypeInit
<1>2. /\ pc = [j \in Jobs |-> "idle"]
      /\ locked = FALSE
      /\ waiters = <<>>
      /\ woken = {}
  BY Zenon DEF Init
<1>3. OneHolder
  BY <1>2 DEF OneHolder
<1>4. QueueHoldsTheWaiting
  BY <1>2 DEF QueueHoldsTheWaiting, ToSet
<1>5. HandOver
  BY <1>2 DEF HandOver
<1>6. QED
  BY <1>1, <1>3, <1>4, <1>5 DEF LockInv

LEMMA LockStep ==
  ASSUME AiLockAssumption, LockInv, [Next]_vars
  PROVE  LockInv'
<1>. SUFFICES OneHolder' /\ QueueHoldsTheWaiting' /\ HandOver'
  BY TypeStep DEF LockInv
<1>. TypeOK /\ OneHolder /\ QueueHoldsTheWaiting /\ HandOver
  BY DEF LockInv
<1>1. CASE UNCHANGED <<pc, locked, waiters, woken>>
  BY <1>1 DEF OneHolder, QueueHoldsTheWaiting, HandOver
<1>2. ASSUME NEW j \in Jobs, Acquire(j)
      PROVE  OneHolder' /\ QueueHoldsTheWaiting' /\ HandOver'
  <2>1. woken = IF locked THEN {} ELSE FirstOf(waiters)
    BY FirstWaiter DEF HandOver, TypeOK, FirstOf
  <2>2. pc[j] = "idle" /\ TryAcquire(j, waiters) /\ woken' = woken
    BY <1>2 DEF Acquire
  <2>3. QED
    BY <2>1, <2>2, TryAcquireKeeps DEF TypeOK, QueueHoldsTheWaiting
<1>3. ASSUME NEW j \in Jobs, RunBare(j) \/ FinishBare(j)
      PROVE  OneHolder' /\ QueueHoldsTheWaiting' /\ HandOver'
  <2>1. /\ pc[j] \in {"idle", "bare"}
        /\ \E q \in {"idle", "bare"} : pc' = [pc EXCEPT ![j] = q]
        /\ UNCHANGED <<locked, waiters, woken>>
    BY <1>3 DEF RunBare, FinishBare
  <2>2. QED
    BY <2>1 DEF TypeOK, OneHolder, QueueHoldsTheWaiting, HandOver
<1>4. ASSUME NEW j \in Jobs, Resume(j)
      PROVE  OneHolder' /\ QueueHoldsTheWaiting' /\ HandOver'
  <2>1. PICK i \in DOMAIN waiters :
          /\ waiters[i] = j /\ j \in woken
          /\ TakeLock(j, RemoveAt(waiters, i))
          /\ woken' = woken \ {j}
    BY <1>4 DEF Resume
  <2>2. PICK queue : queue = RemoveAt(waiters, i)
    OBVIOUS
  <2>3. /\ ToSet(queue) = ToSet(waiters) \ {j}
        /\ \A k, l \in DOMAIN queue : queue[k] = queue[l] => k = l
    BY <2>1, <2>2, LeaveQueue DEF LockInv
  <2>4. ~locked /\ woken' = {}
    BY <2>1, FirstWaiter DEF HandOver, TypeOK, FirstOf
  <2>5. pc' = [pc EXCEPT ![j] = "holding"] /\ locked' = TRUE /\ waiters' = queue
    BY <2>1, <2>2 DEF TakeLock
  <2>6. OneHolder'
    BY <2>4, <2>5 DEF OneHolder, TypeOK
  <2>7. QueueHoldsTheWaiting'
    BY <2>3, <2>5 DEF QueueHoldsTheWaiting, TypeOK
  <2>8. HandOver'
    BY <2>4, <2>5 DEF HandOver
  <2>9. QED
    BY <2>6, <2>7, <2>8
<1>5. ASSUME NEW j \in Jobs, TimeOut(j)
      PROVE  OneHolder' /\ QueueHoldsTheWaiting' /\ HandOver'
  <2>1. PICK i \in DOMAIN waiters :
          /\ waiters[i] = j
          /\ woken' = (woken \ {j}) \cup
                      (IF locked THEN {} ELSE FirstOf(RemoveAt(waiters, i)))
          /\ AfterTimeout(j, RemoveAt(waiters, i))
    BY <1>5 DEF TimeOut
  <2>2. PICK queue : queue = RemoveAt(waiters, i)
    OBVIOUS
  <2>3. /\ queue \in Seq(Jobs)
        /\ ToSet(queue) = ToSet(waiters) \ {j}
        /\ \A k, l \in DOMAIN queue : queue[k] = queue[l] => k = l
        /\ woken' = IF locked THEN {} ELSE FirstOf(queue)
    BY <2>1, <2>2, LeaveQueue DEF LockInv
  <2>4. pc[j] = "waiting"
    BY <2>1 DEF QueueHoldsTheWaiting, ToSet
  <2>5. \A k \in Jobs \ {j} : pc[k] = "waiting" <=> k \in ToSet(queue)
    BY <2>3 DEF QueueHoldsTheWaiting
  <2>6. CASE TryAcquire(j, queue)
    BY <2>3, <2>4, <2>5, <2>6, TryAcquireKeeps
  <2>7. CASE ~TryAcquire(j, queue)
    <3>1. /\ pc' = [pc EXCEPT ![j] = "refused"]
          /\ waiters' = queue /\ locked' = locked
      BY <2>1, <2>2, <2>7 DEF AfterTimeout
    <3>2. OneHolder'
      BY <2>4, <3>1 DEF OneHolder, TypeOK
    <3>3. QueueHoldsTheWaiting'
      BY <2>3, <2>5, <3>1, SMTT(20) DEF QueueHoldsTheWaiting, TypeOK
    <3>4. HandOver'
      BY <2>3, <3>1, FirstWaiter DEF HandOver
    <3>5. QED
      BY <3>2, <3>3, <3>4
  <2>8. QED
    BY <2>6, <2>7
<1>6. ASSUME NEW j \in Jobs, Release(j)
      PROVE  OneHolder' /\ QueueHoldsTheWaiting' /\ HandOver'
  <2>1. /\ pc[j] = "holding" /\ pc' = [pc EXCEPT ![j] = "done"]
        /\ locked' = FALSE /\ waiters' = waiters
        /\ woken' = woken \cup FirstOf(waiters)
    BY <1>6 DEF Release
  <2>2. woken' = FirstOf(waiters)
    BY <2>1 DEF HandOver, OneHolder
  <2>3. OneHolder'
    BY <2>1 DEF OneHolder, TypeOK
  <2>4. QueueHoldsTheWaiting'
    BY <2>1 DEF QueueHoldsTheWaiting, TypeOK
  <2>5. HandOver'
    BY <2>1, <2>2, FirstWaiter DEF HandOver, TypeOK
  <2>6. QED
    BY <2>3, <2>4, <2>5
<1>7. ASSUME NEW j \in Jobs, ToolCall(j)
      PROVE  UNCHANGED <<pc, locked, waiters, woken>>
  BY <1>7 DEF ToolCall
<1>8. ASSUME Register \/ Tick \/ UNCHANGED vars
      PROVE  UNCHANGED <<pc, locked, waiters, woken>>
  BY <1>8 DEF Register, Tick, vars
<1>9. QED
  BY <1>1, <1>2, <1>3, <1>4, <1>5, <1>6, <1>7, <1>8 DEF Next

\* At every time the lock, its queue and its wake-ups agree.
THEOREM LockOrder == Spec => []LockInv
<1>1. Init => LockInv
  BY AiLockAssumption, LockInit
<1>2. LockInv /\ [Next]_vars => LockInv'
  BY AiLockAssumption, LockStep
<1>3. QED
  BY <1>1, <1>2, PTL DEF Spec

\* The lock excludes, for any number of callers: however often waiters time
\* out and queue again, at most one caller is past acquire_ai_lock, and the
\* flag says so (ai_lock.py:82).
THEOREM Exclusion == Spec => []OneHolder
BY LockOrder, PTL DEF LockInv

\* No wake-up of the lock is ever lost (ai_lock.py:80-111 over asyncio.Lock).
THEOREM WakeUpsSurvive == Spec => []NoLostWakeup
<1>1. LockInv => NoLostWakeup
  BY DEF LockInv, HandOver, NoLostWakeup
<1>2. QED
  BY <1>1, LockOrder, PTL

\* The polling of the waiters never duplicates or forgets one of them.
THEOREM QueueIsExact == Spec => []QueueHoldsTheWaiting
BY LockOrder, PTL DEF LockInv

-----------------------------------------------------------------------------
(* Nobody is refused behind a live holder. *)

\* While the lock is held or waited for, the stamp that everybody writes is at
\* least as recent as the last holder's own work.
StampIsRecent == locked \/ waiters # <<>> => idle <= silence

LEMMA StampStep ==
  ASSUME AiLockAssumption, LockInv, StampIsRecent, [Next]_vars
  PROVE  StampIsRecent'
<1>. TypeOK
  BY DEF LockInv
<1>1. ASSUME NEW j \in Jobs, NEW queue, TryAcquire(j, queue),
             locked \/ queue # <<>> => idle <= silence
      PROVE  StampIsRecent'
  <2>1. CASE TakeLock(j, queue)
    BY <2>1 DEF TakeLock, BumpActivity, StampIsRecent
  <2>2. CASE JoinQueue(j, queue) /\ (locked \/ queue # <<>>)
    BY <1>1, <2>2 DEF JoinQueue, StampIsRecent
  <2>3. QED
    BY <1>1, <2>1, <2>2 DEF TryAcquire
<1>2. ASSUME NEW j \in Jobs, Acquire(j)
      PROVE  StampIsRecent'
  BY <1>1, <1>2 DEF Acquire, StampIsRecent
<1>3. ASSUME NEW j \in Jobs, Resume(j)
      PROVE  StampIsRecent'
  BY <1>3 DEF Resume, TakeLock, BumpActivity, StampIsRecent
<1>4. ASSUME NEW j \in Jobs, TimeOut(j)
      PROVE  StampIsRecent'
  <2>1. PICK i \in DOMAIN waiters : AfterTimeout(j, RemoveAt(waiters, i))
    BY <1>4 DEF TimeOut
  <2>2. idle <= silence
    BY DEF StampIsRecent
  <2>3. CASE TryAcquire(j, RemoveAt(waiters, i))
    BY <1>1, <2>2, <2>3
  <2>4. CASE UNCHANGED <<idle, silence>>
    BY <2>2, <2>4 DEF StampIsRecent
  <2>5. QED
    BY <2>1, <2>3, <2>4 DEF AfterTimeout
<1>5. CASE Tick
  BY <1>5 DEF Tick, StampIsRecent, AiLockAssumption, TypeOK
<1>6. ASSUME NEW j \in Jobs, ToolCall(j)
      PROVE  StampIsRecent'
  BY <1>6 DEF ToolCall, BumpActivity, StampIsRecent, AiLockAssumption, TypeOK
<1>7. ASSUME NEW j \in Jobs, Release(j)
      PROVE  StampIsRecent'
  BY <1>7 DEF Release, StampIsRecent, LockInv, OneHolder
<1>8. ASSUME NEW j \in Jobs, RunBare(j) \/ FinishBare(j)
      PROVE  StampIsRecent'
  BY <1>8 DEF RunBare, FinishBare, StampIsRecent
<1>9. CASE Register \/ UNCHANGED vars
  BY <1>9 DEF Register, vars, StampIsRecent
<1>10. QED
  BY <1>2, <1>3, <1>4, <1>5, <1>6, <1>7, <1>8, <1>9 DEF Next

\* A job that is refused was in the queue and gave up on the stamp alone.
LEMMA RefusedOnTheStamp ==
  ASSUME AiLockAssumption, LockInv, [Next]_vars,
         NEW j \in Jobs, pc[j] # "refused", pc'[j] = "refused"
  PROVE  waiters # <<>> /\ idle >= InactivityLimit
<1>. TypeOK
  BY DEF LockInv
<1>1. ASSUME NEW k \in Jobs, NEW queue,
             TakeLock(k, queue) \/ JoinQueue(k, queue)
      PROVE  FALSE
  BY <1>1 DEF TakeLock, JoinQueue, TypeOK
<1>2. ASSUME NEW k \in Jobs, TimeOut(k)
      PROVE  waiters # <<>> /\ idle >= InactivityLimit
  BY <1>1, <1>2 DEF TimeOut, AfterTimeout, TryAcquire
<1>3. ASSUME NEW k \in Jobs, Acquire(k) \/ Resume(k)
      PROVE  FALSE
  BY <1>1, <1>3 DEF Acquire, Resume, TryAcquire
<1>4. ASSUME NEW k \in Jobs, RunBare(k) \/ FinishBare(k) \/ Release(k)
      PROVE  FALSE
  BY <1>4 DEF RunBare, FinishBare, Release, TypeOK
<1>5. ASSUME NEW k \in Jobs, ToolCall(k)
      PROVE  FALSE
  BY <1>5 DEF ToolCall
<1>6. CASE Register \/ Tick \/ UNCHANGED vars
  BY <1>6 DEF Register, Tick, vars
<1>7. QED
  BY <1>2, <1>3, <1>4, <1>5, <1>6 DEF Next

\* Whoever is refused has the last holder of the lock silent for the whole
\* inactivity timeout behind it, whatever the number of callers and however
\* often the lock changed hands while it waited (ai_lock.py:79-111).
THEOREM NobodyRefused == Spec => RefusedOnlyBehindSilence
<1>1. Init => StampIsRecent
  <2>. SUFFICES ASSUME Init
                PROVE  StampIsRecent
    OBVIOUS
  <2>1. locked = FALSE /\ waiters = <<>>
    BY Zenon DEF Init
  <2>2. QED
    BY <2>1 DEF StampIsRecent
<1>2. LockInv /\ StampIsRecent /\ [Next]_vars => StampIsRecent'
  BY AiLockAssumption, StampStep
<1>3. LockInv /\ StampIsRecent /\ [Next]_vars
      => [\A j \in Jobs :
            pc[j] # "refused" /\ pc'[j] = "refused"
              => silence >= InactivityLimit]_vars
  <2>. SUFFICES ASSUME LockInv, StampIsRecent, [Next]_vars, NEW j \in Jobs,
                       pc[j] # "refused", pc'[j] = "refused"
                PROVE  silence >= InactivityLimit
    OBVIOUS
  <2>1. waiters # <<>> /\ idle >= InactivityLimit
    BY AiLockAssumption, RefusedOnTheStamp
  <2>2. QED
    BY <2>1, AiLockAssumption DEF StampIsRecent, LockInv, TypeOK, AiLockAssumption
<1>4. QED
  BY <1>1, <1>2, <1>3, LockOrder, PTL DEF Spec, RefusedOnlyBehindSilence

-----------------------------------------------------------------------------
(* Refinement. *)

LEMMA TurnStep ==
  ASSUME LockInv, [Next]_vars
  PROVE  [Turn!Next]_turnOf
<1>. TypeOK /\ OneHolder /\ QueueHoldsTheWaiting /\ HandOver
  BY DEF LockInv
<1>. DEFINE NewPc(j, q) == pc' = [pc EXCEPT ![j] = q]
<1>1. ASSUME NEW j \in Jobs, pc[j] \in {"idle", "waiting"}, ~locked,
             NewPc(j, "holding")
      PROVE  Turn!Start(j)
  <2>1. \A k \in Jobs : pc[k] # "holding"
    BY <1>1 DEF OneHolder
  <2>2. QED
    BY <1>1, <2>1 DEF Turn!Start, Turn!NobodyRuns, turnOf, TypeOK, PC
<1>2. ASSUME NEW j \in Jobs, pc[j] = "idle", NewPc(j, "waiting")
      PROVE  Turn!Ask(j)
  BY <1>2 DEF Turn!Ask, turnOf, TypeOK, PC
<1>3. ASSUME NEW j \in Jobs, pc[j] = "waiting", NewPc(j, "refused")
      PROVE  Turn!Refuse(j)
  BY <1>3 DEF Turn!Refuse, turnOf, TypeOK, PC
<1>4. ASSUME NEW j \in Jobs, pc[j] = "holding", NewPc(j, "done")
      PROVE  Turn!Finish(j)
  BY <1>4 DEF Turn!Finish, turnOf, TypeOK, PC
<1>5. ASSUME NEW j \in Jobs, pc[j] = "waiting", NewPc(j, "waiting")
      PROVE  UNCHANGED turnOf
  BY <1>5 DEF turnOf, TypeOK, PC
<1>6. ASSUME NEW j \in Jobs, NEW p \in {"idle", "bare"}, pc[j] \in {"idle", "bare"},
             NewPc(j, p)
      PROVE  UNCHANGED turnOf
  BY <1>6 DEF turnOf, TypeOK, PC
<1>7. ASSUME pc' = pc
      PROVE  UNCHANGED turnOf
  BY <1>7 DEF turnOf
<1>8. ASSUME NEW j \in Jobs, NEW queue, TryAcquire(j, queue)
      PROVE  \/ ~locked /\ NewPc(j, "holding")
             \/ NewPc(j, "waiting")
  BY <1>8 DEF TryAcquire, TakeLock, JoinQueue
<1>. HIDE DEF NewPc
<1>9. ASSUME NEW j \in Jobs, Acquire(j)
      PROVE  Turn!Next
  BY <1>1, <1>2, <1>8, <1>9 DEF Acquire, Turn!Next
<1>10. ASSUME NEW j \in Jobs, RunBare(j) \/ FinishBare(j)
       PROVE  UNCHANGED turnOf
  BY <1>6, <1>10 DEF RunBare, FinishBare, NewPc
<1>11. ASSUME NEW j \in Jobs, Resume(j)
       PROVE  Turn!Next
  <2>1. j \in woken /\ NewPc(j, "holding") /\ j \in ToSet(waiters)
    BY <1>11 DEF Resume, TakeLock, NewPc, ToSet
  <2>2. ~locked /\ pc[j] = "waiting"
    BY <2>1 DEF HandOver, QueueHoldsTheWaiting
  <2>3. QED
    BY <1>1, <2>1, <2>2 DEF Turn!Next
<1>12. ASSUME NEW j \in Jobs, TimeOut(j)
       PROVE  [Turn!Next]_turnOf
  <2>1. PICK i \in DOMAIN waiters :
          waiters[i] = j /\ AfterTimeout(j, RemoveAt(waiters, i))
    BY <1>12 DEF TimeOut
  <2>2. pc[j] = "waiting"
    BY <2>1 DEF QueueHoldsTheWaiting, ToSet
  <2>3. TryAcquire(j, RemoveAt(waiters, i)) \/ NewPc(j, "refused")
    BY <2>1 DEF AfterTimeout, NewPc
  <2>4. QED
    BY <1>1, <1>3, <1>5, <1>8, <2>2, <2>3 DEF Turn!Next
<1>13. ASSUME NEW j \in Jobs, Release(j)
       PROVE  Turn!Next
  BY <1>4, <1>13 DEF Release, Turn!Next, NewPc
<1>14. ASSUME \/ Register \/ Tick \/ UNCHANGED vars
              \/ \E j \in Jobs : ToolCall(j)
       PROVE  UNCHANGED turnOf
  BY <1>7, <1>14 DEF Register, Tick, ToolCall, vars
<1>15. QED
  BY <1>9, <1>10, <1>11, <1>12, <1>13, <1>14 DEF Next

\* acquire_ai_lock over asyncio.Lock implements exclusive turns: polling,
\* re-queueing and hand-over are invisible to the callers.
THEOREM ImplementsExclusiveTurn == Spec => GivesExclusiveTurns
<1>1. Init => Turn!Init
  <2>. SUFFICES ASSUME Init
                PROVE  Turn!Init
    OBVIOUS
  <2>1. pc = [j \in Jobs |-> "idle"]
    BY Zenon DEF Init
  <2>2. QED
    BY <2>1 DEF Turn!Init, turnOf
<1>2. LockInv /\ [Next]_vars => [Turn!Next]_turnOf
  BY TurnStep
<1>3. QED
  BY <1>1, <1>2, LockOrder, PTL DEF Spec, GivesExclusiveTurns, Turn!Spec
=============================================================================
