----------------------------- MODULE SyncProofs -----------------------------
(***************************************************************************)
(* Proofs about Sync, for any set of threads, mutexes and events.          *)
(***************************************************************************)
EXTENDS Sync, TLAPS

(* A context switch leaves one thread RUNNING and moves no thread into or  *)
(* out of BLOCKED or SLEEPING.                                             *)
LEMMA SwitchFacts ==
    ASSUME NEW STATE st, st \in [Threads -> ThreadState],
           NEW n \in Threads \cup {Idle}, SwitchTo(st, n)
    PROVE  /\ state' \in [Threads -> ThreadState]
           /\ current' \in Threads \cup {Idle}
           /\ \A t \in Threads : state'[t] = "RUNNING" <=> current' = t
           /\ \A t \in Threads : state'[t] = "BLOCKED" <=> st[t] = "BLOCKED"
           /\ \A t \in Threads : state'[t] = "SLEEPING" <=> st[t] = "SLEEPING"
BY SyncAssumption DEF SwitchTo, Retire, ThreadState

(* Initially every lock is free and nobody waits.                          *)
LEMMA InitIndInv == Init => IndInv
BY SyncAssumption
DEF Init, IndInv, TypeOK, ThreadState, OneRunning, MutexShape, MutualExclusion,
    ResumedOwnsMutex, QueueIsLive, EventShape, WaitListExact, WaitResultExact, InQueue

(* Taking a free mutex.                                                    *)
LEMMA TakeStep ==
    ASSUME IndInv, NEW t \in Threads, NEW m \in Mutexes,
           mutex_lock_fast(t, m) \/ mutex_trylock(t, m)
    PROVE  IndInv'
<1> USE SyncAssumption DEF mutex_lock_fast, mutex_trylock, Running, Free, InterruptsOn, threadVars, eventVars, IndInv
<1>1. TypeOK'
  <2>1. held' \in [Threads -> SUBSET Mutexes]
    BY SMTT(30) DEF TypeOK
  <2>2. locked' \in [Mutexes -> BOOLEAN]
    BY DEF TypeOK
  <2>3. owner' \in [Mutexes -> Threads \cup {NoThread}]
    BY DEF TypeOK
  <2>4. UNCHANGED <<state, current, waitq, lockOn, signaled, waiters, wait_event,
                    wait_signaled, waitOn, seen>>
    OBVIOUS
  <2> QED BY <2>1, <2>2, <2>3, <2>4 DEF TypeOK
<1>2. OneRunning'
    BY DEF OneRunning
<1>3. MutexShape'
    BY SMTT(40) DEF MutexShape, TypeOK, InQueue
<1>4. MutualExclusion'
    BY DEF MutualExclusion, TypeOK, MutexShape
<1>5. ResumedOwnsMutex' /\ QueueIsLive'
    BY DEF ResumedOwnsMutex, QueueIsLive, TypeOK, MutexShape
<1>6. EventShape' /\ WaitListExact' /\ WaitResultExact'
    BY DEF EventShape, WaitListExact, WaitResultExact, TypeOK
<1> QED BY <1>1, <1>2, <1>3, <1>4, <1>5, <1>6

(* Queueing behind a held mutex and switching away.                        *)
LEMMA LockSlowStep ==
    ASSUME IndInv, NEW t \in Threads, NEW m \in Mutexes, mutex_lock_slow(t, m)
    PROVE  IndInv'
<1> USE SyncAssumption DEF mutex_lock_slow, Running, Free, InterruptsOn, eventVars, IndInv
<1> DEFINE st == [state EXCEPT ![t] = "BLOCKED"]
<1>a. state \in [Threads -> ThreadState] /\ state[t] = "RUNNING"
    BY DEF TypeOK, OneRunning
<1>b. st \in [Threads -> ThreadState]
    BY <1>a DEF ThreadState
<1>c. PICK n \in Threads \cup {Idle} : SwitchTo(st, n)
    BY DEF Switch
<1> HIDE DEF st
<1>d. /\ state' \in [Threads -> ThreadState]
      /\ current' \in Threads \cup {Idle}
      /\ \A u \in Threads : state'[u] = "RUNNING" <=> current' = u
      /\ \A u \in Threads : state'[u] = "BLOCKED" <=> st[u] = "BLOCKED"
      /\ \A u \in Threads : state'[u] = "SLEEPING" <=> st[u] = "SLEEPING"
    BY <1>b, <1>c, SwitchFacts
<1>e. /\ st[t] = "BLOCKED"
      /\ \A u \in Threads \ {t} : st[u] = state[u]
    BY <1>a DEF st
<1>f. /\ waitq' = [waitq EXCEPT ![m] = Append(waitq[m], t)]
      /\ waitq \in [Mutexes -> Seq(Threads)]
    BY DEF Enqueued, TypeOK
<1>g. /\ lockOn[t] = NoMutex /\ waitOn[t] = NoEvent
      /\ lockOn' = [lockOn EXCEPT ![t] = m]
      /\ lockOn \in [Threads -> Mutexes \cup {NoMutex}]
    BY DEF TypeOK
<1>h. /\ Len(waitq'[m]) = Len(waitq[m]) + 1
      /\ Len(waitq[m]) \in Nat
      /\ waitq'[m][Len(waitq[m]) + 1] = t
      /\ \A i \in 1..Len(waitq[m]) : waitq'[m][i] = waitq[m][i]
      /\ \A k \in Mutexes \ {m} : waitq'[k] = waitq[k]
      /\ \A k \in Mutexes : \A i \in 1..Len(waitq[k]) : waitq[k][i] \in Threads
    BY <1>f
<1>i. \A i \in 1..Len(waitq[m]) : waitq[m][i] # t
    BY <1>g DEF QueueIsLive
<1>1. TypeOK'
  <2>1. waitq' \in [Mutexes -> Seq(Threads)] /\ lockOn' \in [Threads -> Mutexes \cup {NoMutex}]
    BY <1>f, <1>g
  <2> QED BY <1>d, <2>1 DEF TypeOK
<1>2. OneRunning'
    BY <1>d DEF OneRunning
<1>3. MutexShape'
  <2>1. \A k \in Mutexes : (locked[k] <=> owner[k] # NoThread)' /\ (~locked[k] => waitq[k] = <<>>)'
    BY <1>h DEF MutexShape
  <2>2. ASSUME NEW u \in Threads, NEW k \in Mutexes
        PROVE  (owner[k] = u => k \in held[u] \/ lockOn[u] = k)'
    BY <1>g DEF MutexShape
  <2>3. m \notin held[t]
    BY DEF InLockOrder, TypeOK
  <2>4. ASSUME NEW u \in Threads, NEW k \in Mutexes, lockOn'[u] = k
        PROVE  /\ k \notin held'[u] /\ waitOn'[u] = NoEvent
               /\ state'[u] # "SLEEPING"
               /\ state'[u] = "BLOCKED" => InQueue(u, k)'
    <3>1. CASE u = t
      <4>1. k = m
        BY <3>1, <2>4, <1>g
      <4>2. InQueue(u, k)'
        BY <3>1, <4>1, <1>h DEF InQueue
      <4> QED BY <3>1, <4>1, <4>2, <1>d, <1>e, <1>g, <2>3
    <3>2. CASE u # t
      <4>1. lockOn[u] = k
        BY <3>2, <2>4, <1>g
      <4>2. InQueue(u, k) => InQueue(u, k)'
        BY <1>h DEF InQueue
      <4> QED BY <3>2, <4>1, <4>2, <1>d, <1>e DEF MutexShape
    <3> QED BY <3>1, <3>2
  <2> QED BY <2>1, <2>2, <2>4 DEF MutexShape
<1>4. MutualExclusion'
    BY DEF MutualExclusion
<1>5. ResumedOwnsMutex'
    BY <1>d, <1>e, <1>g DEF ResumedOwnsMutex, ThreadState, TypeOK
<1>6. QueueIsLive'
  <2>1. ASSUME NEW k \in Mutexes, NEW i \in 1..Len(waitq'[k])
        PROVE  lockOn'[waitq'[k][i]] = k /\ state'[waitq'[k][i]] = "BLOCKED"
    <3>1. CASE k = m /\ i = Len(waitq[m]) + 1
        BY <3>1, <1>d, <1>e, <1>g, <1>h
    <3>2. CASE ~(k = m /\ i = Len(waitq[m]) + 1)
      <4>1. i \in 1..Len(waitq[k]) /\ waitq'[k][i] = waitq[k][i] /\ waitq[k][i] \in Threads
        BY <3>2, <1>h
      <4>2. waitq[k][i] # t /\ lockOn[waitq[k][i]] = k /\ state[waitq[k][i]] = "BLOCKED"
        BY <4>1, <1>g DEF QueueIsLive
      <4> QED BY <4>1, <4>2, <1>d, <1>e, <1>g
    <3> QED BY <3>1, <3>2
  <2>2. ASSUME NEW k \in Mutexes, NEW i \in 1..Len(waitq'[k]), NEW j \in 1..Len(waitq'[k]),
               waitq'[k][i] = waitq'[k][j]
        PROVE  i = j
    BY <2>2, <1>h, <1>i DEF QueueIsLive
  <2> QED BY <2>1, <2>2 DEF QueueIsLive
<1>7. EventShape'
    BY <1>d, <1>e, <1>g DEF EventShape, ThreadState, TypeOK
<1>8. WaitListExact' /\ WaitResultExact'
    BY DEF WaitListExact, WaitResultExact
<1> QED BY <1>1, <1>2, <1>3, <1>4, <1>5, <1>6, <1>7, <1>8

(* Coming back from the slow path.                                         *)
LEMMA LockResumeStep ==
    ASSUME IndInv, NEW t \in Threads, NEW m \in Mutexes, mutex_lock_resume(t, m)
    PROVE  IndInv'
<1> USE SyncAssumption DEF mutex_lock_resume, threadVars, eventVars, IndInv
<1>a. state[t] = "RUNNING" /\ owner[m] = t
    BY DEF OneRunning, ResumedOwnsMutex
<1>b. /\ lockOn' = [lockOn EXCEPT ![t] = NoMutex]
      /\ lockOn \in [Threads -> Mutexes \cup {NoMutex}]
      /\ held' = [held EXCEPT ![t] = held[t] \cup {m}]
      /\ held \in [Threads -> SUBSET Mutexes]
      /\ UNCHANGED <<state, current, locked, owner, waitq>>
    BY DEF TypeOK
<1>c. UNCHANGED <<signaled, waiters, wait_event, wait_signaled, waitOn, seen>>
    OBVIOUS
<1>1. TypeOK'
  <2>1. held' \in [Threads -> SUBSET Mutexes]
    BY <1>b
  <2>2. lockOn' \in [Threads -> Mutexes \cup {NoMutex}]
    BY <1>b
  <2> QED BY <2>1, <2>2, <1>b, <1>c DEF TypeOK
<1>2. OneRunning'
    BY <1>b DEF OneRunning
<1>3. MutexShape'
    BY <1>a, <1>b, <1>c DEF MutexShape, InQueue
<1>4. MutualExclusion'
    BY <1>a, <1>b DEF MutualExclusion
<1>5. ResumedOwnsMutex'
    BY <1>b DEF ResumedOwnsMutex
<1>6. QueueIsLive'
  <2>1. \A k \in Mutexes : \A i \in 1..Len(waitq[k]) : waitq[k][i] # t /\ waitq[k][i] \in Threads
    BY <1>a DEF QueueIsLive, TypeOK
  <2> QED BY <2>1, <1>b DEF QueueIsLive
<1>7. EventShape' /\ WaitListExact' /\ WaitResultExact'
    BY <1>a, <1>b, <1>c DEF EventShape, WaitListExact, WaitResultExact
<1> QED BY <1>1, <1>2, <1>3, <1>4, <1>5, <1>6, <1>7

(* Handing the mutex to the first waiter, or freeing it.                   *)
LEMMA UnlockStep ==
    ASSUME IndInv, NEW t \in Threads, NEW m \in Mutexes, mutex_unlock(t, m)
    PROVE  IndInv'
<1> USE SyncAssumption DEF mutex_unlock, IndInv
<1>a. /\ current = t /\ lockOn[t] = NoMutex /\ waitOn[t] = NoEvent
      /\ owner[m] = t /\ locked[m] /\ m \in held[t]
    BY DEF Running, InterruptsOn, MutexShape, TypeOK
<1>b. UNCHANGED <<current, lockOn, signaled, waiters, wait_event, wait_signaled, waitOn, seen>>
    BY DEF eventVars
<1>c. /\ held' = [held EXCEPT ![t] = held[t] \ {m}]
      /\ held \in [Threads -> SUBSET Mutexes]
      /\ locked \in [Mutexes -> BOOLEAN]
      /\ owner \in [Mutexes -> Threads \cup {NoThread}]
      /\ waitq \in [Mutexes -> Seq(Threads)]
      /\ state \in [Threads -> ThreadState]
      /\ lockOn \in [Threads -> Mutexes \cup {NoMutex}]
      /\ waitOn \in [Threads -> Events \cup {NoEvent}]
    BY DEF TypeOK
<1>t. held' \in [Threads -> SUBSET Mutexes]
    BY <1>c
<1>1. CASE waitq[m] = <<>>
  <2>1. /\ locked' = [locked EXCEPT ![m] = FALSE]
        /\ owner' = [owner EXCEPT ![m] = NoThread]
        /\ waitq' = waitq
        /\ state' = state
    BY <1>1, <1>c DEF NewOwner, Dequeued
  <2>2. TypeOK'
    <3>1. locked' \in [Mutexes -> BOOLEAN] /\ owner' \in [Mutexes -> Threads \cup {NoThread}]
      BY <2>1, <1>c
    <3> QED BY <3>1, <2>1, <1>b, <1>t DEF TypeOK
  <2>3. OneRunning' /\ QueueIsLive'
    BY <2>1, <1>b DEF OneRunning, QueueIsLive
  <2>4. MutexShape'
    BY <2>1, <1>1, <1>a, <1>b, <1>c DEF MutexShape, InQueue
  <2>5. MutualExclusion'
    BY <2>1, <1>a, <1>c DEF MutualExclusion
  <2>6. ResumedOwnsMutex'
    BY <2>1, <1>a, <1>b, <1>c DEF ResumedOwnsMutex
  <2>7. EventShape' /\ WaitListExact' /\ WaitResultExact'
    BY <2>1, <1>b DEF EventShape, WaitListExact, WaitResultExact
  <2> QED BY <2>2, <2>3, <2>4, <2>5, <2>6, <2>7
<1>2. CASE waitq[m] # <<>>
  <2> DEFINE w == Head(waitq[m])
  <2>1. /\ w \in Threads /\ w = waitq[m][1] /\ Len(waitq[m]) \in Nat \ {0}
        /\ Tail(waitq[m]) \in Seq(Threads)
        /\ Len(Tail(waitq[m])) = Len(waitq[m]) - 1
        /\ \A i \in 1..Len(Tail(waitq[m])) : Tail(waitq[m])[i] = waitq[m][i + 1]
    BY <1>2, <1>c
  <2>2. /\ locked' = [locked EXCEPT ![m] = TRUE]
        /\ owner' = [owner EXCEPT ![m] = w]
        /\ waitq' = [waitq EXCEPT ![m] = Tail(waitq[m])]
        /\ state' = [u \in Threads |-> IF u = w THEN "READY" ELSE state[u]]
    BY <1>2 DEF NewOwner, Dequeued
  <2> HIDE DEF w
  <2>3. /\ lockOn[w] = m /\ state[w] = "BLOCKED" /\ w # t
    BY <2>1, <1>a DEF QueueIsLive
  <2>4. /\ waitq'[m] = Tail(waitq[m])
        /\ \A k \in Mutexes \ {m} : waitq'[k] = waitq[k]
        /\ waitq' \in [Mutexes -> Seq(Threads)]
    <3> DEFINE q == Tail(waitq[m])
    <3>1. q \in Seq(Threads) /\ waitq' = [waitq EXCEPT ![m] = q]
      BY <2>1, <2>2
    <3> HIDE DEF q
    <3>2. /\ waitq'[m] = q
          /\ \A k \in Mutexes \ {m} : waitq'[k] = waitq[k]
          /\ waitq' \in [Mutexes -> Seq(Threads)]
      BY <3>1, <1>c
    <3> QED BY <3>2 DEF q
  <2>5. TypeOK'
    <3>1. locked' \in [Mutexes -> BOOLEAN] /\ owner' \in [Mutexes -> Threads \cup {NoThread}]
      BY <2>1, <2>2, <1>c
    <3>2. state' \in [Threads -> ThreadState]
      BY <2>2, <1>c DEF ThreadState
    <3> QED BY <3>1, <3>2, <2>4, <1>b, <1>t DEF TypeOK
  <2>6. OneRunning'
    <3>1. state[w] # "RUNNING" /\ current # w
      BY <2>1, <2>3 DEF OneRunning
    <3>2. state'[w] = "READY" /\ \A u \in Threads \ {w} : state'[u] = state[u]
      BY <2>1, <2>2
    <3> QED BY <3>1, <3>2, <1>b DEF OneRunning
  <2>7. MutexShape'
    <3>1. \A k \in Mutexes : (locked[k] <=> owner[k] # NoThread)' /\ (~locked[k] => waitq[k] = <<>>)'
      BY <2>1, <2>2, <2>4, <1>c DEF MutexShape
    <3>2. ASSUME NEW u \in Threads, NEW k \in Mutexes, owner'[k] = u
          PROVE  k \in held'[u] \/ lockOn'[u] = k
      BY <3>2, <2>1, <2>2, <2>3, <1>a, <1>b, <1>c DEF MutexShape
    <3>3. ASSUME NEW u \in Threads, NEW k \in Mutexes, lockOn'[u] = k
          PROVE  /\ k \notin held'[u] /\ waitOn'[u] = NoEvent
                 /\ state'[u] # "SLEEPING"
      BY <3>3, <2>2, <1>b, <1>c DEF MutexShape
    <3>4. ASSUME NEW u \in Threads, NEW k \in Mutexes, lockOn'[u] = k, state'[u] = "BLOCKED"
          PROVE  InQueue(u, k)'
      <4>1. u # w /\ InQueue(u, k)
        BY <3>4, <2>1, <2>2, <1>b DEF MutexShape
      <4>2. CASE k = m
        <5>1. PICK i \in 1..Len(waitq[m]) : waitq[m][i] = u
          BY <4>1, <4>2 DEF InQueue
        <5>2. i # 1 /\ i - 1 \in 1..Len(Tail(waitq[m]))
          BY <5>1, <4>1, <2>1
        <5>3. Tail(waitq[m])[i - 1] = waitq[m][(i - 1) + 1] /\ (i - 1) + 1 = i
          BY <5>2, <2>1
        <5>4. i - 1 \in 1..Len(waitq'[m]) /\ waitq'[m][i - 1] = u
          BY <5>1, <5>2, <5>3, <2>4
        <5> QED BY <5>4, <4>2 DEF InQueue
      <4>3. CASE k # m
        BY <4>1, <4>3, <2>4 DEF InQueue
      <4> QED BY <4>2, <4>3
    <3> HIDE DEF mutex_unlock, IndInv
    <3> QED BY <3>1, <3>2, <3>3, <3>4 DEF MutexShape
  <2>8. MutualExclusion'
    <3>1. \A u \in Threads : m \notin held'[u]
      BY <1>a, <1>c DEF MutualExclusion
    <3>2. \A u \in Threads, k \in Mutexes : k # m => ((k \in held'[u]) <=> (k \in held[u]))
      BY <1>c
    <3>3. \A k \in Mutexes : k # m => owner'[k] = owner[k]
      BY <2>2, <1>c
    <3> QED BY <3>1, <3>2, <3>3 DEF MutualExclusion
  <2>9. ResumedOwnsMutex'
    BY <2>1, <2>2, <2>3, <1>a, <1>b, <1>c DEF ResumedOwnsMutex
  <2>10. QueueIsLive'
    <3>1. ASSUME NEW k \in Mutexes, NEW i \in 1..Len(waitq'[k])
          PROVE  \E j \in 1..Len(waitq[k]) :
                    waitq'[k][i] = waitq[k][j] /\ j = (IF k = m THEN i + 1 ELSE i)
      <4>1. CASE k # m
        BY <4>1, <2>4
      <4>2. CASE k = m
        <5>1. i \in 1..Len(Tail(waitq[m])) /\ waitq'[k][i] = Tail(waitq[m])[i]
          BY <4>2, <2>4
        <5>2. i + 1 \in 1..Len(waitq[m]) /\ waitq'[k][i] = waitq[m][i + 1]
          BY <5>1, <2>1
        <5> QED BY <5>2, <4>2
      <4> QED BY <4>1, <4>2
    <3>2. ASSUME NEW k \in Mutexes, NEW i \in 1..Len(waitq'[k])
          PROVE  lockOn'[waitq'[k][i]] = k /\ state'[waitq'[k][i]] = "BLOCKED"
      <4>1. PICK j \in 1..Len(waitq[k]) :
               waitq'[k][i] = waitq[k][j] /\ j = (IF k = m THEN i + 1 ELSE i)
        BY <3>1
      <4>2. /\ lockOn[waitq[k][j]] = k /\ state[waitq[k][j]] = "BLOCKED"
            /\ waitq[k][j] \in Threads
        BY <4>1, <1>c DEF QueueIsLive
      <4>3. waitq[k][j] # w
        <5>1. CASE k = m
          BY <5>1, <4>1, <2>1 DEF QueueIsLive
        <5>2. CASE k # m
          BY <5>2, <4>2, <2>3
        <5> QED BY <5>1, <5>2
      <4> QED BY <4>1, <4>2, <4>3, <2>2, <1>b
    <3>3. ASSUME NEW k \in Mutexes, NEW i \in 1..Len(waitq'[k]), NEW j \in 1..Len(waitq'[k]),
                 waitq'[k][i] = waitq'[k][j]
          PROVE  i = j
      <4>1. PICK a \in 1..Len(waitq[k]) :
               waitq'[k][i] = waitq[k][a] /\ a = (IF k = m THEN i + 1 ELSE i)
        BY <3>1
      <4>2. PICK b \in 1..Len(waitq[k]) :
               waitq'[k][j] = waitq[k][b] /\ b = (IF k = m THEN j + 1 ELSE j)
        BY <3>1
      <4>3. a = b
        BY <3>3, <4>1, <4>2 DEF QueueIsLive
      <4> QED BY <4>1, <4>2, <4>3, <2>1, <2>4
    <3> QED BY <3>2, <3>3 DEF QueueIsLive
  <2>11. EventShape' /\ WaitListExact' /\ WaitResultExact'
    BY <2>1, <2>2, <2>3, <1>b DEF EventShape, WaitListExact, WaitResultExact
  <2> QED BY <2>5, <2>6, <2>7, <2>8, <2>9, <2>10, <2>11
<1> QED BY <1>1, <1>2

(* A switch that only puts threads to sleep that are inside no call, and   *)
(* wakes sleepers: thread_sleep, thread_yield and the timer interrupt.     *)
LEMMA QuietSwitch ==
    ASSUME IndInv, NEW STATE st, st \in [Threads -> ThreadState],
           NEW n \in Threads \cup {Idle}, SwitchTo(st, n),
           \A u \in Threads : st[u] = "BLOCKED" <=> state[u] = "BLOCKED",
           \A u \in Threads : st[u] = "SLEEPING" =>
                state[u] = "SLEEPING" \/ (lockOn[u] = NoMutex /\ waitOn[u] = NoEvent),
           UNCHANGED <<mutexVars, eventVars>>
    PROVE  IndInv'
<1> USE SyncAssumption DEF mutexVars, eventVars, IndInv
<1>a. /\ state' \in [Threads -> ThreadState]
      /\ current' \in Threads \cup {Idle}
      /\ \A u \in Threads : state'[u] = "RUNNING" <=> current' = u
      /\ \A u \in Threads : state'[u] = "BLOCKED" <=> state[u] = "BLOCKED"
      /\ \A u \in Threads : state'[u] = "SLEEPING" <=> st[u] = "SLEEPING"
    BY SwitchFacts
<1>b. state \in [Threads -> ThreadState]
    BY DEF TypeOK
<1>1. TypeOK'
    BY <1>a DEF TypeOK
<1>2. OneRunning'
    BY <1>a DEF OneRunning
<1>3. MutexShape'
    BY <1>a DEF MutexShape, InQueue
<1>4. MutualExclusion'
    BY DEF MutualExclusion
<1>q. QueueIsLive'
  <2>1. \A m \in Mutexes : \A i \in 1..Len(waitq[m]) : waitq[m][i] \in Threads
    BY DEF TypeOK
  <2>2. waitq' = waitq /\ lockOn' = lockOn
    OBVIOUS
  <2>3. QueueIsLive
    OBVIOUS
  <2>4. \A u \in Threads : state[u] = "BLOCKED" => state'[u] = "BLOCKED"
    BY <1>a
  <2> HIDE DEF mutexVars, eventVars, IndInv
  <2>5. \A m \in Mutexes : \A i \in 1..Len(waitq[m]) :
          lockOn[waitq[m][i]] = m /\ state'[waitq[m][i]] = "BLOCKED"
    BY <2>1, <2>3, <2>4 DEF QueueIsLive
  <2> QED BY <2>2, <2>3, <2>5 DEF QueueIsLive
<1>5. ResumedOwnsMutex'
  <2> HIDE DEF eventVars, IndInv
  <2>1. SUFFICES ASSUME NEW t \in Threads, NEW m \in Mutexes,
                        lockOn'[t] = m, state'[t] \in {"READY", "RUNNING"}
                 PROVE  owner'[m] = t
    BY DEF ResumedOwnsMutex
  <2>2. lockOn[t] = m /\ owner' = owner
    BY <2>1
  <2>3. state[t] # "SLEEPING" /\ state[t] # "BLOCKED"
    BY <2>1, <2>2, <1>a DEF IndInv, MutexShape
  <2>4. state[t] \in {"READY", "RUNNING"}
    BY <2>3, <1>b DEF ThreadState
  <2> QED BY <2>2, <2>4 DEF IndInv, ResumedOwnsMutex
<1>6. EventShape'
    BY <1>a, <1>b DEF EventShape, ThreadState
<1>7. WaitListExact' /\ WaitResultExact'
    BY DEF WaitListExact, WaitResultExact
<1> QED BY <1>1, <1>2, <1>3, <1>4, <1>5, <1>6, <1>7, <1>q

(* A thread that sleeps or yields changes no list.                         *)
LEMMA SleepYieldStep ==
    ASSUME IndInv, NEW t \in Threads, thread_sleep(t) \/ thread_yield(t)
    PROVE  IndInv'
<1>a. /\ current = t /\ lockOn[t] = NoMutex /\ waitOn[t] = NoEvent
      /\ state[t] = "RUNNING" /\ state \in [Threads -> ThreadState]
      /\ UNCHANGED <<mutexVars, eventVars>>
    BY DEF thread_sleep, thread_yield, Running, InterruptsOn, IndInv, TypeOK, OneRunning
<1>1. CASE thread_sleep(t)
  <2> DEFINE st == [state EXCEPT ![t] = "SLEEPING"]
  <2>1. PICK n \in Threads \cup {Idle} : SwitchTo(st, n)
    BY <1>1 DEF thread_sleep, Switch
  <2>2. /\ st \in [Threads -> ThreadState]
        /\ \A u \in Threads : st[u] = "BLOCKED" <=> state[u] = "BLOCKED"
        /\ \A u \in Threads : st[u] = "SLEEPING" =>
             state[u] = "SLEEPING" \/ (lockOn[u] = NoMutex /\ waitOn[u] = NoEvent)
    BY <1>a DEF ThreadState
  <2> HIDE DEF st
  <2> QED BY <1>a, <2>1, <2>2, QuietSwitch
<1>2. CASE thread_yield(t)
  <2>1. PICK n \in Threads \cup {Idle} : SwitchTo(state, n)
    BY <1>2 DEF thread_yield, Switch
  <2> QED BY <1>a, <2>1, QuietSwitch
<1> QED BY <1>1, <1>2

(* The timer wakes sleepers and expires waits.                             *)
LEMMA TickStep == IndInv /\ Tick => IndInv'
<1> SUFFICES ASSUME IndInv, NEW W \in SUBSET Threads, NEW n \in Threads \cup {Idle},
                    TimerTick(W, n)
             PROVE  IndInv'
    BY DEF Tick
<1> DEFINE st == [t \in Threads |-> IF t \in W THEN "READY" ELSE state[t]]
<1>1. SwitchTo(st, n) /\ UNCHANGED <<mutexVars, eventVars>>
    BY DEF TimerTick
<1>2. /\ st \in [Threads -> ThreadState]
      /\ \A u \in Threads : st[u] = "BLOCKED" <=> state[u] = "BLOCKED"
      /\ \A u \in Threads : st[u] = "SLEEPING" => state[u] = "SLEEPING"
    BY DEF TimerTick, IndInv, TypeOK, ThreadState
<1> HIDE DEF st
<1> QED BY <1>1, <1>2, QuietSwitch

(* A signal takes every waiter off the list and makes it runnable.         *)
LEMMA SignalStep ==
    ASSUME IndInv, NEW e \in Events, event_signal(e)
    PROVE  IndInv'
<1> USE SyncAssumption DEF IndInv
<1>a. UNCHANGED <<current, waitOn, locked, owner, waitq, lockOn, held>>
    BY DEF event_signal, mutexVars
<1>b. /\ state \in [Threads -> ThreadState]
      /\ waiters \in [Events -> SUBSET Threads]
      /\ wait_event \in [Threads -> Events \cup {NoEvent}]
      /\ wait_signaled \in [Threads -> BOOLEAN]
      /\ waitOn \in [Threads -> Events \cup {NoEvent}]
      /\ signaled \in [Events -> BOOLEAN]
      /\ seen \in [Threads -> BOOLEAN]
    BY DEF TypeOK
<1>c. seen' = [t \in Threads |-> seen[t] \/ waitOn[t] = e]
    BY DEF event_signal
<1>1. CASE waiters[e] = {}
  <2>1. /\ signaled' = [signaled EXCEPT ![e] = TRUE]
        /\ UNCHANGED <<waiters, wait_event, wait_signaled, state>>
    BY <1>1 DEF event_signal
  <2>2. TypeOK'
    <3>1. signaled' \in [Events -> BOOLEAN] /\ seen' \in [Threads -> BOOLEAN]
      BY <2>1, <1>b, <1>c
    <3> QED BY <3>1, <2>1, <1>a DEF TypeOK
  <2>3. OneRunning' /\ MutexShape' /\ MutualExclusion' /\ ResumedOwnsMutex' /\ QueueIsLive'
    BY <2>1, <1>a DEF OneRunning, MutexShape, MutualExclusion, ResumedOwnsMutex, QueueIsLive, InQueue
  <2>4. EventShape' /\ WaitListExact'
    BY <2>1, <1>1, <1>a, <1>b DEF EventShape, WaitListExact
  <2>5. WaitResultExact'
    BY <2>1, <1>1, <1>a, <1>b, <1>c DEF WaitResultExact, EventShape
  <2> QED BY <2>2, <2>3, <2>4, <2>5
<1>2. CASE waiters[e] # {}
  <2>1. /\ waiters' = [waiters EXCEPT ![e] = {}]
        /\ wait_event' = [t \in Threads |-> IF t \in waiters[e] THEN NoEvent ELSE wait_event[t]]
        /\ wait_signaled' = [t \in Threads |-> t \in waiters[e] \/ wait_signaled[t]]
        /\ state' = [t \in Threads |->
             IF t \in waiters[e] /\ state[t] \in {"SLEEPING", "BLOCKED"}
             THEN "READY" ELSE state[t]]
        /\ signaled' = signaled
    BY <1>2 DEF event_signal, Marked, Wakeable
  <2>2. TypeOK'
    <3>1. seen' \in [Threads -> BOOLEAN]
      BY <1>b, <1>c
    <3>2. waiters' \in [Events -> SUBSET Threads]
      BY <2>1, <1>b
    <3>3. wait_event' \in [Threads -> Events \cup {NoEvent}]
      BY <2>1, <1>b
    <3>4. wait_signaled' \in [Threads -> BOOLEAN]
      BY <2>1, <1>b
    <3>5. state' \in [Threads -> ThreadState]
      BY <2>1, <1>b DEF ThreadState
    <3> QED BY <3>1, <3>2, <3>3, <3>4, <3>5, <2>1, <1>a DEF TypeOK
  <2>3. \A t \in Threads :
          /\ state'[t] = "RUNNING" <=> state[t] = "RUNNING"
          /\ state'[t] = "SLEEPING" => state[t] = "SLEEPING"
          /\ state'[t] = "BLOCKED" <=> state[t] = "BLOCKED" /\ t \notin waiters[e]
          /\ t \in waiters[e] => waitOn[t] = e /\ lockOn[t] = NoMutex
          /\ t \in waiters[e] => state'[t] \in {"READY", "RUNNING"}
          /\ t \notin waiters[e] => state'[t] = state[t]
    <3>1. ASSUME NEW t \in Threads, t \in waiters[e] PROVE waitOn[t] = e /\ lockOn[t] = NoMutex
      <4>1. waitOn[t] = e /\ waitOn[t] # NoEvent
        BY <3>1 DEF WaitListExact
      <4>2. lockOn[t] \in Mutexes \cup {NoMutex}
        BY DEF TypeOK
      <4>3. lockOn[t] \notin Mutexes
        BY <4>1 DEF MutexShape
      <4> QED BY <4>1, <4>2, <4>3
    <3> QED BY <3>1, <2>1, <1>b DEF ThreadState
  <2>4. OneRunning'
    BY <2>3, <1>a DEF OneRunning
  <2>5. MutexShape'
    BY <2>3, <1>a DEF MutexShape, InQueue
  <2>6. MutualExclusion'
    BY <1>a DEF MutualExclusion
  <2>7. ResumedOwnsMutex'
    BY <2>3, <1>a DEF ResumedOwnsMutex
  <2>8. QueueIsLive'
    <3>1. \A m \in Mutexes : \A i \in 1..Len(waitq[m]) : waitq[m][i] \in Threads
      BY DEF TypeOK
    <3> QED BY <3>1, <2>3, <1>a DEF QueueIsLive
  <2>9. EventShape'
    <3>1. \A f \in Events : signaled'[f] => waiters'[f] = {}
      BY <2>1, <1>b DEF EventShape
    <3>2. ASSUME NEW t \in Threads
          PROVE  /\ waitOn'[t] = NoEvent => wait_event'[t] = NoEvent
                 /\ state'[t] = "BLOCKED" => lockOn'[t] # NoMutex \/ waitOn'[t] # NoEvent
      BY <2>1, <2>3, <1>a DEF EventShape
    <3>3. ASSUME NEW t \in Threads, NEW f \in Events, waitOn'[t] = f, t \notin waiters'[f]
          PROVE  wait_signaled'[t] /\ state'[t] \in {"READY", "RUNNING"}
      BY <3>3, <2>1, <2>3, <1>a, <1>b DEF EventShape
    <3> QED BY <3>1, <3>2, <3>3 DEF EventShape
  <2>10. WaitListExact'
    BY <2>1, <1>a, <1>b DEF WaitListExact
  <2>11. WaitResultExact'
    BY <2>1, <1>a, <1>b, <1>c DEF WaitResultExact, EventShape, WaitListExact
  <2> QED BY <2>2, <2>4, <2>5, <2>6, <2>7, <2>8, <2>9, <2>10, <2>11
<1> QED BY <1>1, <1>2

(* event_wait returns at once on a signaled event.                         *)
LEMMA WaitReadyStep ==
    ASSUME IndInv, NEW t \in Threads, NEW e \in Events, event_wait_ready(t, e)
    PROVE  IndInv'
<1> USE DEF IndInv, event_wait_ready, threadVars, mutexVars
<1>1. TypeOK'
    BY DEF TypeOK
<1>2. OneRunning' /\ MutexShape' /\ MutualExclusion' /\ ResumedOwnsMutex' /\ QueueIsLive'
    BY DEF OneRunning, MutexShape, MutualExclusion, ResumedOwnsMutex, QueueIsLive, InQueue
<1>3. EventShape' /\ WaitListExact' /\ WaitResultExact'
    BY DEF EventShape, WaitListExact, WaitResultExact, TypeOK
<1> QED BY <1>1, <1>2, <1>3

(* Queueing on an event and switching away.                                *)
LEMMA WaitBlockStep ==
    ASSUME IndInv, NEW t \in Threads, NEW e \in Events,
           NEW b \in {"SLEEPING", "BLOCKED"}, event_wait_block(t, e, b)
    PROVE  IndInv'
<1> USE SyncAssumption DEF IndInv
<1> DEFINE st == [state EXCEPT ![t] = b]
<1>a. /\ current = t /\ lockOn[t] = NoMutex /\ waitOn[t] = NoEvent /\ ~signaled[e]
      /\ state[t] = "RUNNING" /\ state \in [Threads -> ThreadState]
      /\ UNCHANGED <<signaled, locked, owner, waitq, lockOn, held>>
    BY DEF event_wait_block, Running, InterruptsOn, TypeOK, OneRunning, mutexVars
<1>b. PICK n \in Threads \cup {Idle} : SwitchTo(st, n)
    BY DEF event_wait_block, Switch
<1>c. /\ st \in [Threads -> ThreadState] /\ st[t] = b
      /\ \A u \in Threads \ {t} : st[u] = state[u]
    BY <1>a DEF ThreadState
<1> HIDE DEF st
<1>d. /\ state' \in [Threads -> ThreadState]
      /\ current' \in Threads \cup {Idle}
      /\ \A u \in Threads : state'[u] = "RUNNING" <=> current' = u
      /\ \A u \in Threads : state'[u] = "BLOCKED" <=> st[u] = "BLOCKED"
      /\ \A u \in Threads : state'[u] = "SLEEPING" <=> st[u] = "SLEEPING"
    BY <1>b, <1>c, SwitchFacts
<1>e. /\ waiters \in [Events -> SUBSET Threads]
      /\ wait_event \in [Threads -> Events \cup {NoEvent}]
      /\ wait_signaled \in [Threads -> BOOLEAN]
      /\ waitOn \in [Threads -> Events \cup {NoEvent}]
      /\ seen \in [Threads -> BOOLEAN]
    BY DEF TypeOK
<1>f. /\ wait_signaled' = [wait_signaled EXCEPT ![t] = FALSE]
      /\ wait_event' = [wait_event EXCEPT ![t] = e]
      /\ waiters' = [waiters EXCEPT ![e] = waiters[e] \cup {t}]
      /\ waitOn' = [waitOn EXCEPT ![t] = e]
      /\ seen' = [seen EXCEPT ![t] = FALSE]
    BY DEF event_wait_block
<1>1. TypeOK'
  <2>1. waiters' \in [Events -> SUBSET Threads]
    BY <1>e, <1>f
  <2>2. wait_event' \in [Threads -> Events \cup {NoEvent}] /\ waitOn' \in [Threads -> Events \cup {NoEvent}]
    BY <1>e, <1>f
  <2>3. wait_signaled' \in [Threads -> BOOLEAN] /\ seen' \in [Threads -> BOOLEAN]
    BY <1>e, <1>f
  <2> QED BY <2>1, <2>2, <2>3, <1>a, <1>d DEF TypeOK
<1>2. OneRunning'
    BY <1>d DEF OneRunning
<1>3. MutexShape'
    BY <1>a, <1>c, <1>d, <1>e, <1>f DEF MutexShape, InQueue
<1>4. MutualExclusion'
    BY <1>a DEF MutualExclusion
<1>5. ResumedOwnsMutex'
    BY <1>a, <1>c, <1>d DEF ResumedOwnsMutex, ThreadState
<1>6. QueueIsLive'
  <2>1. \A m \in Mutexes : \A i \in 1..Len(waitq[m]) : waitq[m][i] \in Threads /\ waitq[m][i] # t
    BY <1>a DEF TypeOK, QueueIsLive
  <2> QED BY <2>1, <1>a, <1>c, <1>d DEF QueueIsLive
<1>7. EventShape'
  <2>1. \A f \in Events : signaled'[f] => waiters'[f] = {}
    BY <1>a, <1>e, <1>f DEF EventShape
  <2>2. ASSUME NEW u \in Threads
        PROVE  /\ waitOn'[u] = NoEvent => wait_event'[u] = NoEvent
               /\ state'[u] = "BLOCKED" => lockOn'[u] # NoMutex \/ waitOn'[u] # NoEvent
    BY <1>a, <1>c, <1>d, <1>e, <1>f DEF EventShape
  <2>3. ASSUME NEW u \in Threads, NEW f \in Events, waitOn'[u] = f, u \notin waiters'[f]
        PROVE  wait_signaled'[u] /\ state'[u] \in {"READY", "RUNNING"}
    <3>1. u # t
      BY <2>3, <1>e, <1>f
    <3>2. waitOn[u] = f /\ u \notin waiters[f] /\ wait_signaled'[u] = wait_signaled[u]
      BY <3>1, <2>3, <1>e, <1>f
    <3> QED BY <3>1, <3>2, <1>c, <1>d DEF EventShape, ThreadState
  <2> QED BY <2>1, <2>2, <2>3 DEF EventShape
<1>8. WaitListExact'
    BY <1>a, <1>e, <1>f DEF WaitListExact, EventShape
<1>9. WaitResultExact'
    BY <1>e, <1>f DEF WaitResultExact
<1> QED BY <1>1, <1>2, <1>3, <1>4, <1>5, <1>6, <1>7, <1>8, <1>9

(* Coming back from event_wait.                                            *)
LEMMA WaitResumeStep ==
    ASSUME IndInv, NEW t \in Threads, NEW e \in Events, event_wait_resume(t, e)
    PROVE  IndInv'
<1> USE SyncAssumption DEF IndInv
<1>a. /\ current = t /\ waitOn[t] = e /\ state[t] = "RUNNING"
      /\ UNCHANGED <<signaled, state, current, locked, owner, waitq, lockOn, held>>
    BY DEF event_wait_resume, threadVars, mutexVars, OneRunning
<1>b. /\ waiters \in [Events -> SUBSET Threads]
      /\ wait_event \in [Threads -> Events \cup {NoEvent}]
      /\ wait_signaled \in [Threads -> BOOLEAN]
      /\ waitOn \in [Threads -> Events \cup {NoEvent}]
      /\ seen \in [Threads -> BOOLEAN]
    BY DEF TypeOK
<1>c. /\ wait_signaled' = [wait_signaled EXCEPT ![t] = FALSE]
      /\ waitOn' = [waitOn EXCEPT ![t] = NoEvent]
      /\ seen' = [seen EXCEPT ![t] = FALSE]
    BY DEF event_wait_resume
<1>d. /\ waiters' = [waiters EXCEPT ![e] = waiters[e] \ {t}]
      /\ wait_event' = [wait_event EXCEPT ![t] = NoEvent]
  <2>1. CASE wait_event[t] = e
    BY <2>1 DEF event_wait_resume, WaitersWithout
  <2>2. CASE wait_event[t] # e
    <3>1. t \notin waiters[e] /\ wait_event[t] = NoEvent
      BY <2>2, <1>a, <1>b DEF WaitListExact
    <3>2. waiters' = waiters /\ wait_event' = wait_event
      BY <2>2 DEF event_wait_resume
    <3>3. waiters[e] \ {t} = waiters[e]
      BY <3>1
    <3> QED BY <3>1, <3>2, <3>3, <1>b
  <2> QED BY <2>1, <2>2
<1>1. TypeOK'
  <2>1. waiters' \in [Events -> SUBSET Threads]
    BY <1>b, <1>d
  <2>2. wait_event' \in [Threads -> Events \cup {NoEvent}] /\ waitOn' \in [Threads -> Events \cup {NoEvent}]
    BY <1>b, <1>c, <1>d
  <2>3. wait_signaled' \in [Threads -> BOOLEAN] /\ seen' \in [Threads -> BOOLEAN]
    BY <1>b, <1>c
  <2> QED BY <2>1, <2>2, <2>3, <1>a DEF TypeOK
<1>2. OneRunning' /\ MutualExclusion' /\ ResumedOwnsMutex' /\ QueueIsLive'
    BY <1>a DEF OneRunning, MutualExclusion, ResumedOwnsMutex, QueueIsLive
<1>3. MutexShape'
    BY <1>a, <1>b, <1>c DEF MutexShape, InQueue
<1>4. EventShape'
    BY <1>a, <1>b, <1>c, <1>d DEF EventShape
<1>5. WaitListExact'
    BY <1>a, <1>b, <1>c, <1>d DEF WaitListExact
<1>6. WaitResultExact'
    BY <1>b, <1>c DEF WaitResultExact
<1> QED BY <1>1, <1>2, <1>3, <1>4, <1>5, <1>6

(* Every step of the kernel preserves the invariant.                       *)
LEMMA NextIndInv == IndInv /\ [Next]_vars => IndInv'
<1> SUFFICES ASSUME IndInv, [Next]_vars PROVE IndInv'
    OBVIOUS
<1>1. ASSUME NEW t \in Threads, MutexNext(t) PROVE IndInv'
    BY <1>1, TakeStep, LockSlowStep, LockResumeStep, UnlockStep DEF MutexNext
<1>2. ASSUME NEW t \in Threads, EventNext(t) PROVE IndInv'
    BY <1>2, WaitReadyStep, WaitBlockStep, WaitResumeStep DEF EventNext
<1>3. ASSUME NEW t \in Threads, thread_sleep(t) \/ thread_yield(t) PROVE IndInv'
    BY <1>3, SleepYieldStep
<1>4. ASSUME NEW e \in Events, event_signal(e) PROVE IndInv'
    BY <1>4, SignalStep
<1>5. CASE Tick
    BY <1>5, TickStep
<1>6. CASE UNCHANGED vars
    BY <1>6 DEF vars, threadVars, mutexVars, eventVars, IndInv, TypeOK, OneRunning, MutexShape,
        MutualExclusion, ResumedOwnsMutex, QueueIsLive, EventShape, WaitListExact,
        WaitResultExact, InQueue
<1> QED BY <1>1, <1>2, <1>3, <1>4, <1>5, <1>6 DEF Next

(* The inductive invariant holds in every reachable state.                 *)
THEOREM SyncInvariant == Spec => []IndInv
BY InitIndInv, NextIndInv, PTL DEF Spec

(* The fields stay within their types.                                     *)
THEOREM SyncTypeCorrect == Spec => []TypeOK
<1>1. IndInv => TypeOK
    BY DEF IndInv
<1> QED BY <1>1, SyncInvariant, PTL

(* Two threads never hold the same mutex, and a thread that returns from   *)
(* the slow path of mutex_lock owns it.                                    *)
THEOREM SyncMutualExclusion == Spec => [](MutualExclusion /\ ResumedOwnsMutex)
<1>1. IndInv => MutualExclusion /\ ResumedOwnsMutex
    BY DEF IndInv
<1> QED BY <1>1, SyncInvariant, PTL

(* A BLOCKED thread is always where its waker will look for it.            *)
THEOREM SyncBlockedIsFindable == Spec => []BlockedIsFindable
<1>1. IndInv => BlockedIsFindable
  <2> SUFFICES ASSUME IndInv, NEW t \in Threads, state[t] = "BLOCKED"
               PROVE  \/ lockOn[t] \in Mutexes /\ locked[lockOn[t]] /\ InQueue(t, lockOn[t])
                      \/ waitOn[t] \in Events /\ ~signaled[waitOn[t]] /\ t \in waiters[waitOn[t]]
    BY DEF BlockedIsFindable
  <2>1. /\ lockOn[t] \in Mutexes \/ waitOn[t] \in Events
        /\ waitq \in [Mutexes -> Seq(Threads)]
    BY DEF IndInv, TypeOK, EventShape
  <2>2. CASE lockOn[t] \in Mutexes
    <3>1. InQueue(t, lockOn[t])
      BY <2>2 DEF IndInv, MutexShape
    <3>2. waitq[lockOn[t]] # <<>>
      BY <3>1, <2>1, <2>2 DEF InQueue
    <3> QED BY <2>2, <3>1, <3>2 DEF IndInv, MutexShape
  <2>3. CASE waitOn[t] \in Events
    BY <2>3 DEF IndInv, EventShape
  <2> QED BY <2>1, <2>2, <2>3
<1> QED BY <1>1, SyncInvariant, PTL

(* event_wait's answer is exact and no timed-out waiter stays on a list.   *)
THEOREM SyncEventsExact == Spec => [](WaitResultExact /\ WaitListExact)
<1>1. IndInv => WaitResultExact /\ WaitListExact
    BY DEF IndInv
<1> QED BY <1>1, SyncInvariant, PTL

(* The hand-over of a mutex reaches the thread that resumes, and the list  *)
(* of an event holds the threads inside event_wait, whatever the timer and *)
(* other signals made READY in between.                                    *)
THEOREM SyncHandOverExact == Spec => []HandOverExact
<1>1. IndInv => HandOverExact
    BY DEF IndInv, HandOverExact
<1> QED BY <1>1, SyncInvariant, PTL

-----------------------------------------------------------------------------
(***************************************************************************)
(* The refinement: Sync's mutexes implement FifoLock.                      *)
(***************************************************************************)
(* Appending to a line, and taking its head off.                           *)
LEMMA LineAppend ==
    ASSUME NEW a \in Threads, NEW q \in Seq(Threads), NEW t \in Threads
    PROVE  <<a>> \o Append(q, t) = Append(<<a>> \o q, t)
<1>1. <<a>> \o q \in Seq(Threads) /\ Append(q, t) \in Seq(Threads)
    OBVIOUS
<1>2. Len(<<a>> \o Append(q, t)) = Len(q) + 2 /\ Len(Append(<<a>> \o q, t)) = Len(q) + 2
    OBVIOUS
<1>3. \A i \in 1..(Len(q) + 2) : (<<a>> \o Append(q, t))[i] = Append(<<a>> \o q, t)[i]
    OBVIOUS
<1> QED BY <1>1, <1>2, <1>3

(* The line of waiters behind its head.                                    *)
LEMMA LineTail ==
    ASSUME NEW a \in Threads, NEW q \in Seq(Threads)
    PROVE  /\ Head(<<a>> \o q) = a /\ <<a>> \o q # <<>>
           /\ Tail(<<a>> \o q) = q
           /\ q # <<>> => q = <<Head(q)>> \o Tail(q)
<1>1. <<a>> \o q \in Seq(Threads) /\ Len(<<a>> \o q) = Len(q) + 1 /\ (<<a>> \o q)[1] = a
    OBVIOUS
<1>2. Tail(<<a>> \o q) = q
    BY <1>1
<1>3. q # <<>> => q = <<Head(q)>> \o Tail(q)
    OBVIOUS
<1> QED BY <1>1, <1>2, <1>3

(* Changing the mutex m changes only its line.                             *)
LEMMA LinesExcept ==
    ASSUME NEW m \in Mutexes, NEW x,
           x = (IF locked[m] THEN <<owner[m]>> \o waitq[m] ELSE <<>>)',
           \A k \in Mutexes \ {m} :
                locked'[k] = locked[k] /\ owner'[k] = owner[k] /\ waitq'[k] = waitq[k]
    PROVE  lines' = [lines EXCEPT ![m] = x]
BY DEF lines

(* Every step of the kernel is a join, a leave or a stutter of the line.   *)
LEMMA LineStep == IndInv /\ [Next]_vars => [Fifo!Next]_lines
<1> SUFFICES ASSUME IndInv, [Next]_vars PROVE [Fifo!Next]_lines
    OBVIOUS
<1>a. /\ locked \in [Mutexes -> BOOLEAN]
      /\ owner \in [Mutexes -> Threads \cup {NoThread}]
      /\ waitq \in [Mutexes -> Seq(Threads)]
    BY DEF IndInv, TypeOK
<1>1. ASSUME UNCHANGED <<locked, owner, waitq>> PROVE UNCHANGED lines
    BY <1>1 DEF lines
<1>2. ASSUME NEW t \in Threads, NEW m \in Mutexes,
             mutex_lock_fast(t, m) \/ mutex_trylock(t, m)
      PROVE  Fifo!Join(t, m)
  <2>1. ~locked[m] /\ lines[m] = <<>> /\ waitq[m] = <<>>
    BY <1>2 DEF mutex_lock_fast, mutex_trylock, Free, lines, IndInv, MutexShape
  <2>2. /\ locked' = [locked EXCEPT ![m] = TRUE]
        /\ owner' = [owner EXCEPT ![m] = t]
        /\ waitq' = waitq
    BY <1>2 DEF mutex_lock_fast, mutex_trylock
  <2>3. Append(lines[m], t) = (IF locked[m] THEN <<owner[m]>> \o waitq[m] ELSE <<>>)'
    <3>1. (IF locked[m] THEN <<owner[m]>> \o waitq[m] ELSE <<>>)' = <<t>> \o <<>>
      BY <2>1, <2>2, <1>a
    <3>2. Append(<<>>, t) = <<t>> \o <<>>
      OBVIOUS
    <3> QED BY <3>1, <3>2, <2>1
  <2>4. lines' = [lines EXCEPT ![m] = Append(lines[m], t)]
    BY <2>2, <2>3, <1>a, LinesExcept
  <2>5. \A i \in 1..Len(lines[m]) : lines[m][i] # t
    BY <2>1
  <2> QED BY <2>4, <2>5 DEF Fifo!Join
<1>3. ASSUME NEW t \in Threads, NEW m \in Mutexes, mutex_lock_slow(t, m)
      PROVE  Fifo!Join(t, m)
  <2>1. /\ locked[m] /\ owner[m] \in Threads /\ waitq[m] \in Seq(Threads)
        /\ lines[m] = <<owner[m]>> \o waitq[m]
    BY <1>3, <1>a DEF mutex_lock_slow, Free, lines, IndInv, MutexShape
  <2>2. /\ waitq' = [waitq EXCEPT ![m] = Append(waitq[m], t)]
        /\ locked' = locked /\ owner' = owner
    BY <1>3 DEF mutex_lock_slow, Enqueued
  <2>3. Append(lines[m], t) = (IF locked[m] THEN <<owner[m]>> \o waitq[m] ELSE <<>>)'
    <3>1. (IF locked[m] THEN <<owner[m]>> \o waitq[m] ELSE <<>>)' = <<owner[m]>> \o Append(waitq[m], t)
      BY <2>1, <2>2, <1>a
    <3>2. <<owner[m]>> \o Append(waitq[m], t) = Append(<<owner[m]>> \o waitq[m], t)
      BY <2>1, LineAppend, Zenon
    <3> QED BY <3>1, <3>2, <2>1, Zenon
  <2>4. lines' = [lines EXCEPT ![m] = Append(lines[m], t)]
    BY <2>2, <2>3, <1>a, LinesExcept
  <2>5. t # owner[m] /\ \A i \in 1..Len(waitq[m]) : waitq[m][i] # t
    <3>1. lockOn[t] = NoMutex /\ m \notin held[t]
      BY <1>3, SyncAssumption DEF mutex_lock_slow, Running, InterruptsOn, InLockOrder, IndInv, TypeOK
    <3>2. t # owner[m]
      BY <3>1, SyncAssumption DEF IndInv, MutexShape
    <3>3. \A i \in 1..Len(waitq[m]) : waitq[m][i] # t
      BY <3>1, SyncAssumption DEF IndInv, QueueIsLive
    <3> QED BY <3>2, <3>3
  <2>6. \A i \in 1..Len(lines[m]) : lines[m][i] # t
    <3> DEFINE a == owner[m]
               q == waitq[m]
    <3> HIDE DEF a, q
    <3>1. a \in Threads /\ q \in Seq(Threads) /\ lines[m] = <<a>> \o q
      BY <2>1 DEF a, q
    <3>2. t # a /\ \A i \in 1..Len(q) : q[i] # t
      BY <2>5 DEF a, q
    <3> QED BY <3>1, <3>2, SMTT(40)
  <2> QED BY <2>4, <2>6 DEF Fifo!Join
<1>4. ASSUME NEW t \in Threads, NEW m \in Mutexes, mutex_unlock(t, m)
      PROVE  Fifo!Leave(t, m)
  <2>1. /\ locked[m] /\ owner[m] = t /\ waitq[m] \in Seq(Threads)
        /\ lines[m] = <<t>> \o waitq[m]
    BY <1>4, <1>a, SyncAssumption DEF mutex_unlock, lines, IndInv, MutexShape
  <2>2. lines[m] # <<>> /\ Head(lines[m]) = t /\ Tail(lines[m]) = waitq[m]
    BY <2>1, LineTail
  <2>3. /\ locked' = [locked EXCEPT ![m] = waitq[m] # <<>>]
        /\ owner' = [owner EXCEPT ![m] = NewOwner(m)]
        /\ waitq' = [waitq EXCEPT ![m] = Dequeued(m)]
    BY <1>4 DEF mutex_unlock
  <2>4. Tail(lines[m]) = (IF locked[m] THEN <<owner[m]>> \o waitq[m] ELSE <<>>)'
    <3>1. CASE waitq[m] = <<>>
      BY <3>1, <2>2, <2>3, <1>a
    <3>2. CASE waitq[m] # <<>>
      <4>1. (IF locked[m] THEN <<owner[m]>> \o waitq[m] ELSE <<>>)' = <<Head(waitq[m])>> \o Tail(waitq[m])
        BY <3>2, <2>3, <1>a DEF NewOwner, Dequeued
      <4> QED BY <4>1, <3>2, <2>1, <2>2, LineTail
    <3> QED BY <3>1, <3>2
  <2>5. lines' = [lines EXCEPT ![m] = Tail(lines[m])]
    BY <2>3, <2>4, <1>a, LinesExcept
  <2> QED BY <2>2, <2>5 DEF Fifo!Leave
<1>5. ASSUME NEW t \in Threads, MutexNext(t) PROVE [Fifo!Next]_lines
  <2>1. ASSUME NEW m \in Mutexes, mutex_lock_resume(t, m) PROVE UNCHANGED lines
    BY <2>1, <1>1 DEF mutex_lock_resume
  <2> QED BY <1>2, <1>3, <1>4, <1>5, <2>1 DEF MutexNext, Fifo!Next
<1>6. ASSUME \/ \E t \in Threads : EventNext(t) \/ thread_sleep(t) \/ thread_yield(t)
             \/ \E e \in Events : event_signal(e)
             \/ Tick
             \/ UNCHANGED vars
      PROVE  UNCHANGED lines
    BY <1>1, <1>6 DEF EventNext, event_wait_ready, event_wait_block, event_wait_resume,
        thread_sleep, thread_yield, event_signal, Tick, TimerTick, vars, mutexVars
<1> QED BY <1>5, <1>6 DEF Next

(* mutex.c implements the abstract FIFO lock.                              *)
THEOREM SyncImplementsFifoLock == Spec => ImplementsFifoLock
<1>1. Init => Fifo!Init
    BY DEF Init, Fifo!Init, lines
<1> QED BY <1>1, LineStep, SyncInvariant, PTL DEF Spec, ImplementsFifoLock, Fifo!Spec
=============================================================================
