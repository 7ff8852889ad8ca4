-------------------------- MODULE SchedulerProofs ---------------------------
(***************************************************************************)
(* Proofs about Scheduler, for any set of threads, priorities and tuning.  *)
(*                                                                         *)
(* Every stage of thread_handler_c maps a sound block to a sound block and *)
(* makes no thread RUNNING; only the switch does, for one thread, after    *)
(* retiring the previous one.                                              *)
(***************************************************************************)
EXTENDS Scheduler, ListProofs, FiniteSetTheorems

BlockOK(x) == x \in ThreadBlock /\ PrioritySound(x)

(* A stage that keeps the state of the thread.                             *)
KeepsOK(x, y) == BlockOK(y) /\ y.state = x.state

(* A block out of use, never taken or given back, is well formed.          *)
LEMMA UnusedBlockOK ==
    ASSUME NEW s \in {"FREE", "GONE"}
    PROVE  BlockOK(UnusedBlock(s)) /\ UnusedBlock(s).state = s
BY SchedulerAssumption DEF BlockOK, UnusedBlock, ThreadBlock, PrioritySound, Allocated

(* So is the block of a thread whose memory is freed.                      *)
LEMMA FreedBlockOK ==
    BlockOK(FreedBlock) /\ FreedBlock.state \in {"FREE", "GONE"}
BY UnusedBlockOK DEF FreedBlock

(* So is the block thread_create fills in.                                 *)
LEMMA NewBlockOK ==
    ASSUME NEW s \in {"READY", "RUNNING"}, NEW p \in Priorities
    PROVE  BlockOK(NewBlock(s, p)) /\ NewBlock(s, p).state = s
<1>1. p \in 1..REALTIME /\ DEGRADE_QUANTA \in Nat \ {0} /\ REALTIME \in Nat
    BY SchedulerAssumption
<1>2. \A q, d \in Nat \ {0} : q * d \in Nat \ {0}
    OBVIOUS
<1>3. p * DEGRADE_QUANTA \in Nat \ {0}
    BY <1>1, <1>2
<1> QED BY <1>1, <1>3
        DEF BlockOK, NewBlock, ThreadBlock, PrioritySound, Allocated, Allotment

(* Remainder and quotient of the usage by the allotment.                   *)
LEMMA DivFacts ==
    ASSUME NEW a \in Nat, NEW b \in Nat \ {0}
    PROVE  a \div b \in Nat /\ a % b \in Nat /\ a % b < b
OBVIOUS

(* Every priority has ticks to spend.                                      *)
LEMMA AllotmentPositive ==
    ASSUME NEW x \in ThreadBlock, x.prio # 0
    PROVE  Allotment(x) \in Nat \ {0}
<1>1. x.prio \in Nat \ {0} /\ DEGRADE_QUANTA \in Nat \ {0}
    BY SchedulerAssumption DEF ThreadBlock
<1>2. \A p, d \in Nat \ {0} : p * d \in Nat \ {0}
    OBVIOUS
<1> QED BY <1>1, <1>2 DEF Allotment

(* A block with another level and usage, within their bounds.              *)
LEMMA SetLevelOK ==
    ASSUME NEW x, BlockOK(x), Allocated(x),
           NEW y \in ThreadBlock, y.state = x.state, y.prio = x.prio,
           y.dyn \in 1..x.prio, x.prio = REALTIME => y.dyn = REALTIME,
           y.cpu < Allotment(x)
    PROVE  KeepsOK(x, y)
BY DEF BlockOK, KeepsOK, PrioritySound, Allocated, Allotment

(* thread_charge_cpu.                                                      *)
LEMMA ChargeOK ==
    ASSUME NEW x, BlockOK(x), Allocated(x), NEW ms \in Nat
    PROVE  KeepsOK(x, thread_charge_cpu(x, ms))
<1> DEFINE A == Allotment(x)
           used == x.cpu + ms
           k == used \div A
           y == thread_charge_cpu(x, ms)
<1>1. /\ x \in ThreadBlock /\ x.prio \in 1..REALTIME /\ x.dyn \in 1..x.prio
      /\ x.prio = REALTIME => x.dyn = REALTIME
      /\ x.cpu \in Nat /\ x.cpu < A /\ REALTIME \in Nat
    BY SchedulerAssumption DEF BlockOK, PrioritySound, ThreadBlock
<1>2. A \in Nat \ {0} /\ 0 < A
    BY <1>1, AllotmentPositive
<1>3. used \in Nat /\ k \in Nat /\ used % A \in Nat /\ used % A < A
    BY <1>1, <1>2, DivFacts
<1>4. CASE x.prio = REALTIME
  <2>1. y = [x EXCEPT !.cpu = 0]
    BY <1>4 DEF thread_charge_cpu
  <2>2. /\ y \in ThreadBlock /\ y.state = x.state /\ y.prio = x.prio
        /\ y.dyn = x.dyn /\ y.cpu = 0
    BY <2>1, <1>1 DEF ThreadBlock
  <2> QED BY <2>2, <1>1, <1>2, SetLevelOK
<1>5. CASE x.prio # REALTIME /\ k < x.dyn
  <2> DEFINE d == x.dyn - k
             c == used % A
  <2>1. y = [x EXCEPT !.dyn = d, !.cpu = c]
    BY <1>5 DEF thread_charge_cpu
  <2>2. d \in 1..x.prio /\ d \in 0..REALTIME /\ c \in Nat /\ c < A
    BY <1>1, <1>3, <1>5
  <2>3. /\ y \in ThreadBlock /\ y.state = x.state /\ y.prio = x.prio
        /\ y.dyn = d /\ y.cpu = c
    <3> HIDE DEF y, d, c
    <3> QED BY <2>1, <2>2, <1>1 DEF ThreadBlock
  <2>4. KeepsOK(x, y)
    <3> HIDE DEF y, d, c
    <3> QED BY <2>3, <2>2, <1>5, SetLevelOK DEF A
  <2> QED BY <2>4
<1>6. CASE x.prio # REALTIME /\ ~(k < x.dyn)
  <2>1. y = [x EXCEPT !.dyn = 1, !.cpu = 0]
    BY <1>6 DEF thread_charge_cpu
  <2>2. /\ y \in ThreadBlock /\ y.state = x.state /\ y.prio = x.prio
        /\ y.dyn = 1 /\ y.cpu = 0
    <3>1. 1 \in 0..REALTIME /\ 0 \in Nat
      BY <1>1
    <3> HIDE DEF y
    <3> QED BY <2>1, <1>1, <3>1 DEF ThreadBlock
  <2> QED BY <2>2, <1>1, <1>2, <1>6, SetLevelOK
<1> QED BY <1>4, <1>5, <1>6

(* thread_recover, also of a block that is not in use.                     *)
LEMMA RecoverOK ==
    ASSUME NEW x, BlockOK(x)
    PROVE  KeepsOK(x, thread_recover(x))
<1> DEFINE c == x.cpu \div 2
           d == IF x.dyn < x.prio THEN x.dyn + 1 ELSE x.dyn
           y == thread_recover(x)
<1>1. /\ x \in ThreadBlock /\ x.cpu \in Nat /\ c \in Nat /\ c <= x.cpu
      /\ REALTIME \in Nat /\ DEGRADE_QUANTA \in Nat
      /\ x.prio \in 0..REALTIME /\ x.dyn \in 0..REALTIME
    BY SchedulerAssumption DEF BlockOK, ThreadBlock
<1>2. y = [x EXCEPT !.cpu = c, !.dyn = d]
    BY DEF thread_recover
<1>3. d \in 0..REALTIME
    BY <1>1
<1>4. y \in ThreadBlock /\ y.state = x.state /\ y.prio = x.prio /\ y.dyn = d /\ y.cpu = c
  <2> HIDE DEF c, d, y
  <2> QED BY <1>1, <1>2, <1>3 DEF ThreadBlock
<1>5. ASSUME Allocated(x) PROVE KeepsOK(x, y)
  <2>1. d \in 1..x.prio /\ (x.prio = REALTIME => d = REALTIME) /\ x.cpu < Allotment(x)
    BY <1>1, <1>5 DEF BlockOK, PrioritySound
  <2>2. c < Allotment(x)
    <3>1. Allotment(x) \in Nat
      BY <1>1 DEF Allotment
    <3> QED BY <1>1, <2>1, <3>1
  <2> HIDE DEF c, d, y
  <2> QED BY <1>4, <1>5, <2>1, <2>2, SetLevelOK
<1>6. ASSUME ~Allocated(x) PROVE KeepsOK(x, y)
  <2> HIDE DEF c, d, y
  <2> QED BY <1>4, <1>6 DEF KeepsOK, BlockOK, PrioritySound, Allocated
<1> QED BY <1>5, <1>6

(* A block whose clocks, quantum or boost change.                          *)
LEMMA TouchOK ==
    ASSUME NEW x, BlockOK(x),
           NEW y \in ThreadBlock, y.state = x.state, y.prio = x.prio,
           y.dyn = x.dyn, y.cpu = x.cpu
    PROVE  KeepsOK(x, y)
BY DEF BlockOK, KeepsOK, PrioritySound, Allocated, Allotment

(* A thread in use that enters another state.                              *)
LEMMA StateOK ==
    ASSUME NEW x, BlockOK(x), Allocated(x),
           NEW y \in ThreadBlock, y.prio = x.prio, y.dyn = x.dyn, y.cpu = x.cpu
    PROVE  BlockOK(y)
BY DEF BlockOK, PrioritySound, Allocated, Allotment

(* thread_age.                                                             *)
LEMMA AgeOK ==
    ASSUME NEW x, BlockOK(x)
    PROVE  KeepsOK(x, thread_age(x))
<1>0. x \in ThreadBlock
    BY DEF BlockOK
<1>1. KeepsOK(x, [x EXCEPT !.rec = 0, !.wait = 0])
  <2> DEFINE y == [x EXCEPT !.rec = 0, !.wait = 0]
  <2>1. /\ y \in ThreadBlock /\ y.state = x.state /\ y.prio = x.prio
        /\ y.dyn = x.dyn /\ y.cpu = x.cpu
    BY <1>0 DEF ThreadBlock
  <2>2. KeepsOK(x, y)
    <3> HIDE DEF y
    <3> QED BY <2>1, TouchOK
  <2> QED BY <2>2
<1>2. KeepsOK(x, AgeRecover(x))
  <2> DEFINE z == thread_recover(x)
             w == [z EXCEPT !.rec = 0]
  <2>1. KeepsOK(x, z) /\ z \in ThreadBlock
    BY RecoverOK DEF KeepsOK, BlockOK
  <2>2. KeepsOK(z, w)
    <3> HIDE DEF z
    <3> QED BY <2>1, TouchOK DEF ThreadBlock, KeepsOK
  <2>3. KeepsOK(x, w)
    BY <2>1, <2>2 DEF KeepsOK
  <2>4. KeepsOK(x, x)
    BY DEF KeepsOK
  <2> HIDE DEF w
  <2> QED BY <2>3, <2>4 DEF AgeRecover, w
<1>3. ASSUME NEW z, BlockOK(z) PROVE KeepsOK(z, AgeStarve(z))
  <2>0. z \in ThreadBlock
    BY <1>3 DEF BlockOK
  <2>1. KeepsOK(z, [z EXCEPT !.wait = 0])
    BY <1>3, <2>0, TouchOK DEF ThreadBlock
  <2>2. ASSUME NEW f \in BOOLEAN PROVE KeepsOK(z, [z EXCEPT !.boosted = f])
    BY <1>3, <2>0, <2>2, TouchOK DEF ThreadBlock
  <2>3. (z.boosted \/ z.wait >= STARVATION_MS) \in BOOLEAN
    OBVIOUS
  <2> QED BY <2>1, <2>2, <2>3 DEF AgeStarve
<1>4. KeepsOK(x, AgeStarve(AgeRecover(x)))
    BY <1>2, <1>3 DEF KeepsOK
<1> QED BY <1>1, <1>4 DEF thread_age

(* Advancing the clocks.                                                   *)
LEMMA ElapseOK ==
    ASSUME NEW x, BlockOK(x), NEW ms \in Nat
    PROVE  KeepsOK(x, Elapse(x, ms))
<1> DEFINE r == x.rec + ms
           v == IF x.wait > WaitBound THEN x.wait ELSE x.wait + ms
           k == IF x.wake > ms THEN x.wake - ms ELSE 0
           y == Elapse(x, ms)
<1>1. x \in ThreadBlock /\ r \in Nat /\ v \in Nat /\ k \in Nat
    BY DEF BlockOK, ThreadBlock
<1>2. y = [x EXCEPT !.rec = r, !.wait = v, !.wake = k]
    BY DEF Elapse
<1> HIDE DEF r, v, k, y
<1>3. /\ y \in ThreadBlock /\ y.state = x.state /\ y.prio = x.prio
      /\ y.dyn = x.dyn /\ y.cpu = x.cpu
    BY <1>1, <1>2 DEF ThreadBlock
<1>4. KeepsOK(x, y)
    BY <1>3, TouchOK
<1> QED BY <1>4 DEF y

(* Pass 1 on one block.                                                    *)
LEMMA PassOK ==
    ASSUME NEW x, BlockOK(x), NEW ms \in Nat
    PROVE  /\ BlockOK(PassBlock(x, ms))
           /\ PassBlock(x, ms).state = "RUNNING" => x.state = "RUNNING"
           /\ x.state # "SLEEPING" => PassBlock(x, ms).state = x.state
           /\ x.state = "SLEEPING" => PassBlock(x, ms).state \in {"SLEEPING", "READY"}
<1> DEFINE e == Elapse(x, ms)
           w == WakeSleeper(e)
<1>1. KeepsOK(x, e) /\ e \in ThreadBlock
    BY ElapseOK DEF KeepsOK, BlockOK
<1>2. /\ BlockOK(w)
      /\ w.state = "RUNNING" => x.state = "RUNNING"
      /\ x.state # "SLEEPING" => w.state = x.state
      /\ x.state = "SLEEPING" => w.state \in {"SLEEPING", "READY"}
  <2> DEFINE y == [e EXCEPT !.state = "READY"]
  <2> HIDE DEF e
  <2>1. y \in ThreadBlock /\ y.prio = e.prio /\ y.dyn = e.dyn /\ y.cpu = e.cpu
        /\ y.state = "READY"
    BY <1>1 DEF ThreadBlock
  <2>2. e.state = "SLEEPING" => BlockOK(y)
    <3> HIDE DEF y
    <3> QED BY <2>1, <1>1, StateOK DEF Allocated, KeepsOK
  <2>3. w = IF e.state = "SLEEPING" /\ e.wake = 0 THEN y ELSE e
    BY DEF WakeSleeper
  <2> HIDE DEF w, y
  <2> QED BY <1>1, <2>1, <2>2, <2>3 DEF KeepsOK
<1>3. KeepsOK(w, thread_age(w))
    BY <1>2, AgeOK
<1>4. PassBlock(x, ms) = IF w.state = "DEAD" THEN w ELSE thread_age(w)
    BY DEF PassBlock
<1> HIDE DEF w, e
<1> QED BY <1>2, <1>3, <1>4 DEF KeepsOK

(* Charging the thread that ran.                                           *)
LEMMA ChargeBlockOK ==
    ASSUME NEW x, BlockOK(x), Allocated(x), NEW ms \in Nat
    PROVE  KeepsOK(x, ChargeBlock(x, ms))
BY ChargeOK, RecoverOK DEF ChargeBlock, KeepsOK

-----------------------------------------------------------------------------
(***************************************************************************)
(* The whole entry.  A block table at entry of thread_handler_c: sound,    *)
(* nobody but current RUNNING, current not freed by reap_threads.          *)
(***************************************************************************)
Sound(b) == b \in [Threads -> ThreadBlock] /\ \A t \in Threads : PrioritySound(b[t])

OnlyCurrentRuns(b) == \A t \in Threads : b[t].state = "RUNNING" => current = t

EntryOK(b) ==
    /\ Sound(b)
    /\ OnlyCurrentRuns(b)
    /\ reap \subseteq Threads
    /\ current \in Threads \cup {Idle}
    /\ current \notin reap
    /\ current # Idle => Allocated(b[current])

(* Reaping keeps the blocks well formed.                                   *)
LEMMA ReapedOK ==
    ASSUME NEW b, EntryOK(b)
    PROVE  /\ Sound(Reaped(b)) /\ OnlyCurrentRuns(Reaped(b))
           /\ current # Idle => Reaped(b)[current] = b[current]
<1>1. \A t \in Threads : Reaped(b)[t] = IF t \in reap THEN FreedBlock ELSE b[t]
    BY DEF Reaped
<1>2. \A t \in Threads : BlockOK(Reaped(b)[t])
    BY <1>1, FreedBlockOK DEF EntryOK, Sound, BlockOK
<1>3. Sound(Reaped(b))
    BY <1>2 DEF Sound, Reaped, BlockOK
<1>4. OnlyCurrentRuns(Reaped(b))
    BY <1>1, FreedBlockOK DEF EntryOK, OnlyCurrentRuns
<1>5. current # Idle => Reaped(b)[current] = b[current]
    BY <1>1 DEF EntryOK
<1> QED BY <1>3, <1>4, <1>5

(* Charging the current thread keeps its block well formed.                *)
LEMMA ChargedOK ==
    ASSUME NEW b, Sound(b), OnlyCurrentRuns(b), current \in Threads \cup {Idle},
           current # Idle => Allocated(b[current]), NEW ms \in Nat
    PROVE  /\ Sound(Charged(b, ms)) /\ OnlyCurrentRuns(Charged(b, ms))
           /\ current # Idle => Charged(b, ms)[current].state = b[current].state
<1> DEFINE F(t) == IF t = current /\ b[t].state # "DEAD"
                   THEN ChargeBlock(b[t], ms) ELSE b[t]
<1>1. ASSUME NEW t \in Threads PROVE KeepsOK(b[t], F(t))
  <2>1. BlockOK(b[t]) /\ KeepsOK(b[t], b[t])
    BY DEF Sound, BlockOK, KeepsOK
  <2>2. ASSUME t = current PROVE KeepsOK(b[t], ChargeBlock(b[t], ms))
    BY <2>1, <2>2, ChargeBlockOK, SchedulerAssumption
  <2> QED BY <2>1, <2>2
<1>2. Charged(b, ms) = [t \in Threads |-> F(t)]
    BY DEF Charged
<1> HIDE DEF F
<1> QED BY <1>1, <1>2 DEF Sound, OnlyCurrentRuns, KeepsOK, BlockOK

(* So does the first pass over the queue, that wakes and ages.             *)
LEMMA Pass1OK ==
    ASSUME NEW b, Sound(b), OnlyCurrentRuns(b), NEW ms \in Nat
    PROVE  Sound(Pass1(b, ms)) /\ OnlyCurrentRuns(Pass1(b, ms))
<1> DEFINE F(t) == IF t \in InQueue THEN PassBlock(b[t], ms) ELSE b[t]
<1>1. ASSUME NEW t \in Threads
      PROVE  BlockOK(F(t)) /\ (F(t).state = "RUNNING" => b[t].state = "RUNNING")
  <2>1. BlockOK(b[t])
    BY DEF Sound, BlockOK
  <2> QED BY <2>1, PassOK
<1>2. Pass1(b, ms) = [t \in Threads |-> F(t)]
    BY DEF Pass1
<1> HIDE DEF F
<1> QED BY <1>1, <1>2 DEF Sound, OnlyCurrentRuns, BlockOK

(* So does taking the boost away.                                          *)
LEMMA UnboostedOK ==
    ASSUME NEW b, Sound(b), OnlyCurrentRuns(b)
    PROVE  Sound(Unboosted(b)) /\ OnlyCurrentRuns(Unboosted(b))
<1> DEFINE F(t) == IF t = current /\ ~Continues(b)
                   THEN [b[t] EXCEPT !.boosted = FALSE] ELSE b[t]
<1>1. ASSUME NEW t \in Threads PROVE KeepsOK(b[t], F(t))
  <2> DEFINE x == b[t]
             y == [x EXCEPT !.boosted = FALSE]
  <2>1. BlockOK(x) /\ x \in ThreadBlock
    BY DEF Sound, BlockOK
  <2>2. /\ y \in ThreadBlock /\ y.state = x.state /\ y.prio = x.prio
        /\ y.dyn = x.dyn /\ y.cpu = x.cpu
    <3> HIDE DEF x
    <3> QED BY <2>1 DEF ThreadBlock
  <2>3. KeepsOK(x, y) /\ KeepsOK(x, x)
    <3> HIDE DEF x, y
    <3> QED BY <2>1, <2>2, TouchOK DEF KeepsOK
  <2> QED BY <2>3
<1>2. Unboosted(b) = [t \in Threads |-> F(t)]
    BY DEF Unboosted
<1> HIDE DEF F
<1> QED BY <1>1, <1>2 DEF Sound, OnlyCurrentRuns, KeepsOK, BlockOK

(* The blocks the handler chooses from are well formed.                    *)
LEMMA PreparedOK ==
    ASSUME NEW b, EntryOK(b), NEW ms \in Nat
    PROVE  Sound(Prepared(b, ms)) /\ OnlyCurrentRuns(Prepared(b, ms))
<1> DEFINE r == Reaped(b)
           c == Charged(r, ms)
           p == Pass1(c, ms)
<1>1. Sound(r) /\ OnlyCurrentRuns(r) /\ (current # Idle => r[current] = b[current])
    BY ReapedOK
<1>2. Sound(c) /\ OnlyCurrentRuns(c)
  <2> HIDE DEF r
  <2> QED BY <1>1, ChargedOK DEF EntryOK
<1>3. Sound(p) /\ OnlyCurrentRuns(p)
  <2> HIDE DEF c
  <2> QED BY <1>2, Pass1OK
<1>4. Sound(Unboosted(p)) /\ OnlyCurrentRuns(Unboosted(p))
  <2> HIDE DEF p
  <2> QED BY <1>3, UnboostedOK
<1> QED BY <1>4 DEF Prepared

(* What thread_handler_c, and every other step, preserves.                 *)
IndInv ==
    /\ Sound(blk)
    /\ reap \subseteq Threads
    /\ current \in Threads \cup {Idle}
    /\ CurrentIsSafe

(* Retiring prev leaves it sound and not RUNNING.                          *)
LEMMA RetireOK ==
    ASSUME NEW x, BlockOK(x)
    PROVE  /\ BlockOK(RetireBlock(x)) /\ RetireBlock(x).state # "RUNNING"
           /\ x.state # "RUNNING" => RetireBlock(x).state = x.state
           /\ x.state = "RUNNING" => RetireBlock(x).state = "READY"
<1> DEFINE q == x.prio
           s == IF x.state = "RUNNING" THEN "READY" ELSE x.state
           y == RetireBlock(x)
<1>1. y = [x EXCEPT !.ticks = q, !.state = s]
    BY DEF RetireBlock
<1>2. x \in ThreadBlock /\ q \in Nat
    BY SchedulerAssumption DEF BlockOK, ThreadBlock
<1>3. s \in {"FREE", "GONE", "READY", "RUNNING", "SLEEPING", "BLOCKED", "DEAD"}
    BY <1>2 DEF ThreadBlock
<1>4. s # "RUNNING" /\ (Allocated(x) \/ s = x.state)
      /\ (x.state # "RUNNING" => s = x.state) /\ (x.state = "RUNNING" => s = "READY")
    BY DEF Allocated
<1> HIDE DEF q, s, y
<1>5. y \in ThreadBlock /\ y.prio = x.prio /\ y.dyn = x.dyn /\ y.cpu = x.cpu /\ y.state = s
    BY <1>1, <1>2, <1>3 DEF ThreadBlock
<1>6. BlockOK(y)
    BY <1>4, <1>5, StateOK, TouchOK DEF KeepsOK
<1>7. /\ BlockOK(y) /\ y.state # "RUNNING"
      /\ x.state # "RUNNING" => y.state = x.state
      /\ x.state = "RUNNING" => y.state = "READY"
    BY <1>4, <1>5, <1>6
<1> QED BY <1>7 DEF y

(* Putting a thread of the queue on the CPU.                               *)
LEMMA RunOK ==
    ASSUME NEW x, BlockOK(x), Allocated(x)
    PROVE  BlockOK([x EXCEPT !.state = "RUNNING"])
           /\ [x EXCEPT !.state = "RUNNING"].state = "RUNNING"
<1> DEFINE y == [x EXCEPT !.state = "RUNNING"]
<1>1. y \in ThreadBlock /\ y.prio = x.prio /\ y.dyn = x.dyn /\ y.cpu = x.cpu
      /\ y.state = "RUNNING"
    BY DEF BlockOK, ThreadBlock
<1>2. BlockOK(y)
  <2> HIDE DEF y
  <2> QED BY <1>1, StateOK
<1> QED BY <1>1, <1>2

(* The switch to n, which is Idle or a runnable thread, hence not dead.    *)
LEMMA SwitchOK ==
    ASSUME NEW p, Sound(p), OnlyCurrentRuns(p), current \in Threads \cup {Idle},
           NEW n, n = Idle \/ (n \in Threads /\ p[n].state \in Runnable),
           SwitchTo(p, n), reap' = Dead(p)
    PROVE  IndInv'
<1> DEFINE R(t) == IF t = current THEN RetireBlock(p[t]) ELSE p[t]
           F(t) == IF t = n THEN [R(t) EXCEPT !.state = "RUNNING"] ELSE R(t)
<1>1. ASSUME NEW t \in Threads
      PROVE  BlockOK(R(t)) /\ R(t).state # "RUNNING"
             /\ (t = n => Allocated(R(t)))
  <2>1. BlockOK(p[t])
    BY DEF Sound, BlockOK
  <2> QED BY <2>1, RetireOK, SchedulerAssumption DEF OnlyCurrentRuns, Allocated, Runnable
<1>2. ASSUME NEW t \in Threads
      PROVE  BlockOK(F(t)) /\ (F(t).state = "RUNNING" <=> t = n)
  <2> HIDE DEF R
  <2> QED BY <1>1, <1>2, RunOK
<1>3. blk' = [t \in Threads |-> F(t)] /\ current' = n
    BY DEF SwitchTo
<1> HIDE DEF F, R
<1>4. Sound(blk)'
    BY <1>2, <1>3 DEF Sound, BlockOK
<1>5. reap' \subseteq Threads /\ n \notin reap'
    BY SchedulerAssumption DEF Dead, Runnable
<1>6. current' \in Threads \cup {Idle}
    BY <1>3
<1>7. CurrentIsSafe'
    BY <1>2, <1>3, <1>5, SchedulerAssumption DEF CurrentIsSafe
<1> QED BY <1>4, <1>5, <1>6, <1>7 DEF IndInv

(* prev goes on with its quantum.                                          *)
LEMMA StayOK ==
    ASSUME NEW p, Sound(p), OnlyCurrentRuns(p), current \in Threads \cup {Idle},
           Continues(p), StayOn(p), reap' = Dead(p)
    PROVE  IndInv'
<1> DEFINE x == p[current]
           k == x.ticks - 1
           y == [x EXCEPT !.ticks = k]
<1>1. current \in Threads /\ BlockOK(x) /\ x \in ThreadBlock /\ x.state = "RUNNING"
      /\ k \in Nat
    BY SchedulerAssumption DEF Continues, Sound, BlockOK, ThreadBlock
<1>2. KeepsOK(x, y)
  <2>1. /\ y \in ThreadBlock /\ y.state = x.state /\ y.prio = x.prio
        /\ y.dyn = x.dyn /\ y.cpu = x.cpu
    <3> HIDE DEF x, k
    <3> QED BY <1>1 DEF ThreadBlock
  <2> HIDE DEF x, y
  <2> QED BY <1>1, <2>1, TouchOK
<1>3. blk' = [p EXCEPT ![current] = y] /\ current' = current
    BY DEF StayOn
<1>4. p \in [Threads -> ThreadBlock] /\ \A t \in Threads : PrioritySound(p[t])
    BY DEF Sound
<1> HIDE DEF y
<1>5. \A t \in Threads : blk'[t] = IF t = current THEN y ELSE p[t]
    BY <1>3, <1>4
<1>6. Sound(blk)'
    BY <1>1, <1>2, <1>3, <1>4, <1>5 DEF Sound, KeepsOK, BlockOK
<1>7. reap' \subseteq Threads /\ current \notin reap'
    BY <1>1 DEF Dead
<1>8. CurrentIsSafe'
    BY <1>1, <1>2, <1>3, <1>5, <1>7 DEF CurrentIsSafe, OnlyCurrentRuns, KeepsOK
<1> QED BY <1>3, <1>6, <1>7, <1>8 DEF IndInv

(* Every entry of the scheduler preserves the invariant.                   *)
LEMMA HandlerOK ==
    ASSUME NEW b, EntryOK(b), NEW ms \in Nat, thread_handler_c(b, ms)
    PROVE  IndInv'
<1> DEFINE p == Prepared(b, ms)
<1>1. Sound(p) /\ OnlyCurrentRuns(p) /\ current \in Threads \cup {Idle}
    BY PreparedOK DEF EntryOK
<1>2. reap' = Dead(p) /\ Choose(p, queue')
    BY DEF thread_handler_c
<1> HIDE DEF p
<1>3. CASE Candidates(p) = {} /\ SwitchTo(p, Idle)
    BY <1>1, <1>2, <1>3, SwitchOK
<1>4. CASE Continues(p) /\ MaxPriority(p, current) /\ StayOn(p)
    BY <1>1, <1>2, <1>4, StayOK
<1>5. ASSUME NEW n \in Threads, IsNext(p, queue', n), SwitchTo(p, n)
      PROVE  IndInv'
  <2>1. p[n].state \in Runnable
    BY <1>5 DEF IsNext, Candidates
  <2> QED BY <1>1, <1>2, <1>5, <2>1, SwitchOK
<1> QED BY <1>2, <1>3, <1>4, <1>5 DEF Choose

(* The table with which a thread enters the scheduler from thread_yield,   *)
(* thread_sleep or mutex_lock.                                             *)
LEMMA GiveUpEntry ==
    ASSUME IndInv, NEW t \in Threads, Running(t), NEW ms \in Nat,
           NEW s \in {"RUNNING", "SLEEPING", "BLOCKED"}, GiveUp(t, s, ms)
    PROVE  \E b : /\ EntryOK(b) /\ thread_handler_c(b, 0)
                  /\ \A u \in Threads : b[u].state = IF u = t THEN s ELSE blk[u].state
                  /\ \A u \in Threads : u # t => b[u] = blk[u]
                  /\ b[t].ticks = 0 /\ b[t].wake = ms
<1> DEFINE x == blk[t]
           y == [[[x EXCEPT !.state = s] EXCEPT !.wake = ms] EXCEPT !.ticks = 0]
           b == [blk EXCEPT ![t] = y]
<1>1. BlockOK(x) /\ x \in ThreadBlock /\ Allocated(x)
    BY DEF IndInv, Sound, BlockOK, Running, Allocated
<1>2. BlockOK(y) /\ y.state = s /\ y \in ThreadBlock /\ y.ticks = 0 /\ y.wake = ms
  <2>1. /\ y \in ThreadBlock /\ y.state = s /\ y.prio = x.prio
        /\ y.dyn = x.dyn /\ y.cpu = x.cpu /\ y.ticks = 0 /\ y.wake = ms
    <3> HIDE DEF x
    <3> QED BY <1>1 DEF ThreadBlock
  <2> HIDE DEF x, y
  <2> QED BY <1>1, <2>1, StateOK
<1>3. blk \in [Threads -> ThreadBlock] /\ \A u \in Threads : PrioritySound(blk[u])
    BY DEF IndInv, Sound
<1>4. [blk EXCEPT ![t].state = s, ![t].wake = ms, ![t].ticks = 0] = b
    BY <1>3
<1>5. thread_handler_c(b, 0)
    BY <1>4 DEF GiveUp
<1> HIDE DEF y
<1>6. b \in [Threads -> ThreadBlock] /\ \A u \in Threads : b[u] = IF u = t THEN y ELSE blk[u]
    BY <1>2, <1>3
<1> HIDE DEF b
<1>7. Sound(b)
    BY <1>2, <1>3, <1>6 DEF Sound, BlockOK
<1>8. EntryOK(b)
    BY <1>2, <1>6, <1>7, SchedulerAssumption
       DEF EntryOK, IndInv, CurrentIsSafe, OnlyCurrentRuns, Running, Allocated
<1>9. /\ \A u \in Threads : b[u].state = IF u = t THEN s ELSE blk[u].state
      /\ \A u \in Threads : u # t => b[u] = blk[u]
      /\ b[t].ticks = 0 /\ b[t].wake = ms
    BY <1>2, <1>6
<1> QED BY <1>5, <1>8, <1>9

(* Sleep and yield keep the blocks well formed.                            *)
LEMMA GiveUpOK ==
    ASSUME IndInv, NEW t \in Threads, Running(t), NEW ms \in Nat,
           NEW s \in {"RUNNING", "SLEEPING", "BLOCKED"}, GiveUp(t, s, ms)
    PROVE  IndInv'
<1>1. PICK b : EntryOK(b) /\ thread_handler_c(b, 0)
    BY GiveUpEntry
<1> QED BY <1>1, HandlerOK

(* One thread other than the running one changes state.                    *)
LEMMA SetStateOK ==
    ASSUME IndInv, NEW u \in Threads, NEW y, BlockOK(y), y.state # "RUNNING",
           u = current => y.state = "DEAD",
           blk' = [blk EXCEPT ![u] = y], reap' = reap, current' = current
    PROVE  IndInv'
<1>1. blk \in [Threads -> ThreadBlock] /\ \A t \in Threads : PrioritySound(blk[t])
    BY DEF IndInv, Sound
<1>2. \A t \in Threads : blk'[t] = IF t = u THEN y ELSE blk[t]
    BY <1>1
<1>3. Sound(blk)'
    BY <1>1, <1>2 DEF Sound, BlockOK
<1>4. CurrentIsSafe'
    BY <1>2, SchedulerAssumption DEF IndInv, CurrentIsSafe
<1> QED BY <1>3, <1>4 DEF IndInv

(* A thread that sleeps, yields or dies keeps its priority and its usage.  *)
LEMMA ChangeStateOK ==
    ASSUME NEW x, BlockOK(x), Allocated(x), NEW s \in {"READY", "DEAD"},
           NEW k \in Nat
    PROVE  /\ BlockOK([x EXCEPT !.state = s])
           /\ [x EXCEPT !.state = s].state = s
           /\ BlockOK([[x EXCEPT !.state = s] EXCEPT !.wake = k])
           /\ [[x EXCEPT !.state = s] EXCEPT !.wake = k].state = s
<1> DEFINE y == [x EXCEPT !.state = s]
           z == [y EXCEPT !.wake = k]
<1>1. y \in ThreadBlock /\ y.state = s /\ y.prio = x.prio /\ y.dyn = x.dyn /\ y.cpu = x.cpu
    BY DEF BlockOK, ThreadBlock
<1>2. z \in ThreadBlock /\ z.state = s /\ z.prio = x.prio /\ z.dyn = x.dyn /\ z.cpu = x.cpu
    BY DEF BlockOK, ThreadBlock
<1>3. BlockOK(y) /\ BlockOK(z)
  <2> HIDE DEF y, z
  <2> QED BY <1>1, <1>2, StateOK
<1> QED BY <1>1, <1>2, <1>3

(* The inductive step: no step of the program breaks the invariant.        *)
LEMMA NextOK == IndInv /\ [Next]_vars => IndInv'
<1> SUFFICES ASSUME IndInv, [Next]_vars PROVE IndInv'
    OBVIOUS
<1>0. /\ blk \in [Threads -> ThreadBlock]
      /\ \A t \in Threads : BlockOK(blk[t])
    BY DEF IndInv, Sound, BlockOK
<1>1. CASE Tick
  <2>1. EntryOK(blk)
    BY SchedulerAssumption
       DEF IndInv, EntryOK, CurrentIsSafe, OnlyCurrentRuns, Allocated
  <2> QED BY <1>1, <2>1, HandlerOK DEF Tick
<1>2. ASSUME NEW t \in Threads,
             \/ thread_yield(t)
             \/ \E ms \in 1..MaxSleep : thread_sleep(t, ms)
             \/ Block(t)
      PROVE  IndInv'
  <2>1. CASE thread_yield(t)
    BY <2>1, GiveUpOK DEF thread_yield
  <2>2. CASE \E ms \in 1..MaxSleep : thread_sleep(t, ms)
    BY <2>2, GiveUpOK DEF thread_sleep
  <2>3. CASE Block(t)
    BY <2>3, GiveUpOK DEF Block
  <2> QED BY <1>2, <2>1, <2>2, <2>3
<1>3. ASSUME NEW t \in Threads, thread_exit(t) PROVE IndInv'
  <2> DEFINE y == [blk[t] EXCEPT !.state = "DEAD"]
  <2>1. Allocated(blk[t])
    BY <1>3 DEF thread_exit, Running, Allocated
  <2>2. BlockOK(y) /\ y.state = "DEAD"
    BY <1>0, <2>1, ChangeStateOK
  <2>3. blk' = [blk EXCEPT ![t] = y] /\ reap' = reap /\ current' = current
    BY <1>3 DEF thread_exit
  <2> HIDE DEF y
  <2> QED BY <2>2, <2>3, SetStateOK
<1>4. ASSUME NEW t \in Threads, NEW u \in Threads, KillThread(t, u) PROVE IndInv'
  <2> DEFINE y == [blk[u] EXCEPT !.state = "DEAD"]
  <2>1. Allocated(blk[u])
    BY <1>4 DEF KillThread, Allocated
  <2>2. BlockOK(y) /\ y.state = "DEAD"
    BY <1>0, <2>1, ChangeStateOK
  <2>3. blk' = [blk EXCEPT ![u] = y] /\ reap' = reap /\ current' = current
    BY <1>4 DEF KillThread
  <2> HIDE DEF y
  <2> QED BY <2>2, <2>3, SetStateOK
<1>5. ASSUME NEW t \in Threads, NEW u \in Threads, NEW p \in Priorities,
             thread_create(t, u, p)
      PROVE  IndInv'
  <2> DEFINE y == NewBlock("READY", p)
  <2>1. BlockOK(y) /\ y.state = "READY"
    BY NewBlockOK
  <2>2. blk' = [blk EXCEPT ![u] = y] /\ reap' = reap /\ current' = current
    BY <1>5 DEF thread_create
  <2>3. u # current
    BY <1>5 DEF thread_create, Running
  <2> HIDE DEF y
  <2> QED BY <2>1, <2>2, <2>3, SetStateOK
<1>6. ASSUME NEW u \in Threads, MakeReady(u) PROVE IndInv'
  <2> DEFINE y == [[blk[u] EXCEPT !.state = "READY"] EXCEPT !.wake = 0]
  <2>1. Allocated(blk[u]) /\ u # current
    BY <1>6, SchedulerAssumption DEF MakeReady, Allocated, IndInv, CurrentIsSafe
  <2>2. BlockOK(y) /\ y.state = "READY"
    BY <1>0, <2>1, ChangeStateOK
  <2>3. blk' = [blk EXCEPT ![u] = y] /\ reap' = reap /\ current' = current
    BY <1>0, <1>6 DEF MakeReady
  <2> HIDE DEF y
  <2> QED BY <2>1, <2>2, <2>3, SetStateOK
<1>7. CASE UNCHANGED vars
    BY <1>7 DEF vars, IndInv, Sound, CurrentIsSafe
<1> QED BY <1>1, <1>2, <1>3, <1>4, <1>5, <1>6, <1>7 DEF Next

(* The invariant holds at boot.                                            *)
LEMMA InitOK == Init => IndInv
<1> SUFFICES ASSUME Init PROVE IndInv
    OBVIOUS
<1>1. PICK p \in Priorities :
        blk = [t \in Threads |-> IF t = Main THEN NewBlock("RUNNING", p) ELSE FreeBlock]
    BY DEF Init
<1>2. BlockOK(NewBlock("RUNNING", p)) /\ NewBlock("RUNNING", p).state = "RUNNING"
    BY NewBlockOK
<1>3. BlockOK(FreeBlock) /\ FreeBlock.state = "FREE"
    BY UnusedBlockOK DEF FreeBlock
<1>4. Sound(blk)
    BY <1>1, <1>2, <1>3 DEF Sound, BlockOK
<1>5. CurrentIsSafe
    BY <1>1, <1>2, <1>3, SchedulerAssumption DEF CurrentIsSafe, Init
<1> QED BY <1>4, <1>5, SchedulerAssumption DEF IndInv, Init

(* The invariant of the priorities holds throughout.                       *)
LEMMA SchedulerInvariant == Spec => []IndInv
BY InitOK, NextOK, PTL DEF Spec

(* Whatever the threads do, at most one is RUNNING, it is current_thread,  *)
(* and the stack in use is never on reap_list.                             *)
THEOREM SchedulerCurrentIsSafe == Spec => []CurrentIsSafe
<1>1. IndInv => CurrentIsSafe
    BY DEF IndInv
<1> QED BY <1>1, SchedulerInvariant, PTL

(* thread_charge_cpu and thread_recover keep every dynamic priority        *)
(* between PRIORITY_IDLE and its base, REALTIME threads at their level,    *)
(* and the usage of every thread below one allotment.                      *)
THEOREM SchedulerPriorityBounds == Spec => []PriorityBounds
<1>1. IndInv => PriorityBounds
    BY DEF IndInv, Sound, PriorityBounds
<1> QED BY <1>1, SchedulerInvariant, PTL

-----------------------------------------------------------------------------
(***************************************************************************)
(* The run queue and reap_list, of a block table at entry.                 *)
(***************************************************************************)
QueueOK(b) ==
    /\ queue \in Seq(Threads)
    /\ \A i, j \in 1..Len(queue) : queue[i] = queue[j] => i = j
    /\ InQueue = {t \in Threads : Allocated(b[t])} \ reap
    /\ \A t \in reap : b[t].state = "DEAD"

(* What the two bookkeeping stages and pass 1 do to the state of a thread: *)
(* reap_list is freed, a sleeper may wake, and nothing else changes.       *)
PreparedStates(b, p) ==
    /\ \A t \in reap : p[t].state \in {"FREE", "GONE"}
    /\ \A t \in Threads \ reap :
          \/ p[t].state = b[t].state
          \/ b[t].state = "SLEEPING" /\ p[t].state = "READY"

(* The states of the blocks the handler chooses from.                      *)
LEMMA PreparedStatesOK ==
    ASSUME NEW b, EntryOK(b), QueueOK(b), NEW ms \in Nat
    PROVE  PreparedStates(b, Prepared(b, ms))
<1> DEFINE r == Reaped(b)
           c == Charged(r, ms)
           p == Pass1(c, ms)
           u == Unboosted(p)
<1>1. /\ Sound(r) /\ OnlyCurrentRuns(r) /\ (current # Idle => r[current] = b[current])
      /\ current \in Threads \cup {Idle} /\ current \notin reap /\ reap \subseteq Threads
    BY ReapedOK DEF EntryOK
<1>2. Sound(c) /\ OnlyCurrentRuns(c)
  <2> HIDE DEF r
  <2> QED BY <1>1, ChargedOK DEF EntryOK
<1>3. Sound(p) /\ OnlyCurrentRuns(p)
  <2> HIDE DEF c
  <2> QED BY <1>2, Pass1OK
<1>4. \A t \in Threads : r[t].state = IF t \in reap THEN FreedBlock.state ELSE b[t].state
    BY DEF Reaped
<1>5. \A t \in Threads : c[t].state = r[t].state
  <2> HIDE DEF r
  <2>1. current # Idle => c[current].state = r[current].state
    BY <1>1, ChargedOK DEF EntryOK
  <2>2. \A t \in Threads : t # current => c[t] = r[t]
    BY DEF Charged
  <2> QED BY <2>1, <2>2, SchedulerAssumption
<1>6. \A t \in Threads : IF t \in InQueue
                         THEN \/ p[t].state = c[t].state
                              \/ c[t].state = "SLEEPING" /\ p[t].state = "READY"
                         ELSE p[t].state = c[t].state
  <2>1. SUFFICES ASSUME NEW t \in Threads, t \in InQueue
                 PROVE  \/ p[t].state = c[t].state
                        \/ c[t].state = "SLEEPING" /\ p[t].state = "READY"
    BY DEF Pass1
  <2>2. p[t] = PassBlock(c[t], ms)
    BY <2>1 DEF Pass1
  <2> HIDE DEF p, c
  <2>3. BlockOK(c[t])
    BY <1>2 DEF Sound, BlockOK
  <2> QED BY <2>2, <2>3, PassOK
<1>7. \A t \in Threads : u[t].state = p[t].state
  <2> HIDE DEF p
  <2>1. \A t \in Threads : p[t] \in ThreadBlock
    BY <1>3 DEF Sound
  <2> QED BY <2>1 DEF Unboosted, ThreadBlock
<1>8. u = Prepared(b, ms)
    BY DEF Prepared
<1>9. \A t \in reap : t \notin InQueue
    BY DEF QueueOK
<1> HIDE DEF r, c, p, u
<1>10. PreparedStates(b, u)
    BY <1>1, <1>4, <1>5, <1>6, <1>7, <1>9, FreedBlockOK DEF PreparedStates
<1> QED BY <1>8, <1>10

(* What the switch does to the states of a prepared table: the previous    *)
(* thread is off the CPU and n is on it, or it goes on.                    *)
SwitchedStates(p, n) ==
    \A t \in Threads : blk'[t].state =
        IF t = n THEN "RUNNING"
        ELSE IF t = current /\ p[t].state = "RUNNING" THEN "READY" ELSE p[t].state

(* The chosen thread was READY or is the one that runs.                    *)
LEMMA ChooseStates ==
    ASSUME NEW p, Sound(p), OnlyCurrentRuns(p), current \in Threads \cup {Idle},
           current # Idle => current \in InQueue,
           NEW q, Choose(p, q)
    PROVE  \/ current' = Idle /\ Candidates(p) = {} /\ SwitchedStates(p, Idle)
           \/ current' \in Candidates(p) /\ SwitchedStates(p, current')
<1>1. \A t \in Threads : BlockOK(p[t]) /\ p[t] \in ThreadBlock
    BY DEF Sound, BlockOK
<1>2. ASSUME NEW n, SwitchTo(p, n)
      PROVE  current' = n /\ SwitchedStates(p, n)
  <2>1. SUFFICES ASSUME NEW t \in Threads
                 PROVE  blk'[t].state =
                          IF t = n THEN "RUNNING"
                          ELSE IF t = current /\ p[t].state = "RUNNING" THEN "READY"
                          ELSE p[t].state
    BY <1>2 DEF SwitchTo, SwitchedStates
  <2> DEFINE x == IF t = current THEN RetireBlock(p[t]) ELSE p[t]
  <2>2. blk'[t] = IF t = n THEN [x EXCEPT !.state = "RUNNING"] ELSE x
    BY <1>2 DEF SwitchTo
  <2>3. x \in ThreadBlock
    BY <1>1, RetireOK DEF BlockOK
  <2>4. x.state = IF t = current /\ p[t].state = "RUNNING" THEN "READY" ELSE p[t].state
    BY <1>1, RetireOK
  <2> HIDE DEF x
  <2> QED BY <2>2, <2>3, <2>4 DEF ThreadBlock
<1>3. CASE Candidates(p) = {} /\ SwitchTo(p, Idle)
    BY <1>2, <1>3
<1>4. CASE Continues(p) /\ MaxPriority(p, current) /\ StayOn(p)
  <2>1. current \in Threads /\ p[current].state = "RUNNING" /\ current' = current
    BY <1>4 DEF Continues, StayOn
  <2>2. current \in Candidates(p)
    BY <2>1, SchedulerAssumption DEF Candidates, Runnable
  <2> DEFINE x == p[current]
             k == x.ticks - 1
  <2>3. blk' = [p EXCEPT ![current] = [x EXCEPT !.ticks = k]]
    BY <1>4 DEF StayOn
  <2>4. x \in ThreadBlock /\ p \in [Threads -> ThreadBlock]
    BY <1>1, <2>1 DEF Sound
  <2>5. \A t \in Threads : blk'[t] = IF t = current THEN [x EXCEPT !.ticks = k] ELSE p[t]
    BY <2>3, <2>4
  <2>6. [x EXCEPT !.ticks = k].state = x.state
    <3> HIDE DEF x, k
    <3> QED BY <2>4 DEF ThreadBlock
  <2>7. SwitchedStates(p, current)
    BY <1>1, <2>1, <2>5, <2>6 DEF SwitchedStates, OnlyCurrentRuns
  <2> QED BY <2>1, <2>2, <2>7
<1>5. CASE \E n \in Threads : IsNext(p, q, n) /\ SwitchTo(p, n)
    BY <1>2, <1>5 DEF IsNext
<1> QED BY <1>3, <1>4, <1>5 DEF Choose

(* The whole entry, for the queues: what pass 1 finds dead leaves the run  *)
(* queue for reap_list, and what was on reap_list is free.                 *)
LEMMA HandlerQueueOK ==
    ASSUME NEW b, EntryOK(b), QueueOK(b), NEW ms \in Nat, thread_handler_c(b, ms)
    PROVE  QueueOK(blk)'
<1> DEFINE p == Prepared(b, ms)
           gone == Dead(p)
<1>1. /\ Sound(p) /\ OnlyCurrentRuns(p) /\ PreparedStates(b, p)
      /\ current \in Threads \cup {Idle} /\ current \notin reap /\ reap \subseteq Threads
    BY PreparedOK, PreparedStatesOK DEF EntryOK
<1>2. queue' = WithoutAll(queue, gone) /\ reap' = gone /\ Choose(p, queue')
    BY DEF thread_handler_c, Unlinked
<1>3. /\ queue \in Seq(Threads)
      /\ \A i, j \in 1..Len(queue) : queue[i] = queue[j] => i = j
      /\ InQueue = {t \in Threads : Allocated(b[t])} \ reap
    BY DEF QueueOK
<1>4. current # Idle => current \in InQueue
    BY <1>1, <1>3 DEF EntryOK
<1> HIDE DEF p
<1>5. PICK n : /\ n = current' /\ SwitchedStates(p, n)
               /\ n = Idle \/ n \in Candidates(p)
    BY <1>1, <1>2, <1>4, ChooseStates
<1>6. /\ queue' \in Seq(Threads) /\ InQueue' = InQueue \ gone
      /\ \A i, j \in 1..Len(queue') : queue'[i] = queue'[j] => i = j
  <2> HIDE DEF gone
  <2>1. LET w == WithoutAll(queue, gone)
        IN  /\ w \in Seq(Threads)
            /\ {w[k] : k \in 1..Len(w)} = {queue[i] : i \in 1..Len(queue)} \ gone
            /\ (\A i, j \in 1..Len(queue) : queue[i] = queue[j] => i = j)
                  => \A k, l \in 1..Len(w) : w[k] = w[l] => k = l
    BY <1>3, WithoutAllFacts
  <2>2. InQueue' = {queue'[k] : k \in 1..Len(queue')}
    BY DEF InQueue
  <2>3. InQueue' = InQueue \ gone
    BY <1>2, <2>1, <2>2 DEF InQueue
  <2> QED BY <1>2, <1>3, <2>1, <2>3
<1>7. \A t \in Threads : Allocated(blk'[t]) <=> Allocated(b[t]) /\ t \notin reap
  <2>1. \A t \in Threads : Allocated(p[t]) <=> Allocated(b[t]) /\ t \notin reap
    BY <1>1 DEF PreparedStates, Allocated
  <2>2. \A t \in Threads : Allocated(blk'[t]) <=> Allocated(p[t])
    BY <1>5, SchedulerAssumption DEF SwitchedStates, Candidates, Runnable, Allocated
  <2> QED BY <2>1, <2>2
<1>8. \A t \in gone : t \in Threads /\ blk'[t].state = "DEAD"
    BY <1>5, SchedulerAssumption DEF Dead, SwitchedStates, Candidates, Runnable
<1>9. InQueue' = {t \in Threads : Allocated(blk'[t])} \ gone
    BY <1>3, <1>6, <1>7
<1> QED BY <1>2, <1>6, <1>8, <1>9 DEF QueueOK

-----------------------------------------------------------------------------
QueueInv == IndInv /\ QueueOK(blk)

(* The threads in use are the same, and so is reap_list.                   *)
LEMMA SameUseOK ==
    ASSUME QueueInv, NEW b, \A t \in Threads : Allocated(b[t]) <=> Allocated(blk[t]),
           \A t \in reap : b[t].state = blk[t].state
    PROVE  QueueOK(b)
BY DEF QueueInv, IndInv, QueueOK

(* Sleep and yield keep the queue exact.                                   *)
LEMMA GiveUpQueueOK ==
    ASSUME QueueInv, NEW t \in Threads, Running(t), NEW ms \in Nat,
           NEW s \in {"RUNNING", "SLEEPING", "BLOCKED"}, GiveUp(t, s, ms)
    PROVE  QueueOK(blk)'
<1>1. PICK b : /\ EntryOK(b) /\ thread_handler_c(b, 0)
               /\ \A u \in Threads : b[u].state = IF u = t THEN s ELSE blk[u].state
    BY GiveUpEntry DEF QueueInv
<1>2. t \notin reap /\ Allocated(blk[t]) /\ reap \subseteq Threads
    BY DEF QueueInv, IndInv, CurrentIsSafe, Running, Allocated
<1>3. QueueOK(b)
    BY <1>1, <1>2, SameUseOK DEF Allocated
<1> QED BY <1>1, <1>3, HandlerQueueOK

(* Every other step changes the state of one thread in use, or queues one. *)
LEMMA QueueNext == QueueInv /\ [Next]_vars => QueueInv'
<1> SUFFICES ASSUME QueueInv, [Next]_vars PROVE QueueOK(blk)'
    BY NextOK DEF QueueInv
<1>0. /\ IndInv /\ blk \in [Threads -> ThreadBlock] /\ reap \subseteq Threads
      /\ current \in Threads \cup {Idle} /\ current \notin reap
      /\ queue \in Seq(Threads) /\ Len(queue) \in Nat
    BY DEF QueueInv, IndInv, Sound, CurrentIsSafe, QueueOK
<1>1. CASE Tick
  <2>1. EntryOK(blk)
    BY <1>0, SchedulerAssumption
       DEF IndInv, EntryOK, CurrentIsSafe, OnlyCurrentRuns, Allocated
  <2> QED BY <1>1, <2>1, HandlerQueueOK DEF Tick, QueueInv
<1>2. ASSUME NEW t \in Threads,
             \/ thread_yield(t)
             \/ \E ms \in 1..MaxSleep : thread_sleep(t, ms)
             \/ Block(t)
      PROVE  QueueOK(blk)'
  <2>1. CASE thread_yield(t)
    BY <2>1, GiveUpQueueOK DEF thread_yield
  <2>2. CASE \E ms \in 1..MaxSleep : thread_sleep(t, ms)
    BY <2>2, GiveUpQueueOK DEF thread_sleep
  <2>3. CASE Block(t)
    BY <2>3, GiveUpQueueOK DEF Block
  <2> QED BY <1>2, <2>1, <2>2, <2>3
<1>3. ASSUME NEW u \in Threads, Allocated(blk[u]),
             NEW s \in {"READY", "DEAD"}, s = "DEAD" \/ u \notin reap,
             \A t \in Threads : blk'[t].state = IF t = u THEN s ELSE blk[t].state,
             UNCHANGED <<queue, reap>>
      PROVE  QueueOK(blk)'
  <2>1. /\ \A t \in Threads : Allocated(blk'[t]) <=> Allocated(blk[t])
        /\ \A t \in reap : blk'[t].state = "DEAD"
    BY <1>0, <1>3 DEF Allocated, QueueInv, QueueOK
  <2>2. InQueue' = InQueue
    BY <1>3 DEF InQueue
  <2>3. {t \in Threads : Allocated(blk'[t])} = {t \in Threads : Allocated(blk[t])}
    BY <2>1
  <2> QED BY <1>3, <2>1, <2>2, <2>3 DEF QueueInv, QueueOK
<1>4. \A u \in Threads : \A s \in {"READY", "DEAD"} :
        /\ blk' = [blk EXCEPT ![u].state = s] =>
             \A t \in Threads : blk'[t].state = IF t = u THEN s ELSE blk[t].state
        /\ blk' = [blk EXCEPT ![u].state = s, ![u].wake = 0] =>
             \A t \in Threads : blk'[t].state = IF t = u THEN s ELSE blk[t].state
    BY ZenonT(30), <1>0 DEF ThreadBlock
<1>5. ASSUME NEW t \in Threads, thread_exit(t) PROVE QueueOK(blk)'
    BY <1>3, <1>4, <1>5 DEF thread_exit, Running, Allocated
<1>6. ASSUME NEW t \in Threads, NEW u \in Threads, KillThread(t, u) PROVE QueueOK(blk)'
    BY <1>3, <1>4, <1>6 DEF KillThread, Allocated
<1>7. ASSUME NEW u \in Threads, MakeReady(u) PROVE QueueOK(blk)'
  <2>1. u \notin reap
    BY <1>7 DEF MakeReady, QueueInv, QueueOK
  <2> QED BY <1>3, <1>4, <1>7, <2>1 DEF MakeReady, Allocated
<1>8. ASSUME NEW t \in Threads, NEW u \in Threads, NEW p \in Priorities,
             thread_create(t, u, p)
      PROVE  QueueOK(blk)'
  <2>1. /\ blk' = [blk EXCEPT ![u] = NewBlock("READY", p)] /\ queue' = Append(queue, u)
        /\ reap' = reap /\ blk[u].state = "FREE"
    BY <1>8 DEF thread_create
  <2>2. \A v \in Threads : blk'[v] = IF v = u THEN NewBlock("READY", p) ELSE blk[v]
    BY <1>0, <2>1
  <2>3. u \notin reap /\ u \notin InQueue
    BY <2>1 DEF QueueInv, QueueOK, Allocated
  <2>4. /\ queue' \in Seq(Threads) /\ Len(queue') = Len(queue) + 1
        /\ queue'[Len(queue) + 1] = u /\ \A i \in 1..Len(queue) : queue'[i] = queue[i]
    BY <1>0, <2>1
  <2>5. \A i \in 1..Len(queue') : i \in 1..Len(queue) \/ i = Len(queue) + 1
    BY <1>0, <2>4
  <2>6. InQueue' = InQueue \cup {u}
    <3>1. Len(queue) + 1 \in 1..Len(queue') /\ 1..Len(queue) \subseteq 1..Len(queue')
      BY <1>0, <2>4
    <3> QED BY <2>4, <2>5, <3>1 DEF InQueue
  <2>7. \A i, j \in 1..Len(queue') : queue'[i] = queue'[j] => i = j
    <3>1. \A i \in 1..Len(queue) : queue'[i] # u /\ queue'[i] = queue[i]
      BY <2>3, <2>4 DEF InQueue
    <3> QED BY <2>4, <2>5, <3>1 DEF QueueInv, QueueOK
  <2>8. \A v \in Threads : Allocated(blk'[v]) <=> v = u \/ Allocated(blk[v])
    BY <2>2 DEF Allocated, NewBlock
  <2>9. \A v \in reap : blk'[v].state = "DEAD"
    BY <1>0, <2>2, <2>3 DEF QueueInv, QueueOK
  <2>10. InQueue' = {v \in Threads : Allocated(blk'[v])} \ reap
    BY <2>3, <2>6, <2>8 DEF QueueInv, QueueOK
  <2> QED BY <2>1, <2>4, <2>7, <2>9, <2>10 DEF QueueOK
<1>9. CASE UNCHANGED vars
    BY <1>9 DEF vars, QueueInv, QueueOK, InQueue
<1> QED BY <1>1, <1>2, <1>5, <1>6, <1>7, <1>8, <1>9 DEF Next

(* The queue is exact at boot.                                             *)
LEMMA QueueInit == Init => QueueInv
<1> SUFFICES ASSUME Init PROVE QueueOK(blk)
    BY InitOK DEF QueueInv
<1>1. PICK p \in Priorities :
        blk = [t \in Threads |-> IF t = Main THEN NewBlock("RUNNING", p) ELSE FreeBlock]
    BY DEF Init
<1>2. NewBlock("RUNNING", p).state = "RUNNING" /\ FreeBlock.state = "FREE"
    BY NewBlockOK, UnusedBlockOK DEF FreeBlock
<1>3. Main \in Threads /\ queue = <<Main>> /\ reap = {} /\ Len(queue) = 1 /\ queue[1] = Main
    BY SchedulerAssumption DEF Init
<1>4. queue \in Seq(Threads)
    BY <1>3
<1>5. InQueue = {Main}
    BY <1>3 DEF InQueue
<1>6. {t \in Threads : Allocated(blk[t])} = {Main}
    BY <1>1, <1>2, <1>3 DEF Allocated
<1> QED BY <1>3, <1>4, <1>5, <1>6 DEF QueueOK

(* The invariant of the queues holds throughout.                           *)
LEMMA QueueInvariant == Spec => []QueueInv
BY QueueInit, QueueNext, PTL DEF Spec

(* The run queue holds every thread that is in use and not on reap_list,   *)
(* once: nothing is lost, linked twice, or freed while it is linked,       *)
(* whatever is created, killed or reaped.                                  *)
THEOREM SchedulerQueuesAreSound == Spec => []QueuesAreSound
<1>1. QueueInv => QueuesAreSound
  <2> SUFFICES ASSUME QueueInv PROVE QueuesAreSound
    OBVIOUS
  <2>1. TypeOK
    BY DEF QueueInv, IndInv, Sound, QueueOK, TypeOK
  <2>2. {t \in Threads : blk[t].state \notin {"FREE", "GONE"}}
            = {t \in Threads : Allocated(blk[t])}
    BY DEF Allocated
  <2>3. QueueExact
    BY <2>2 DEF QueueInv, QueueOK, QueueExact
  <2> QED BY <2>1, <2>3 DEF QueuesAreSound
<1> QED BY <1>1, QueueInvariant, PTL

-----------------------------------------------------------------------------
(***************************************************************************)
(* The refinement of ThreadLife.  A whole entry of the scheduler is one    *)
(* Enter; every other step changes the state of one thread.                *)
(***************************************************************************)
LifeOf(s) == IF s = "GONE" THEN "FREE" ELSE s

(* The abstract state of a thread, by its block.                           *)
LEMMA StatesAre ==
    /\ states = [t \in Threads |-> LifeOf(blk[t].state)]
    /\ states' = [t \in Threads |-> LifeOf(blk'[t].state)]
BY DEF states, LifeOf

(* One entry: t is the thread that gave up the CPU, if one did.            *)
LEMMA EntryEnters ==
    ASSUME QueueInv, NEW b, EntryOK(b), QueueOK(b), NEW ms \in Nat, thread_handler_c(b, ms),
           \A t \in Threads :
               \/ b[t].state = blk[t].state
               \/ blk[t].state = "RUNNING" /\ b[t].state \in {"RUNNING", "SLEEPING", "BLOCKED"}
    PROVE  Life!Enter
<1> DEFINE p == Prepared(b, ms)
<1>1. /\ Sound(p) /\ OnlyCurrentRuns(p) /\ PreparedStates(b, p)
      /\ current \in Threads \cup {Idle} /\ current \notin reap /\ reap \subseteq Threads
    BY PreparedOK, PreparedStatesOK DEF EntryOK
<1>2. Choose(p, queue')
    BY DEF thread_handler_c
<1>3. current # Idle => current \in InQueue
    BY <1>1 DEF EntryOK, QueueOK
<1> HIDE DEF p
<1>4. PICK n : /\ n = current' /\ SwitchedStates(p, n)
               /\ \/ n = Idle /\ Candidates(p) = {}
                  \/ n \in Candidates(p)
    BY <1>1, <1>2, <1>3, ChooseStates
<1>5. n \in Candidates(p) => n \in Threads /\ p[n].state \in Runnable
    BY DEF Candidates, InQueue, QueueInv, QueueOK
<1>6. IndInv' /\ OnlyCurrentRuns(blk)'
    BY HandlerOK DEF IndInv, CurrentIsSafe, OnlyCurrentRuns
<1>7. ASSUME NEW t \in Threads
      PROVE  Life!MayBecome(t, states'[t])
  <2>1. states[t] = LifeOf(blk[t].state) /\ states'[t] = LifeOf(blk'[t].state)
    BY StatesAre
  <2>2. CASE t \in reap
    <3>1. /\ states[t] = "DEAD" /\ t # current /\ t # n
          /\ p[t].state \in {"FREE", "GONE"} /\ blk'[t].state = p[t].state
      BY <1>1, <1>4, <1>5, <2>1, <2>2, SchedulerAssumption
         DEF QueueInv, QueueOK, LifeOf, PreparedStates, SwitchedStates, Runnable
    <3>2. states'[t] = "FREE"
      BY <2>1, <3>1 DEF LifeOf
    <3> QED BY <3>1, <3>2 DEF Life!MayBecome
  <2>3. CASE t \notin reap
    <3>1. /\ \/ p[t].state = b[t].state
             \/ b[t].state = "SLEEPING" /\ p[t].state = "READY"
          /\ \/ b[t].state = blk[t].state
             \/ /\ blk[t].state = "RUNNING"
                /\ b[t].state \in {"RUNNING", "SLEEPING", "BLOCKED"}
      BY <1>1, <2>3 DEF PreparedStates
    <3>2. /\ p[t].state = "RUNNING" => t = current
          /\ blk[t].state = "RUNNING" => t = current
          /\ t = n => p[t].state \in {"READY", "RUNNING"}
      BY <1>1, <1>4, <1>5, SchedulerAssumption
         DEF OnlyCurrentRuns, QueueInv, IndInv, CurrentIsSafe, Runnable
    <3>3. blk'[t].state = IF t = n THEN "RUNNING"
                          ELSE IF t = current /\ p[t].state = "RUNNING" THEN "READY"
                          ELSE p[t].state
      BY <1>4 DEF SwitchedStates
    <3>4. CASE blk[t].state = "RUNNING"
      <4>1. blk'[t].state \in {"RUNNING", "READY", "SLEEPING", "BLOCKED"}
        BY <3>1, <3>2, <3>3, <3>4
      <4> QED BY <2>1, <3>4, <4>1 DEF Life!MayBecome, LifeOf
    <3>5. CASE blk[t].state # "RUNNING"
      <4>1. b[t].state = blk[t].state /\ b[t].state # "RUNNING"
        BY <3>1, <3>5
      <4>2. \/ blk'[t].state = blk[t].state
            \/ blk[t].state = "SLEEPING" /\ blk'[t].state \in {"READY", "RUNNING"}
            \/ blk[t].state = "READY" /\ blk'[t].state = "RUNNING"
        BY <3>1, <3>2, <3>3, <4>1
      <4> QED BY <2>1, <3>5, <4>2 DEF Life!MayBecome, LifeOf
    <3> QED BY <3>4, <3>5
  <2> QED BY <2>2, <2>3
<1>8. ASSUME n = Idle, Candidates(p) = {}
      PROVE  current' = Idle /\ \A t \in Threads : states'[t] # "READY"
  <2>1. ASSUME NEW t \in Threads PROVE p[t].state \notin {"READY", "RUNNING"}
    <3>1. CASE t \in InQueue
      BY <1>8, <3>1 DEF Candidates, Runnable, InQueue, QueueInv, QueueOK
    <3>2. CASE t \in reap
      BY <1>1, <3>2 DEF PreparedStates
    <3>3. CASE t \notin InQueue /\ t \notin reap
      <4>1. ~Allocated(b[t])
        BY <3>3 DEF QueueOK
      <4> QED BY <1>1, <3>3, <4>1 DEF PreparedStates, Allocated
    <3> QED BY <3>1, <3>2, <3>3
  <2>2. ASSUME NEW t \in Threads PROVE states'[t] # "READY"
    <3>1. blk'[t].state = p[t].state
      BY <1>4, <1>8, <2>1, SchedulerAssumption DEF SwitchedStates
    <3>2. states'[t] = LifeOf(blk'[t].state)
      BY StatesAre
    <3>3. blk'[t].state # "READY"
      BY <2>1, <3>1
    <3> QED BY <3>2, <3>3 DEF LifeOf
  <2> QED BY <1>4, <1>8, <2>2
<1>9. ASSUME n \in Candidates(p)
      PROVE  current' \in Threads /\ states'[current'] = "RUNNING"
  <2>1. n \in Threads /\ blk'[n].state = "RUNNING"
    BY <1>4, <1>5, <1>9 DEF SwitchedStates
  <2>2. states'[n] = LifeOf(blk'[n].state)
    BY <2>1, StatesAre
  <2>3. states'[n] = "RUNNING"
    BY <2>1, <2>2 DEF LifeOf
  <2> QED BY <1>4, <2>1, <2>3
<1>10. \A t \in Threads : states'[t] = "RUNNING" => current' = t
    BY <1>6, StatesAre DEF LifeOf, OnlyCurrentRuns
<1> QED BY <1>4, <1>7, <1>8, <1>9, <1>10 DEF Life!Enter

(* A step that changes the state of thread u.                              *)
LEMMA OneChanges ==
    ASSUME NEW u \in Threads, NEW s, s # "GONE", NEW from, "GONE" \notin from,
           blk[u].state \in from, current' = current,
           \A t \in Threads : blk'[t].state = IF t = u THEN s ELSE blk[t].state
    PROVE  Life!Change(u, from, s)
<1>1. states[u] \in from
    BY StatesAre DEF LifeOf
<1>2. states' = [states EXCEPT ![u] = s]
    BY StatesAre DEF LifeOf
<1> QED BY <1>1, <1>2 DEF Life!Change

(* Every step of the scheduler is a step of the abstract life, or none.    *)
LEMMA LifeStep ==
    QueueInv /\ [Next]_vars => [Life!Next]_<<states, current>>
<1> SUFFICES ASSUME QueueInv, Next PROVE Life!Next
    BY DEF vars, states
<1>0. blk \in [Threads -> ThreadBlock] /\ IndInv /\ QueueOK(blk)
    BY DEF QueueInv, IndInv, Sound
<1>1. CASE Tick
  <2>1. EntryOK(blk)
    BY <1>0, SchedulerAssumption
       DEF IndInv, EntryOK, CurrentIsSafe, OnlyCurrentRuns, Allocated
  <2> QED BY <1>0, <1>1, <2>1, EntryEnters DEF Tick, Life!Next
<1>2. ASSUME NEW t \in Threads, Running(t), NEW ms \in Nat,
             NEW s \in {"RUNNING", "SLEEPING", "BLOCKED"}, GiveUp(t, s, ms)
      PROVE  Life!Next
  <2>1. PICK b : /\ EntryOK(b) /\ thread_handler_c(b, 0)
                 /\ \A u \in Threads : b[u].state = IF u = t THEN s ELSE blk[u].state
    BY <1>0, <1>2, GiveUpEntry
  <2>2. t \notin reap /\ Allocated(blk[t]) /\ reap \subseteq Threads /\ blk[t].state = "RUNNING"
    BY <1>0, <1>2 DEF IndInv, CurrentIsSafe, Running, Allocated
  <2>3. QueueOK(b)
    BY <2>1, <2>2, SameUseOK DEF Allocated
  <2> QED BY <2>1, <2>2, <2>3, EntryEnters DEF Life!Next
<1>3. ASSUME NEW t \in Threads,
             \/ thread_yield(t)
             \/ \E ms \in 1..MaxSleep : thread_sleep(t, ms)
             \/ Block(t)
      PROVE  Life!Next
  <2>1. CASE thread_yield(t)
    BY <1>2, <2>1 DEF thread_yield
  <2>2. CASE \E ms \in 1..MaxSleep : thread_sleep(t, ms)
    BY <1>2, <2>2 DEF thread_sleep
  <2>3. CASE Block(t)
    BY <1>2, <2>3 DEF Block
  <2> QED BY <1>3, <2>1, <2>2, <2>3
<1>4. \A u \in Threads : \A s \in {"READY", "DEAD"} :
        /\ blk' = [blk EXCEPT ![u].state = s] =>
             \A t \in Threads : blk'[t].state = IF t = u THEN s ELSE blk[t].state
        /\ blk' = [blk EXCEPT ![u].state = s, ![u].wake = 0] =>
             \A t \in Threads : blk'[t].state = IF t = u THEN s ELSE blk[t].state
    BY <1>0 DEF ThreadBlock
<1>5. ASSUME NEW u \in Threads, \/ thread_exit(u)
                               \/ \E t \in Threads : KillThread(t, u)
      PROVE  Life!Next
  <2>1. /\ blk[u].state \in {"READY", "RUNNING", "SLEEPING", "BLOCKED"} /\ current' = current
        /\ \A t \in Threads : blk'[t].state = IF t = u THEN "DEAD" ELSE blk[t].state
    BY <1>4, <1>5 DEF thread_exit, KillThread, Running
  <2>2. Life!Die(u)
    BY <2>1, OneChanges DEF Life!Die
  <2> QED BY <2>2 DEF Life!Next
<1>6. ASSUME NEW u \in Threads, MakeReady(u) PROVE Life!Next
  <2>1. /\ blk[u].state \in {"SLEEPING", "BLOCKED"} /\ current' = current
        /\ \A t \in Threads : blk'[t].state = IF t = u THEN "READY" ELSE blk[t].state
    BY <1>4, <1>6 DEF MakeReady
  <2>2. Life!Wake(u)
    BY <2>1, OneChanges DEF Life!Wake
  <2> QED BY <2>2 DEF Life!Next
<1>7. ASSUME NEW t \in Threads, NEW u \in Threads, NEW p \in Priorities,
             thread_create(t, u, p)
      PROVE  Life!Next
  <2>1. /\ blk[u].state \in {"FREE"} /\ current' = current
        /\ blk' = [blk EXCEPT ![u] = NewBlock("READY", p)]
    BY <1>7 DEF thread_create
  <2>2. \A v \in Threads : blk'[v].state = IF v = u THEN "READY" ELSE blk[v].state
    BY <1>0, <2>1 DEF NewBlock
  <2>3. Life!Create(u)
    BY <2>1, <2>2, OneChanges DEF Life!Create
  <2> QED BY <2>3 DEF Life!Next
<1> QED BY <1>1, <1>3, <1>5, <1>6, <1>7 DEF Next

(* scheduler.c implements the abstract life of a thread: only a READY one  *)
(* is put on the CPU, the idle thread runs when no thread can, and a block *)
(* is freed after its thread has died and left the CPU.                    *)
THEOREM SchedulerImplementsThreadLife == Spec => ImplementsThreadLife
<1>1. Init => Life!Init
  <2> SUFFICES ASSUME Init PROVE Life!Init
    OBVIOUS
  <2>1. PICK p \in Priorities :
          blk = [t \in Threads |-> IF t = Main THEN NewBlock("RUNNING", p) ELSE FreeBlock]
    BY DEF Init
  <2>2. NewBlock("RUNNING", p).state = "RUNNING" /\ FreeBlock.state = "FREE"
    BY NewBlockOK, UnusedBlockOK DEF FreeBlock
  <2>3. states = [t \in Threads |-> IF t = Main THEN "RUNNING" ELSE "FREE"]
    BY <2>1, <2>2, StatesAre DEF LifeOf
  <2> QED BY <2>3, SchedulerAssumption DEF Init, Life!Init
<1> QED BY <1>1, LifeStep, QueueInvariant, PTL DEF Spec, ImplementsThreadLife, Life!Spec

-----------------------------------------------------------------------------
(***************************************************************************)
(* The boost.  An entry from the timer leaves the quantum and the boost of *)
(* the running thread as they are, so that it is among the candidates,     *)
(* continues, and has the highest priority there is.                       *)
(***************************************************************************)
SameTurn(x, y) == y.state = x.state /\ y.ticks = x.ticks /\ y.boosted = x.boosted

(* Charging and aging leave the turn of the running thread as it is.       *)
LEMMA TurnOfRunning ==
    ASSUME NEW x, BlockOK(x), x.state = "RUNNING", NEW ms \in Nat
    PROVE  SameTurn(x, ChargeBlock(x, ms)) /\ SameTurn(x, PassBlock(x, ms))
<1>1. x \in ThreadBlock
    BY DEF BlockOK
<1>2. SameTurn(x, ChargeBlock(x, ms))
  <2>1. ChargeBlock(x, ms) = thread_charge_cpu(x, ms)
    BY DEF ChargeBlock
  <2>2. ASSUME NEW c PROVE SameTurn(x, [x EXCEPT !.cpu = c])
    BY <1>1 DEF SameTurn, ThreadBlock
  <2>3. ASSUME NEW c, NEW d PROVE SameTurn(x, [x EXCEPT !.dyn = d, !.cpu = c])
    BY <1>1 DEF SameTurn, ThreadBlock
  <2> DEFINE A == Allotment(x)
             d == x.dyn - ((x.cpu + ms) \div A)
             c == (x.cpu + ms) % A
  <2>4. \/ thread_charge_cpu(x, ms) = [x EXCEPT !.cpu = 0]
        \/ thread_charge_cpu(x, ms) = [x EXCEPT !.dyn = d, !.cpu = c]
        \/ thread_charge_cpu(x, ms) = [x EXCEPT !.dyn = 1, !.cpu = 0]
    BY DEF thread_charge_cpu
  <2>5. SameTurn(x, [x EXCEPT !.cpu = 0]) /\ SameTurn(x, [x EXCEPT !.dyn = 1, !.cpu = 0])
    BY <2>2, <2>3
  <2>6. SameTurn(x, [x EXCEPT !.dyn = d, !.cpu = c])
    <3> HIDE DEF d, c
    <3> QED BY <2>3
  <2> HIDE DEF d, c
  <2>7. SameTurn(x, thread_charge_cpu(x, ms))
    BY <2>4, <2>5, <2>6, Zenon
  <2> QED BY <2>1, <2>7
<1>3. SameTurn(x, PassBlock(x, ms))
  <2> DEFINE e == Elapse(x, ms)
             w == WakeSleeper(e)
  <2>1. e \in ThreadBlock /\ e.state = "RUNNING"
    BY ElapseOK DEF KeepsOK, BlockOK
  <2>2. SameTurn(x, e)
    BY <1>1 DEF SameTurn, Elapse, ThreadBlock
  <2>3. w = e
    BY <2>1 DEF WakeSleeper
  <2>4. thread_age(e) = [e EXCEPT !.rec = 0, !.wait = 0]
    BY <2>1 DEF thread_age
  <2>5. PassBlock(x, ms) = [e EXCEPT !.rec = 0, !.wait = 0]
    BY <2>1, <2>3, <2>4 DEF PassBlock
  <2> HIDE DEF e
  <2> QED BY <2>1, <2>2, <2>5 DEF SameTurn, ThreadBlock
<1> QED BY <1>2, <1>3

(* The timer never takes the CPU from a boosted thread that has ticks      *)
(* left, whatever is READY: the boost buys a whole quantum.                *)
THEOREM SchedulerBoostIsKept == Spec => BoostIsKept
<1>1. ASSUME QueueInv, NEW t \in Threads, Running(t), blk[t].boosted, blk[t].ticks > 1, Tick
      PROVE  current' = t
  <2> DEFINE r == Reaped(blk)
             c == Charged(r, 1)
             p == Pass1(c, 1)
             u == Unboosted(p)
  <2>1. /\ current = t /\ current # Idle /\ blk[t].state = "RUNNING"
        /\ t \notin reap /\ t \in InQueue
    BY <1>1, SchedulerAssumption
       DEF Running, QueueInv, QueueOK, IndInv, CurrentIsSafe, Allocated
  <2>2. EntryOK(blk)
    BY <1>1, SchedulerAssumption
       DEF QueueInv, IndInv, EntryOK, CurrentIsSafe, OnlyCurrentRuns, Allocated
  <2>3. r[t] = blk[t] /\ BlockOK(r[t])
    BY <1>1, <2>1 DEF Reaped, QueueInv, IndInv, Sound, BlockOK
  <2>4. c[t] = ChargeBlock(r[t], 1)
    BY <2>1, <2>3 DEF Charged
  <2>5. p[t] = PassBlock(c[t], 1)
    BY <2>1 DEF Pass1
  <2>6. Sound(u)
    BY <2>2, PreparedOK DEF Prepared
  <2>7. u[t] = IF Continues(p) THEN p[t] ELSE [p[t] EXCEPT !.boosted = FALSE]
    BY <2>1 DEF Unboosted
  <2>8. u = Prepared(blk, 1)
    BY DEF Prepared
  <2> HIDE DEF r, c, p, u
  <2>9. SameTurn(blk[t], p[t])
    <3>1. SameTurn(r[t], c[t]) /\ BlockOK(c[t])
      <4>1. Allocated(r[t])
        BY <2>1, <2>3 DEF Allocated
      <4> QED BY <2>1, <2>3, <2>4, <4>1, TurnOfRunning, ChargeBlockOK DEF KeepsOK
    <3>2. SameTurn(c[t], p[t])
      BY <2>1, <2>3, <2>5, <3>1, TurnOfRunning DEF SameTurn
    <3> QED BY <2>3, <3>1, <3>2 DEF SameTurn
  <2>10. Continues(p) /\ u[t] = p[t] /\ SameTurn(blk[t], u[t])
    BY <1>1, <2>1, <2>7, <2>9 DEF Continues, SameTurn
  <2>11. Continues(u) /\ t \in Candidates(u)
    BY <1>1, <2>1, <2>10 DEF Continues, SameTurn, Candidates, Runnable
  <2>12. MaxPriority(u, t)
    <3>1. thread_effective(u[t]) = REALTIME
      BY <1>1, <2>10 DEF thread_effective, SameTurn
    <3>2. \A v \in Threads : thread_effective(u[v]) <= REALTIME
      BY <2>6, SchedulerAssumption DEF thread_effective, Sound, ThreadBlock
    <3> QED BY <1>1, <3>1, <3>2 DEF MaxPriority, Candidates, InQueue, QueueInv, QueueOK
  <2>13. Choose(u, queue')
    BY <1>1, <2>8 DEF Tick, thread_handler_c
  <2> QED BY <2>1, <2>11, <2>12, <2>13 DEF Choose, StayOn
<1>2. QueueInv /\ [Next]_vars => [BoostNotPreempted]_vars
    BY <1>1 DEF BoostNotPreempted
<1> QED BY <1>2, QueueInvariant, PTL DEF Spec, BoostIsKept

-----------------------------------------------------------------------------
(***************************************************************************)
(* The wait of a READY thread.  What it has still to wait, once boosted,   *)
(* is at most the quantum that runs, one for each thread that the search   *)
(* reaches before it, and, for each death among them, another round over   *)
(* the threads that are left.                                              *)
(***************************************************************************)
Living == {"READY", "RUNNING", "SLEEPING", "BLOCKED"}

(* The threads that live or may still be created.                          *)
Coming(b) == {u \in Threads : b[u].state \in Living \cup {"FREE"}}

(* In the circle of the queue, k comes after i and before j.               *)
Passes(i, k, j) == IF i < j THEN i < k /\ k < j ELSE i < k \/ k < j

IsBetween(q, c, u, t) ==
    \E i, k, j \in 1..Len(q) : q[i] = c /\ q[k] = u /\ q[j] = t /\ Passes(i, k, j)

(* Who may run between c, which runs, and t.                               *)
Ahead(b, q, c, t) ==
    {u \in Threads \ {c, t} : \/ b[u].state = "FREE"
                              \/ b[u].state \in Living /\ IsBetween(q, c, u, t)}

Rounds(n) == (n * (n - 1)) \div 2

StillToWait(b, q, c, t) ==
    IF b[c].state = "RUNNING"
    THEN b[c].ticks
         + (Cardinality(Ahead(b, q, c, t)) + Rounds(Cardinality(Coming(b)) - 1)) * REALTIME
    ELSE 1 + Rounds(Cardinality(Coming(b))) * REALTIME

WaitOK(b, q, c, t) ==
    IF b[t].boosted
    THEN c \in Threads \ {t} /\ b[t].wait + StillToWait(b, q, c, t) <= WaitBound
    ELSE b[t].wait < STARVATION_MS

(* Every thread has ticks to spend, and a wait begins at 0.                *)
TurnOK(x) ==
    /\ Allocated(x) => x.ticks \in 1..x.prio
    /\ x.state \in {"SLEEPING", "BLOCKED"} => x.wait = 0 /\ ~x.boosted

WaitInv ==
    /\ \A t \in Threads : TurnOK(blk[t])
    /\ \A t \in Threads : blk[t].state = "READY" => WaitOK(blk, queue, current, t)

(* One more thread, one more quantum for each of the others.               *)
LEMMA RoundsStep ==
    ASSUME NEW n \in Nat
    PROVE  Rounds(n) \in Nat /\ Rounds(n + 1) = Rounds(n) + n
<1>1. n * (n - 1) \in Nat
  <2>1. CASE n = 0
    BY <2>1
  <2>2. CASE n # 0
    <3>1. n - 1 \in Nat
      BY <2>2
    <3>2. \A a, b \in Nat : a * b \in Nat
      OBVIOUS
    <3> QED BY <3>1, <3>2
  <2> QED BY <2>1, <2>2
<1>2. (n + 1) * ((n + 1) - 1) = n * (n - 1) + 2 * n
    OBVIOUS
<1>3. \A a \in Nat : a \div 2 \in Nat /\ (a + 2 * n) \div 2 = (a \div 2) + n
    OBVIOUS
<1> QED BY <1>1, <1>2, <1>3 DEF Rounds

(* Fewer threads, fewer quanta.                                            *)
LEMMA RoundsLess ==
    ASSUME NEW m \in Nat, NEW n \in Nat, m <= n
    PROVE  Rounds(m) <= Rounds(n)
<1> DEFINE T == {k \in Nat : m <= k /\ ~(Rounds(m) <= Rounds(k))}
<1>1. SUFFICES ASSUME T # {} PROVE FALSE
    OBVIOUS
<1>2. PICK k \in T : \A i \in T : k <= i
    BY <1>1, NatMin
<1>3. k # m
    BY RoundsStep
<1>4. k - 1 \in Nat /\ m <= k - 1 /\ k - 1 \notin T /\ (k - 1) + 1 = k
    BY <1>2, <1>3
<1>5. Rounds(m) <= Rounds(k - 1)
    BY <1>4
<1>6. Rounds(m) \in Nat /\ Rounds(k - 1) \in Nat /\ Rounds(k) = Rounds(k - 1) + (k - 1)
    BY <1>4, RoundsStep
<1>7. Rounds(m) <= Rounds(k)
    BY <1>4, <1>5, <1>6
<1> QED BY <1>2, <1>7

(* A quantum is REALTIME ticks at most.                                    *)
LEMMA QuantaLess ==
    ASSUME NEW a \in Nat, NEW b \in Nat, a <= b
    PROVE  /\ a * REALTIME \in Nat /\ b * REALTIME \in Nat /\ a * REALTIME <= b * REALTIME
           /\ (a + 1) * REALTIME = a * REALTIME + REALTIME
<1>1. REALTIME \in Nat
    BY SchedulerAssumption
<1>2. \A x, r \in Nat : x * r \in Nat /\ (x + 1) * r = x * r + r
    OBVIOUS
<1>3. b - a \in Nat /\ b = a + (b - a)
    OBVIOUS
<1>4. \A x, y, r \in Nat : (x + y) * r = x * r + y * r
    OBVIOUS
<1>5. b * REALTIME = a * REALTIME + (b - a) * REALTIME
    BY <1>1, <1>3, <1>4
<1> QED BY <1>1, <1>2, <1>3, <1>5

(* Going on from k, which lies before j, one stays before j.               *)
LEMMA PassesOn ==
    ASSUME NEW i \in Int, NEW j \in Int, NEW k \in Int, NEW l \in Int,
           Passes(i, k, j), Passes(k, l, j)
    PROVE  Passes(i, l, j)
BY DEF Passes

(* The remainder of a number below twice the divisor.                      *)
LEMMA ModOnce ==
    ASSUME NEW n \in Nat \ {0}, NEW x \in 0..(n - 1)
    PROVE  x % n = x /\ (x + n) % n = x
OBVIOUS

(* What the search from behind i finds before j lies between them.         *)
LEMMA NearerPasses ==
    ASSUME NEW n \in Nat \ {0}, NEW i \in 1..n, NEW j \in 1..n, NEW k \in 1..n,
           (k - (i + 1) + n) % n < (j - (i + 1) + n) % n
    PROVE  Passes(i, k, j)
<1>1. \A m \in 1..n : (m - (i + 1) + n) % n = IF i < m THEN m - i - 1 ELSE m - i - 1 + n
  <2> TAKE m \in 1..n
  <2>1. CASE i < m
    <3>1. m - i - 1 \in 0..(n - 1) /\ m - (i + 1) + n = (m - i - 1) + n
      BY <2>1
    <3> QED BY <2>1, <3>1, ModOnce
  <2>2. CASE ~(i < m)
    <3>1. m - i - 1 + n \in 0..(n - 1) /\ m - (i + 1) + n = m - i - 1 + n
      BY <2>2
    <3> QED BY <2>2, <3>1, ModOnce
  <2> QED BY <2>1, <2>2
<1> QED BY <1>1 DEF Passes

(* Unlinking threads keeps the order of the others.                        *)
LEMMA BetweenBefore ==
    ASSUME NEW s \in Seq(Threads), NEW gone, NEW c, NEW u, NEW t,
           IsBetween(WithoutAll(s, gone), c, u, t)
    PROVE  IsBetween(s, c, u, t)
<1> DEFINE w == WithoutAll(s, gone)
<1>1. IsWithout(Threads, s, gone, Len(s), w)
    BY WithoutAllOK
<1> HIDE DEF w
<1>2. PICK pos \in [1..Len(w) -> 1..Len(s)] :
          /\ \A k \in 1..Len(w) : w[k] = s[pos[k]] /\ w[k] \notin gone
          /\ \A k, l \in 1..Len(w) : k < l => pos[k] < pos[l]
    BY <1>1 DEF IsWithout
<1>3. PICK i \in 1..Len(w), k \in 1..Len(w), j \in 1..Len(w) :
          w[i] = c /\ w[k] = u /\ w[j] = t /\ Passes(i, k, j)
    BY DEF IsBetween, w
<1>4. Len(w) \in Nat /\ Len(s) \in Nat
    BY <1>1 DEF IsWithout
<1>5. pos[i] \in 1..Len(s) /\ pos[k] \in 1..Len(s) /\ pos[j] \in 1..Len(s)
    BY <1>2
<1>6. s[pos[i]] = c /\ s[pos[k]] = u /\ s[pos[j]] = t
    BY <1>2, <1>3
<1>7. Passes(pos[i], pos[k], pos[j])
  <2>1. \A a, b \in 1..Len(w) : /\ a < b => pos[a] < pos[b]
                                /\ ~(a < b) => ~(pos[a] < pos[b])
    <3> TAKE a, b \in 1..Len(w)
    <3>1. a < b \/ a = b \/ b < a
      BY <1>4
    <3>2. pos[a] \in Int /\ pos[b] \in Int
      BY <1>2
    <3> QED BY <1>2, <3>1, <3>2
  <2> QED BY <2>1, <1>3 DEF Passes
<1> QED BY <1>5, <1>6, <1>7 DEF IsBetween

(* How many threads there are to count.                                    *)
LEMMA ComingCounts ==
    ASSUME IsFiniteSet(Threads), NEW b
    PROVE  /\ IsFiniteSet(Coming(b)) /\ Cardinality(Coming(b)) \in Nat
           /\ Cardinality(Coming(b)) <= Cardinality(Threads) /\ Cardinality(Threads) \in Nat
           /\ \A S \in SUBSET Coming(b) :
                 IsFiniteSet(S) /\ Cardinality(S) \in Nat /\ Cardinality(S) <= Cardinality(Coming(b))
<1>1. Coming(b) \in SUBSET Threads
    BY DEF Coming
<1>2. IsFiniteSet(Coming(b)) /\ Cardinality(Coming(b)) <= Cardinality(Threads)
    BY <1>1, FS_Subset
<1>3. Cardinality(Coming(b)) \in Nat /\ Cardinality(Threads) \in Nat
    BY <1>2, FS_CardinalityType
<1>4. ASSUME NEW S \in SUBSET Coming(b)
      PROVE  IsFiniteSet(S) /\ Cardinality(S) \in Nat /\ Cardinality(S) <= Cardinality(Coming(b))
  <2>1. IsFiniteSet(S) /\ Cardinality(S) <= Cardinality(Coming(b))
    BY <1>2, <1>4, FS_Subset
  <2>2. Cardinality(S) \in Nat
    BY <2>1, FS_CardinalityType
  <2> QED BY <2>1, <2>2
<1> QED BY <1>2, <1>3, <1>4

(* Ahead of t are neither t nor the thread that runs.                      *)
LEMMA AheadCounts ==
    ASSUME IsFiniteSet(Threads), NEW b, NEW q, NEW c \in Coming(b), NEW t \in Coming(b), c # t
    PROVE  /\ IsFiniteSet(Ahead(b, q, c, t)) /\ Cardinality(Ahead(b, q, c, t)) \in Nat
           /\ Cardinality(Coming(b)) - 1 \in Nat
           /\ Cardinality(Ahead(b, q, c, t)) + 1 <= Cardinality(Coming(b)) - 1
<1> DEFINE C == Coming(b)
           D == C \ {c}
           E == D \ {t}
<1>1. IsFiniteSet(C) /\ Cardinality(C) \in Nat
    BY ComingCounts
<1>2. IsFiniteSet(D) /\ Cardinality(D) = Cardinality(C) - 1
  <2> HIDE DEF C
  <2>1. c \in C
    BY DEF C
  <2> QED BY <1>1, <2>1, FS_RemoveElement
<1>3. IsFiniteSet(E) /\ Cardinality(E) = Cardinality(D) - 1
  <2>1. t \in D
    OBVIOUS
  <2> HIDE DEF D
  <2> QED BY <1>2, <2>1, FS_RemoveElement
<1>4. Ahead(b, q, c, t) \in SUBSET E
    BY DEF Ahead, Coming
<1> HIDE DEF C, D, E
<1>5. Cardinality(E) \in Nat
    BY <1>3, FS_CardinalityType
<1>6. IsFiniteSet(Ahead(b, q, c, t)) /\ Cardinality(Ahead(b, q, c, t)) <= Cardinality(E)
    BY <1>3, <1>4, FS_Subset
<1>7. Cardinality(Ahead(b, q, c, t)) \in Nat
    BY <1>6, FS_CardinalityType
<1>8. Cardinality(C) - 1 \in Nat /\ Cardinality(Ahead(b, q, c, t)) + 1 <= Cardinality(C) - 1
    BY <1>1, <1>2, <1>3, <1>5, <1>6, <1>7
<1> QED BY <1>6, <1>7, <1>8 DEF C

(* A round that begins lasts a quantum for every other thread at most.     *)
LEMMA RoundBegins ==
    ASSUME IsFiniteSet(Threads), NEW b, NEW q, NEW c \in Threads, NEW t \in Coming(b), c # t,
           b[c].state = "RUNNING", b[c].ticks \in 1..REALTIME
    PROVE  /\ StillToWait(b, q, c, t) \in Nat /\ Rounds(Cardinality(Coming(b))) * REALTIME \in Nat
           /\ StillToWait(b, q, c, t) <= Rounds(Cardinality(Coming(b))) * REALTIME
<1> DEFINE A == Cardinality(Ahead(b, q, c, t))
           D == Cardinality(Coming(b)) - 1
           k == b[c].ticks
<1>1. c \in Coming(b)
    BY DEF Coming, Living
<1>2. A \in Nat /\ D \in Nat /\ A + 1 <= D /\ Cardinality(Coming(b)) = D + 1
  <2>1. Cardinality(Coming(b)) \in Nat
    BY ComingCounts
  <2> QED BY <1>1, <2>1, AheadCounts
<1>3. StillToWait(b, q, c, t) = k + (A + Rounds(D)) * REALTIME
    BY DEF StillToWait
<1>4. REALTIME \in Nat /\ k \in Nat /\ k <= REALTIME
    BY SchedulerAssumption
<1> HIDE DEF A, D, k
<1>5. Rounds(D) \in Nat /\ Rounds(D + 1) = Rounds(D) + D /\ Rounds(D + 1) \in Nat
    BY <1>2, RoundsStep
<1>6. A + Rounds(D) \in Nat /\ (A + Rounds(D)) + 1 \in Nat /\ (A + Rounds(D)) + 1 <= Rounds(D + 1)
    BY <1>2, <1>5
<1>7. /\ (A + Rounds(D)) * REALTIME \in Nat /\ Rounds(D + 1) * REALTIME \in Nat
      /\ ((A + Rounds(D)) + 1) * REALTIME = (A + Rounds(D)) * REALTIME + REALTIME
      /\ ((A + Rounds(D)) + 1) * REALTIME <= Rounds(D + 1) * REALTIME
    BY <1>5, <1>6, QuantaLess
<1> QED BY <1>2, <1>3, <1>4, <1>7

(* As long as c runs, or is dead, nobody comes in between.                 *)
LEMMA StillLess ==
    ASSUME IsFiniteSet(Threads), NEW b, NEW q, NEW d, NEW r, NEW c \in Threads, NEW t, c # t,
           t \in Coming(d), Coming(d) \subseteq Coming(b), Ahead(d, r, c, t) \subseteq Ahead(b, q, c, t),
           b[c].state = d[c].state, b[c].ticks \in Nat, d[c].ticks \in Nat,
           b[c].state # "RUNNING" \/ c \in Coming(d)
    PROVE  /\ StillToWait(b, q, c, t) \in Nat /\ StillToWait(d, r, c, t) \in Nat
           /\ b[c].state = "RUNNING" =>
                StillToWait(d, r, c, t) + b[c].ticks <= StillToWait(b, q, c, t) + d[c].ticks
           /\ b[c].state # "RUNNING" => StillToWait(d, r, c, t) <= StillToWait(b, q, c, t)
<1> DEFINE M == Cardinality(Coming(d))
           N == Cardinality(Coming(b))
           X == Cardinality(Ahead(d, r, c, t))
           Y == Cardinality(Ahead(b, q, c, t))
           x == d[c].ticks
           y == b[c].ticks
<1>1. M \in Nat /\ N \in Nat /\ M <= N
    BY ComingCounts
<1>2. CASE b[c].state # "RUNNING"
  <2>1. StillToWait(d, r, c, t) = 1 + Rounds(M) * REALTIME
    BY <1>2 DEF StillToWait
  <2>2. StillToWait(b, q, c, t) = 1 + Rounds(N) * REALTIME
    BY <1>2 DEF StillToWait
  <2> HIDE DEF M, N
  <2>3. Rounds(M) \in Nat /\ Rounds(N) \in Nat /\ Rounds(M) <= Rounds(N)
    <3>1. Rounds(M) \in Nat /\ Rounds(N) \in Nat
      BY <1>1, RoundsStep
    <3> QED BY <1>1, <3>1, RoundsLess
  <2>4. /\ Rounds(M) * REALTIME \in Nat /\ Rounds(N) * REALTIME \in Nat
        /\ Rounds(M) * REALTIME <= Rounds(N) * REALTIME
    BY <2>3, QuantaLess
  <2> QED BY <1>2, <2>1, <2>2, <2>4
<1>3. CASE b[c].state = "RUNNING"
  <2>1. StillToWait(d, r, c, t) = x + (X + Rounds(M - 1)) * REALTIME
    BY <1>3 DEF StillToWait
  <2>2. StillToWait(b, q, c, t) = y + (Y + Rounds(N - 1)) * REALTIME
    BY <1>3 DEF StillToWait
  <2>3. /\ c \in Coming(d) /\ t \in Coming(d) /\ c \in Coming(b) /\ t \in Coming(b)
    BY <1>3
  <2>4. M - 1 \in Nat /\ X \in Nat
    BY <2>3, AheadCounts
  <2>5. N - 1 \in Nat /\ Y \in Nat /\ IsFiniteSet(Ahead(b, q, c, t))
    BY <2>3, AheadCounts
  <2>6. X <= Y
    BY <2>5, FS_Subset
  <2>7. x \in Nat /\ y \in Nat
    OBVIOUS
  <2> HIDE DEF M, N, X, Y, x, y
  <2>8. Rounds(M - 1) \in Nat /\ Rounds(N - 1) \in Nat /\ Rounds(M - 1) <= Rounds(N - 1)
    <3>1. Rounds(M - 1) \in Nat /\ Rounds(N - 1) \in Nat
      BY <2>4, <2>5, RoundsStep
    <3>2. M - 1 <= N - 1
      BY <1>1
    <3> QED BY <2>4, <2>5, <3>1, <3>2, RoundsLess
  <2>9. /\ (X + Rounds(M - 1)) * REALTIME \in Nat /\ (Y + Rounds(N - 1)) * REALTIME \in Nat
        /\ (X + Rounds(M - 1)) * REALTIME <= (Y + Rounds(N - 1)) * REALTIME
    <3>1. X + Rounds(M - 1) \in Nat /\ Y + Rounds(N - 1) \in Nat
          /\ X + Rounds(M - 1) <= Y + Rounds(N - 1)
      BY <2>4, <2>5, <2>6, <2>8
    <3> QED BY <3>1, QuantaLess
  <2>10. /\ StillToWait(b, q, c, t) \in Nat /\ StillToWait(d, r, c, t) \in Nat
         /\ StillToWait(d, r, c, t) + y <= StillToWait(b, q, c, t) + x
    BY <2>1, <2>2, <2>7, <2>9
  <2> QED BY <1>3, <2>10 DEF x, y
<1> QED BY <1>2, <1>3

(* Putting n, which was ahead, on the CPU uses up a quantum of the wait.   *)
LEMMA StillNext ==
    ASSUME IsFiniteSet(Threads), NEW b, NEW q, NEW d, NEW r, NEW c \in Threads, NEW t, c # t,
           t \in Coming(b), Coming(d) = Coming(b),
           b[c].state = "RUNNING", b[c].ticks \in Nat \ {0},
           NEW n \in Ahead(b, q, c, t), Ahead(d, r, n, t) \subseteq Ahead(b, q, c, t) \ {n},
           d[n].state = "RUNNING", d[n].ticks \in 1..REALTIME
    PROVE  /\ StillToWait(b, q, c, t) \in Nat /\ StillToWait(d, r, n, t) \in Nat
           /\ StillToWait(d, r, n, t) + 1 <= StillToWait(b, q, c, t)
<1> DEFINE N == Cardinality(Coming(b))
           X == Cardinality(Ahead(d, r, n, t))
           Y == Cardinality(Ahead(b, q, c, t))
           x == d[n].ticks
           y == b[c].ticks
<1>1. /\ c \in Coming(b) /\ n \in Threads /\ n # t
    BY DEF Coming, Living, Ahead
<1>2. N - 1 \in Nat /\ Y \in Nat /\ IsFiniteSet(Ahead(b, q, c, t))
    BY <1>1, AheadCounts
<1>3. X \in Nat /\ X + 1 <= Y
  <2>1. /\ IsFiniteSet(Ahead(b, q, c, t) \ {n})
        /\ Cardinality(Ahead(b, q, c, t) \ {n}) = Y - 1
    BY <1>2, FS_RemoveElement
  <2>2. IsFiniteSet(Ahead(d, r, n, t)) /\ X <= Cardinality(Ahead(b, q, c, t) \ {n})
    BY <2>1, FS_Subset
  <2>3. X \in Nat
    BY <2>2, FS_CardinalityType
  <2> HIDE DEF X, Y
  <2> QED BY <1>2, <2>1, <2>2, <2>3
<1>4. StillToWait(d, r, n, t) = x + (X + Rounds(N - 1)) * REALTIME
    BY DEF StillToWait
<1>5. StillToWait(b, q, c, t) = y + (Y + Rounds(N - 1)) * REALTIME
    BY DEF StillToWait
<1>6. x \in Nat /\ x <= REALTIME /\ y \in Nat /\ 1 <= y /\ REALTIME \in Nat
    BY SchedulerAssumption
<1> HIDE DEF N, X, Y, x, y
<1>7. Rounds(N - 1) \in Nat
    BY <1>2, RoundsStep
<1>8. /\ X + Rounds(N - 1) \in Nat /\ Y + Rounds(N - 1) \in Nat
      /\ (X + Rounds(N - 1)) + 1 \in Nat /\ (X + Rounds(N - 1)) + 1 <= Y + Rounds(N - 1)
    BY <1>2, <1>3, <1>7
<1>9. /\ (X + Rounds(N - 1)) * REALTIME \in Nat /\ (Y + Rounds(N - 1)) * REALTIME \in Nat
      /\ ((X + Rounds(N - 1)) + 1) * REALTIME = (X + Rounds(N - 1)) * REALTIME + REALTIME
      /\ ((X + Rounds(N - 1)) + 1) * REALTIME <= (Y + Rounds(N - 1)) * REALTIME
    BY <1>8, QuantaLess
<1> QED BY <1>4, <1>5, <1>6, <1>9

(* A thread that exits leaves one round less.                              *)
LEMMA StillExit ==
    ASSUME IsFiniteSet(Threads), NEW b, NEW q, NEW d, NEW c \in Threads, NEW t, c # t,
           t \in Coming(b), Coming(d) = Coming(b) \ {c},
           b[c].state = "RUNNING", b[c].ticks \in Nat \ {0}, d[c].state = "DEAD"
    PROVE  /\ StillToWait(b, q, c, t) \in Nat /\ StillToWait(d, q, c, t) \in Nat
           /\ StillToWait(d, q, c, t) <= StillToWait(b, q, c, t)
<1> DEFINE N == Cardinality(Coming(b))
           Y == Cardinality(Ahead(b, q, c, t))
           y == b[c].ticks
<1>1. c \in Coming(b)
    BY DEF Coming, Living
<1>2. N - 1 \in Nat /\ Y \in Nat /\ Cardinality(Coming(d)) = N - 1
  <2>1. IsFiniteSet(Coming(b))
    BY ComingCounts
  <2> QED BY <1>1, <2>1, AheadCounts, FS_RemoveElement
<1>3. StillToWait(b, q, c, t) = y + (Y + Rounds(N - 1)) * REALTIME
    BY DEF StillToWait
<1>4. StillToWait(d, q, c, t) = 1 + Rounds(N - 1) * REALTIME
    BY <1>2 DEF StillToWait
<1>5. y \in Nat /\ 1 <= y
    OBVIOUS
<1> HIDE DEF N, Y, y
<1>6. Rounds(N - 1) \in Nat
    BY <1>2, RoundsStep
<1>7. /\ Rounds(N - 1) * REALTIME \in Nat /\ (Y + Rounds(N - 1)) * REALTIME \in Nat
      /\ Rounds(N - 1) * REALTIME <= (Y + Rounds(N - 1)) * REALTIME
  <2>1. Y + Rounds(N - 1) \in Nat /\ Rounds(N - 1) <= Y + Rounds(N - 1)
    BY <1>2, <1>6
  <2> QED BY <1>6, <2>1, QuantaLess
<1> QED BY <1>3, <1>4, <1>5, <1>7

(* A stage that leaves the turn and the wait of a thread as they are.      *)
SameWait(x, y) ==
    SameTurn(x, y) /\ y.prio = x.prio /\ y.wait = x.wait /\ y.wake = x.wake

(* Charging a thread is not about its turn.                                *)
LEMMA ChargeKeepsWait ==
    ASSUME NEW x, BlockOK(x), Allocated(x), NEW ms \in Nat
    PROVE  SameWait(x, ChargeBlock(x, ms))
<1>1. ASSUME NEW z \in ThreadBlock PROVE SameWait(z, thread_charge_cpu(z, ms))
  <2>1. ASSUME NEW c PROVE SameWait(z, [z EXCEPT !.cpu = c])
    BY DEF SameWait, SameTurn, ThreadBlock
  <2>2. ASSUME NEW c, NEW d PROVE SameWait(z, [z EXCEPT !.dyn = d, !.cpu = c])
    BY DEF SameWait, SameTurn, ThreadBlock
  <2> DEFINE A == Allotment(z)
             d == z.dyn - ((z.cpu + ms) \div A)
             c == (z.cpu + ms) % A
  <2>4. \/ thread_charge_cpu(z, ms) = [z EXCEPT !.cpu = 0]
        \/ thread_charge_cpu(z, ms) = [z EXCEPT !.dyn = d, !.cpu = c]
        \/ thread_charge_cpu(z, ms) = [z EXCEPT !.dyn = 1, !.cpu = 0]
    BY DEF thread_charge_cpu
  <2>5. SameWait(z, [z EXCEPT !.cpu = 0]) /\ SameWait(z, [z EXCEPT !.dyn = 1, !.cpu = 0])
    BY <2>1, <2>2
  <2>6. SameWait(z, [z EXCEPT !.dyn = d, !.cpu = c])
    <3> HIDE DEF d, c
    <3> QED BY <2>2
  <2> HIDE DEF d, c
  <2> QED BY <2>4, <2>5, <2>6, Zenon
<1>2. ASSUME NEW z \in ThreadBlock PROVE SameWait(z, thread_recover(z))
    BY DEF SameWait, SameTurn, ThreadBlock, thread_recover
<1>3. x \in ThreadBlock /\ thread_charge_cpu(x, ms) \in ThreadBlock
    BY ChargeOK DEF KeepsOK, BlockOK
<1>4. SameWait(x, thread_charge_cpu(x, ms))
    BY <1>1, <1>3
<1>5. SameWait(thread_charge_cpu(x, ms), thread_recover(thread_charge_cpu(x, ms)))
    BY <1>2, <1>3
<1>6. SameWait(x, thread_recover(thread_charge_cpu(x, ms)))
  <2> DEFINE y == thread_charge_cpu(x, ms)
             z == thread_recover(y)
  <2> HIDE DEF y, z
  <2>1. SameWait(x, y) /\ SameWait(y, z)
    BY <1>4, <1>5 DEF y, z
  <2>2. SameWait(x, z)
    BY <2>1 DEF SameWait, SameTurn
  <2> QED BY <2>2 DEF y, z
<1> QED BY <1>4, <1>6 DEF ChargeBlock

(* What pass 1 does to the wait of a thread, that keeps it READY, wakes it *)
(* or finds it otherwise engaged.                                          *)
LEMMA PassWaits ==
    ASSUME WaitBound \in Nat, NEW x, BlockOK(x), NEW ms \in Nat,
           NEW y, y = PassBlock(x, ms)
    PROVE  /\ y.ticks = x.ticks /\ y.prio = x.prio
           /\ x.state = "SLEEPING" /\ x.wake > ms => y.state = "SLEEPING"
           /\ y.state = "RUNNING" => y.wait = 0 /\ y.boosted = x.boosted
           /\ y.state \in {"SLEEPING", "BLOCKED"} => y.wait = 0 /\ y.boosted = x.boosted
           /\ y.state = "READY" /\ x.wait <= WaitBound =>
                /\ y.wait = x.wait + ms
                /\ y.boosted <=> x.boosted \/ y.wait >= STARVATION_MS
<1> DEFINE e == Elapse(x, ms)
           w == WakeSleeper(e)
           a == AgeRecover(w)
<1>1. /\ e \in ThreadBlock /\ e.ticks = x.ticks /\ e.prio = x.prio /\ e.boosted = x.boosted
      /\ e.wait = IF x.wait > WaitBound THEN x.wait ELSE x.wait + ms
      /\ e.state = x.state /\ (x.wake > ms => e.wake # 0)
  <2>1. e \in ThreadBlock /\ x \in ThreadBlock
    BY ElapseOK DEF KeepsOK, BlockOK
  <2> DEFINE r == x.rec + ms
             v == IF x.wait > WaitBound THEN x.wait ELSE x.wait + ms
             k == IF x.wake > ms THEN x.wake - ms ELSE 0
  <2>2. e = [x EXCEPT !.rec = r, !.wait = v, !.wake = k]
    BY DEF Elapse
  <2> HIDE DEF e, r, v, k
  <2>3. /\ e.ticks = x.ticks /\ e.prio = x.prio /\ e.boosted = x.boosted /\ e.wait = v
        /\ e.state = x.state /\ e.wake = k
    BY <2>1, <2>2 DEF ThreadBlock
  <2>4. x.wake > ms => k # 0
    BY <2>1 DEF k, ThreadBlock
  <2> QED BY <2>1, <2>3, <2>4 DEF v
<1> HIDE DEF e
<1>2. /\ w \in ThreadBlock /\ w.ticks = e.ticks /\ w.prio = e.prio
      /\ w.boosted = e.boosted /\ w.wait = e.wait
      /\ x.state = "SLEEPING" /\ x.wake > ms => w.state = "SLEEPING"
    BY <1>1 DEF WakeSleeper, ThreadBlock
<1>3. PassBlock(x, ms) = IF w.state = "DEAD" THEN w ELSE thread_age(w)
    BY DEF PassBlock, e
<1>4. BlockOK(w)
  <2>1. BlockOK(e)
    BY ElapseOK DEF KeepsOK, e
  <2> DEFINE z == [e EXCEPT !.state = "READY"]
  <2>2. z \in ThreadBlock /\ z.prio = e.prio /\ z.dyn = e.dyn /\ z.cpu = e.cpu
    BY <1>1 DEF ThreadBlock
  <2>3. e.state = "SLEEPING" => BlockOK(z)
    <3> HIDE DEF z
    <3> QED BY <2>1, <2>2, StateOK DEF Allocated
  <2>4. w = IF e.state = "SLEEPING" /\ e.wake = 0 THEN z ELSE e
    BY DEF WakeSleeper
  <2> HIDE DEF w, z
  <2> QED BY <2>1, <2>3, <2>4
<1> HIDE DEF w
<1>5. /\ a \in ThreadBlock /\ a.state = w.state /\ a.ticks = w.ticks /\ a.prio = w.prio
      /\ a.boosted = w.boosted /\ a.wait = w.wait
  <2> DEFINE z == thread_recover(w)
  <2>1. z \in ThreadBlock
    BY <1>4, RecoverOK DEF KeepsOK, BlockOK
  <2>2. /\ z.state = w.state /\ z.ticks = w.ticks /\ z.prio = w.prio
        /\ z.boosted = w.boosted /\ z.wait = w.wait
    BY <1>2 DEF thread_recover, ThreadBlock
  <2> HIDE DEF z
  <2>3. /\ [z EXCEPT !.rec = 0] \in ThreadBlock /\ [z EXCEPT !.rec = 0].state = z.state
        /\ [z EXCEPT !.rec = 0].ticks = z.ticks /\ [z EXCEPT !.rec = 0].prio = z.prio
        /\ [z EXCEPT !.rec = 0].boosted = z.boosted /\ [z EXCEPT !.rec = 0].wait = z.wait
    BY <2>1 DEF ThreadBlock
  <2>4. a = IF w.rec >= RECOVER_MS THEN [z EXCEPT !.rec = 0] ELSE w
    BY DEF AgeRecover, z
  <2> HIDE DEF a
  <2> QED BY <1>2, <2>2, <2>3, <2>4
<1>6. thread_age(w) = IF w.state = "RUNNING" THEN [w EXCEPT !.rec = 0, !.wait = 0]
                      ELSE AgeStarve(a)
    BY DEF thread_age
<1> HIDE DEF a
<1>7. CASE w.state = "DEAD"
    BY <1>1, <1>2, <1>3, <1>7
<1>8. CASE w.state = "RUNNING"
  <2>1. y = [w EXCEPT !.rec = 0, !.wait = 0]
    BY <1>3, <1>6, <1>8
  <2>2. /\ y.state = "RUNNING" /\ y.ticks = w.ticks /\ y.prio = w.prio
        /\ y.boosted = w.boosted /\ y.wait = 0
    BY <1>2, <1>8, <2>1 DEF ThreadBlock
  <2>3. ~(x.state = "SLEEPING" /\ x.wake > ms)
    BY <1>2, <1>8
  <2> QED BY <1>1, <1>2, <2>2, <2>3
<1>9. CASE w.state \notin {"DEAD", "RUNNING"} /\ w.state # "READY"
  <2>1. y = [a EXCEPT !.wait = 0]
    BY <1>3, <1>5, <1>6, <1>9 DEF AgeStarve
  <2>2. /\ y.state = w.state /\ y.ticks = w.ticks /\ y.prio = w.prio
        /\ y.boosted = w.boosted /\ y.wait = 0
    BY <1>5, <2>1 DEF ThreadBlock
  <2> QED BY <1>1, <1>2, <1>9, <2>2
<1>10. CASE w.state = "READY"
  <2> DEFINE f == a.boosted \/ a.wait >= STARVATION_MS
  <2>1. y = [a EXCEPT !.boosted = f]
    BY <1>3, <1>5, <1>6, <1>10 DEF AgeStarve
  <2>2. f \in BOOLEAN
    BY <1>5 DEF ThreadBlock
  <2>3. /\ y.state = "READY" /\ y.ticks = w.ticks /\ y.prio = w.prio
        /\ y.boosted = f /\ y.wait = w.wait
    <3> HIDE DEF f
    <3> QED BY <1>5, <1>10, <2>1, <2>2 DEF ThreadBlock
  <2>4. x.wait <= WaitBound => y.wait = x.wait + ms
    <3>1. x.wait \in Nat
      BY DEF BlockOK, ThreadBlock
    <3>2. ~(x.wait <= WaitBound /\ x.wait > WaitBound)
      BY <3>1
    <3> QED BY <1>1, <1>2, <2>3, <3>2
  <2>5. ~(x.state = "SLEEPING" /\ x.wake > ms)
    BY <1>2, <1>10
  <2> QED BY <1>1, <1>2, <1>5, <2>3, <2>4, <2>5
<1> QED BY <1>7, <1>8, <1>9, <1>10

(* The bound of the wait: a boost, and a round of the others.              *)
LEMMA WaitBoundIs ==
    ASSUME IsFiniteSet(Threads)
    PROVE  /\ WaitBound = STARVATION_MS + Rounds(Cardinality(Threads)) * REALTIME
           /\ Rounds(Cardinality(Threads)) * REALTIME \in Nat /\ WaitBound \in Nat
<1>1. Cardinality(Threads) \in Nat
    BY FS_CardinalityType
<1>2. Rounds(Cardinality(Threads)) \in Nat
    BY <1>1, RoundsStep
<1>3. Rounds(Cardinality(Threads)) * REALTIME \in Nat
    BY <1>2, QuantaLess
<1>4. WaitBound = STARVATION_MS + Rounds(Cardinality(Threads)) * REALTIME
    BY DEF WaitBound, Rounds
<1> QED BY <1>3, <1>4, SchedulerAssumption

(* What the table that the handler chooses from holds of a thread in the   *)
(* queue, of its turn and of its wait.                                     *)
PreparedTurn(b, p, ms, t) ==
    /\ p[t].ticks = b[t].ticks /\ p[t].prio = b[t].prio
    /\ t # current =>
         /\ p[t].state \in {"SLEEPING", "BLOCKED"} => p[t].wait = 0 /\ p[t].boosted = b[t].boosted
         /\ p[t].state = "READY" /\ b[t].wait <= WaitBound =>
              /\ p[t].wait = b[t].wait + ms
              /\ p[t].boosted <=> b[t].boosted \/ p[t].wait >= STARVATION_MS
    /\ t = current =>
         /\ p[t].state \in {"RUNNING", "SLEEPING", "BLOCKED"} => p[t].wait = 0
         /\ ~Continues(p) => ~p[t].boosted
         /\ b[t].state = "SLEEPING" /\ b[t].wake > ms => p[t].state = "SLEEPING"

(* Aging and charging give every thread of the queue its turn.             *)
LEMMA PreparedTurns ==
    ASSUME WaitBound \in Nat, NEW b, EntryOK(b), QueueOK(b), NEW ms \in Nat,
           NEW t \in Threads, t \in InQueue
    PROVE  PreparedTurn(b, Prepared(b, ms), ms, t)
<1> DEFINE r == Reaped(b)
           c == Charged(r, ms)
           p == Pass1(c, ms)
           u == Unboosted(p)
<1>1. /\ Sound(r) /\ OnlyCurrentRuns(r) /\ (current # Idle => r[current] = b[current])
      /\ current \in Threads \cup {Idle} /\ t \notin reap /\ Allocated(b[t]) /\ r[t] = b[t]
    BY ReapedOK DEF EntryOK, QueueOK, Reaped
<1>2. Sound(c) /\ OnlyCurrentRuns(c)
  <2> HIDE DEF r
  <2> QED BY <1>1, ChargedOK DEF EntryOK
<1>3. Sound(p) /\ OnlyCurrentRuns(p)
  <2> HIDE DEF c
  <2> QED BY <1>2, Pass1OK
<1>4. SameWait(b[t], c[t])
  <2>1. BlockOK(b[t])
    BY DEF EntryOK, Sound, BlockOK
  <2>2. SameWait(b[t], b[t]) /\ SameWait(b[t], ChargeBlock(b[t], ms))
    BY <1>1, <2>1, ChargeKeepsWait DEF SameWait, SameTurn
  <2>3. c[t] = IF t = current /\ r[t].state # "DEAD" THEN ChargeBlock(r[t], ms) ELSE r[t]
    BY DEF Charged
  <2> HIDE DEF c, r
  <2> QED BY <1>1, <2>2, <2>3
<1>5. p[t] = PassBlock(c[t], ms)
    BY DEF Pass1
<1>6. u[t] = IF t = current /\ ~Continues(p) THEN [p[t] EXCEPT !.boosted = FALSE] ELSE p[t]
    BY DEF Unboosted
<1>7. u = Prepared(b, ms)
    BY DEF Prepared
<1>8. Continues(u) <=> Continues(p)
  <2>1. \A v \in Threads : u[v] = IF v = current /\ ~Continues(p)
                                  THEN [p[v] EXCEPT !.boosted = FALSE] ELSE p[v]
    BY DEF Unboosted
  <2> HIDE DEF p, u
  <2>2. \A v \in Threads : u[v].state = p[v].state /\ u[v].ticks = p[v].ticks
    BY <1>3, <2>1 DEF Sound, ThreadBlock
  <2> QED BY <1>1, <2>2 DEF Continues
<1>9. BlockOK(c[t]) /\ p[t] \in ThreadBlock
    BY <1>2, <1>3 DEF Sound, BlockOK
<1> HIDE DEF r, c, p, u
<1>10. /\ p[t].ticks = c[t].ticks /\ p[t].prio = c[t].prio
       /\ c[t].state = "SLEEPING" /\ c[t].wake > ms => p[t].state = "SLEEPING"
       /\ p[t].state = "RUNNING" => p[t].wait = 0 /\ p[t].boosted = c[t].boosted
       /\ p[t].state \in {"SLEEPING", "BLOCKED"} => p[t].wait = 0 /\ p[t].boosted = c[t].boosted
       /\ p[t].state = "READY" /\ c[t].wait <= WaitBound =>
            /\ p[t].wait = c[t].wait + ms
            /\ p[t].boosted <=> c[t].boosted \/ p[t].wait >= STARVATION_MS
    BY <1>5, <1>9, PassWaits
<1>11. /\ u[t].ticks = p[t].ticks /\ u[t].prio = p[t].prio /\ u[t].state = p[t].state
       /\ u[t].wait = p[t].wait
       /\ t # current => u[t].boosted = p[t].boosted
       /\ t = current /\ ~Continues(p) => ~u[t].boosted
    BY <1>6, <1>9 DEF ThreadBlock
<1>12. PreparedTurn(b, u, ms, t)
    BY <1>4, <1>8, <1>10, <1>11 DEF PreparedTurn, SameWait, SameTurn
<1> QED BY <1>7, <1>12

(* What the choice does to turns and waits: the quantum goes on, or prev   *)
(* gets a fresh one.                                                       *)
LEMMA ChooseTurns ==
    ASSUME NEW p, Sound(p), OnlyCurrentRuns(p), current \in Threads \cup {Idle},
           NEW q, Choose(p, q)
    PROVE  /\ \A t \in Threads : /\ blk'[t].prio = p[t].prio /\ blk'[t].wait = p[t].wait
                                 /\ blk'[t].boosted = p[t].boosted
           /\ \/ /\ Continues(p) /\ current' = current
                 /\ \A t \in Threads :
                       blk'[t].ticks = IF t = current THEN p[t].ticks - 1 ELSE p[t].ticks
              \/ /\ \/ current' = Idle /\ Candidates(p) = {}
                    \/ /\ current' \in Threads /\ IsNext(p, q, current')
                       /\ ~(Continues(p) /\ MaxPriority(p, current))
                 /\ \A t \in Threads :
                       blk'[t].ticks = IF t = current THEN p[t].prio ELSE p[t].ticks
<1>1. p \in [Threads -> ThreadBlock] /\ \A t \in Threads : p[t] \in ThreadBlock
    BY DEF Sound
<1>2. ASSUME NEW n, SwitchTo(p, n)
      PROVE  \A t \in Threads :
                /\ blk'[t].prio = p[t].prio /\ blk'[t].wait = p[t].wait
                /\ blk'[t].boosted = p[t].boosted
                /\ blk'[t].ticks = IF t = current THEN p[t].prio ELSE p[t].ticks
  <2> TAKE t \in Threads
  <2> DEFINE x == IF t = current THEN RetireBlock(p[t]) ELSE p[t]
  <2>1. blk'[t] = IF t = n THEN [x EXCEPT !.state = "RUNNING"] ELSE x
    BY <1>2 DEF SwitchTo
  <2>2. p[t] \in ThreadBlock
    BY <1>1
  <2>3. /\ x \in ThreadBlock /\ x.prio = p[t].prio /\ x.wait = p[t].wait
        /\ x.boosted = p[t].boosted
        /\ x.ticks = IF t = current THEN p[t].prio ELSE p[t].ticks
    <3>1. RetireBlock(p[t]) \in ThreadBlock
      BY <2>2, RetireOK DEF BlockOK, Sound
    <3> DEFINE y == p[t]
               s == IF y.state = "RUNNING" THEN "READY" ELSE y.state
    <3>2. RetireBlock(y) = [y EXCEPT !.ticks = y.prio, !.state = s]
      BY DEF RetireBlock
    <3> HIDE DEF y, s
    <3>3. y \in ThreadBlock
      BY <2>2 DEF y
    <3>4. /\ RetireBlock(y).prio = y.prio /\ RetireBlock(y).wait = y.wait
          /\ RetireBlock(y).boosted = y.boosted /\ RetireBlock(y).ticks = y.prio
      BY <3>2, <3>3 DEF ThreadBlock
    <3> QED BY <2>2, <3>1, <3>4 DEF y
  <2> HIDE DEF x
  <2> QED BY <2>1, <2>3 DEF ThreadBlock
<1>3. CASE Candidates(p) = {} /\ SwitchTo(p, Idle)
  <2>1. current' = Idle
    BY <1>3 DEF SwitchTo
  <2> QED BY <1>2, <1>3, <2>1
<1>4. CASE Continues(p) /\ MaxPriority(p, current) /\ StayOn(p)
  <2>1. current \in Threads /\ current' = current
    BY <1>4 DEF Continues, StayOn
  <2> DEFINE x == p[current]
             k == x.ticks - 1
  <2>2. blk' = [p EXCEPT ![current] = [x EXCEPT !.ticks = k]]
    BY <1>4 DEF StayOn
  <2>3. x \in ThreadBlock
    BY <1>1, <2>1
  <2>4. \A t \in Threads : blk'[t] = IF t = current THEN [x EXCEPT !.ticks = k] ELSE p[t]
    BY <1>1, <2>2, <2>3
  <2>5. /\ [x EXCEPT !.ticks = k].prio = x.prio /\ [x EXCEPT !.ticks = k].wait = x.wait
        /\ [x EXCEPT !.ticks = k].boosted = x.boosted /\ [x EXCEPT !.ticks = k].ticks = k
    <3> HIDE DEF x, k
    <3> QED BY <2>3 DEF ThreadBlock
  <2>6. \A t \in Threads : /\ blk'[t].prio = p[t].prio /\ blk'[t].wait = p[t].wait
                           /\ blk'[t].boosted = p[t].boosted
                           /\ blk'[t].ticks = IF t = current THEN p[t].ticks - 1 ELSE p[t].ticks
    <3> TAKE t \in Threads
    <3>1. CASE t = current
      BY <2>4, <2>5, <3>1
    <3>2. CASE t # current
      BY <2>4, <3>2
    <3> QED BY <3>1, <3>2
  <2> QED BY <1>4, <2>1, <2>6
<1>5. CASE /\ ~(Continues(p) /\ MaxPriority(p, current))
           /\ \E n \in Threads : IsNext(p, q, n) /\ SwitchTo(p, n)
  <2>1. PICK n \in Threads : IsNext(p, q, n) /\ SwitchTo(p, n)
    BY <1>5
  <2>2. current' = n
    BY <2>1 DEF SwitchTo
  <2> QED BY <1>2, <1>5, <2>1, <2>2
<1> QED BY <1>3, <1>4, <1>5 DEF Choose

(* The position of a member of a list without repetitions.                 *)
LEMMA PositionIs ==
    ASSUME NEW q \in Seq(Threads), \A i, j \in 1..Len(q) : q[i] = q[j] => i = j,
           NEW i \in 1..Len(q)
    PROVE  PositionIn(q, q[i]) = i
BY DEF PositionIn

(* The search from behind c reaches n before t: n is between them, and so  *)
(* is who is between n and t.                                              *)
LEMMA NextIsAhead ==
    ASSUME NEW p, NEW q \in Seq(Threads), \A i, j \in 1..Len(q) : q[i] = q[j] => i = j,
           current # Idle, p[current].state # "DEAD",
           NEW a \in 1..Len(q), q[a] = current,
           NEW e \in 1..Len(q), NEW f \in 1..Len(q),
           Distance(p, q, q[e]) < Distance(p, q, q[f])
    PROVE  /\ IsBetween(q, current, q[e], q[f]) /\ q[e] # current
           /\ \A u : IsBetween(q, q[e], u, q[f]) => IsBetween(q, current, u, q[f])
<1>1. Len(q) \in Nat \ {0}
    OBVIOUS
<1>2. PositionIn(q, current) = a /\ PositionIn(q, q[e]) = e /\ PositionIn(q, q[f]) = f
    BY PositionIs
<1>3. (e - (a + 1) + Len(q)) % Len(q) < (f - (a + 1) + Len(q)) % Len(q)
    BY <1>2 DEF Distance
<1>4. Passes(a, e, f)
    BY <1>1, <1>3, NearerPasses
<1>5. q[e] # current
  <2>1. e # a
    BY <1>4 DEF Passes
  <2> QED BY <2>1
<1>6. ASSUME NEW u, IsBetween(q, q[e], u, q[f])
      PROVE  IsBetween(q, current, u, q[f])
  <2>1. PICK i \in 1..Len(q), k \in 1..Len(q), j \in 1..Len(q) :
            q[i] = q[e] /\ q[k] = u /\ q[j] = q[f] /\ Passes(i, k, j)
    BY <1>6 DEF IsBetween
  <2>2. i = e /\ j = f
    BY <2>1
  <2>3. Passes(a, k, f)
    BY <1>4, <2>1, <2>2, PassesOn
  <2> QED BY <2>1, <2>3 DEF IsBetween
<1> QED BY <1>4, <1>5, <1>6 DEF IsBetween

(* An entry of the scheduler: from the timer, one millisecond later, or    *)
(* from the running thread, that gives up the rest of its quantum.         *)
Enters(b, ms) ==
    /\ EntryOK(b) /\ QueueOK(b)
    /\ \A t \in Threads : t # current => b[t] = blk[t]
    /\ \/ ms = 1 /\ b = blk
       \/ /\ ms = 0 /\ current \in Threads /\ blk[current].state = "RUNNING"
          /\ b[current].ticks = 0
          /\ b[current].state \in {"RUNNING", "SLEEPING", "BLOCKED"}
          /\ b[current].state = "SLEEPING" => b[current].wake > 0

(* Whom an entry leaves as they were: without recycling, nobody new comes. *)
LEMMA EntryComing ==
    ASSUME ~Recycle, QueueInv, NEW b, NEW ms \in Nat, Enters(b, ms), thread_handler_c(b, ms)
    PROVE  /\ Coming(blk') = Coming(blk)
           /\ \A u \in Threads : blk'[u].state = "FREE" => blk[u].state = "FREE"
           /\ \A u \in Threads : blk'[u].state \in Living =>
                                    blk[u].state \in Living /\ u \in InQueue'
<1> DEFINE p == Prepared(b, ms)
<1>1. /\ Sound(p) /\ OnlyCurrentRuns(p) /\ PreparedStates(b, p)
      /\ current \in Threads \cup {Idle} /\ current \notin reap /\ reap \subseteq Threads
    BY PreparedOK, PreparedStatesOK DEF EntryOK, Enters
<1>2. Choose(p, queue')
    BY DEF thread_handler_c
<1>3. current # Idle => current \in InQueue
    BY <1>1 DEF EntryOK, QueueOK, Enters
<1>4. \A t \in reap : p[t].state \notin Living \cup {"FREE"}
  <2> TAKE t \in reap
  <2>1. Reaped(b)[t] = FreedBlock
    BY <1>1 DEF Reaped
  <2>2. FreedBlock.state = "GONE"
    BY DEF FreedBlock, UnusedBlock
  <2>3. p[t].state = "GONE"
    <3> DEFINE r == Reaped(b)
               c == Charged(r, ms)
               x == Pass1(c, ms)
    <3>1. t \in Threads /\ t # current /\ t \notin InQueue
      BY <1>1 DEF QueueOK, Enters
    <3>2. c[t] = r[t]
      BY <3>1 DEF Charged
    <3>3. x[t] = c[t]
      BY <3>1 DEF Pass1
    <3>4. Unboosted(x)[t] = x[t]
      BY <3>1 DEF Unboosted
    <3>5. p = Unboosted(x)
      BY DEF Prepared
    <3> HIDE DEF p, x, c, r
    <3> QED BY <2>1, <2>2, <3>2, <3>3, <3>4, <3>5 DEF r
  <2> HIDE DEF p
  <2> QED BY <2>3 DEF Living
<1> HIDE DEF p
<1>5. PICK n : /\ n = current' /\ SwitchedStates(p, n)
               /\ n = Idle \/ n \in Candidates(p)
    BY <1>1, <1>2, <1>3, ChooseStates
<1>6. \A t \in Threads \ reap : \/ p[t].state = blk[t].state
                                \/ p[t].state \in Living /\ blk[t].state \in Living
  <2> TAKE t \in Threads \ reap
  <2>1. CASE t # current \/ b = blk
    <3>1. b[t] = blk[t]
      BY <2>1 DEF Enters
    <3> QED BY <1>1, <3>1 DEF PreparedStates, Living
  <2>2. CASE t = current /\ b # blk
    <3>1. blk[t].state = "RUNNING" /\ b[t].state \in {"RUNNING", "SLEEPING", "BLOCKED"}
      BY <2>2 DEF Enters
    <3> QED BY <1>1, <3>1 DEF PreparedStates, Living
  <2> QED BY <2>1, <2>2
<1>7. \A t \in reap : blk[t].state = "DEAD"
    BY DEF QueueInv, QueueOK
<1>8. \A t \in Threads : \/ blk'[t].state = p[t].state
                         \/ blk'[t].state \in Living /\ p[t].state \in Living
  <2> TAKE t \in Threads
  <2>1. t = n => p[t].state \in Runnable
    BY <1>5, SchedulerAssumption DEF Candidates
  <2> QED BY <1>5, <2>1 DEF SwitchedStates, Living, Runnable
<1>9. ASSUME NEW t \in Threads
      PROVE  /\ blk'[t].state \in Living <=> blk[t].state \in Living
             /\ blk'[t].state = "FREE" <=> blk[t].state = "FREE"
  <2>1. CASE t \in reap
    BY <1>4, <1>7, <1>8, <2>1 DEF Living
  <2>2. CASE t \notin reap
    BY <1>6, <1>8, <2>2 DEF Living
  <2> QED BY <2>1, <2>2
<1>10. Coming(blk') = Coming(blk)
    BY <1>9 DEF Coming
<1>11. ASSUME NEW u \in Threads, blk'[u].state \in Living PROVE u \in InQueue'
  <2>1. QueueOK(blk)'
    BY HandlerQueueOK DEF Enters
  <2>2. Allocated(blk'[u]) /\ blk'[u].state # "DEAD"
    BY <1>11 DEF Living, Allocated
  <2> QED BY <2>1, <2>2 DEF QueueOK
<1> QED BY <1>9, <1>10, <1>11

(* An entry keeps every thread with ticks to spend, and its wait where it  *)
(* has to be.                                                              *)
LEMMA EntryTurns ==
    ASSUME WaitBound \in Nat, QueueInv, WaitInv,
           NEW b, NEW ms \in Nat, Enters(b, ms), thread_handler_c(b, ms),
           NEW t \in Threads
    PROVE  TurnOK(blk'[t])
<1> DEFINE p == Prepared(b, ms)
<1>1. /\ Sound(p) /\ OnlyCurrentRuns(p) /\ PreparedStates(b, p)
      /\ current \in Threads \cup {Idle} /\ current \notin reap /\ reap \subseteq Threads
    BY PreparedOK, PreparedStatesOK DEF EntryOK, Enters
<1>2. Choose(p, queue')
    BY DEF thread_handler_c
<1>3. current # Idle => current \in InQueue
    BY <1>1 DEF EntryOK, QueueOK, Enters
<1>4. t \in InQueue => PreparedTurn(b, p, ms, t)
    BY PreparedTurns DEF Enters
<1> HIDE DEF p
<1>5. PICK n : /\ n = current' /\ SwitchedStates(p, n)
               /\ n = Idle \/ n \in Candidates(p)
    BY <1>1, <1>2, <1>3, ChooseStates
<1>6. /\ blk'[t].prio = p[t].prio /\ blk'[t].wait = p[t].wait /\ blk'[t].boosted = p[t].boosted
      /\ \/ /\ Continues(p) /\ current' = current
            /\ blk'[t].ticks = IF t = current THEN p[t].ticks - 1 ELSE p[t].ticks
         \/ blk'[t].ticks = IF t = current THEN p[t].prio ELSE p[t].ticks
    BY <1>1, <1>2, ChooseTurns
<1>7. /\ t = n => p[t].state \in Runnable
      /\ blk'[t].state \in {"SLEEPING", "BLOCKED"} => p[t].state = blk'[t].state
      /\ Allocated(blk'[t]) => Allocated(p[t])
  <2>1. t = n => p[t].state \in Runnable
    BY <1>5, SchedulerAssumption DEF Candidates
  <2> QED BY <1>5, <2>1 DEF SwitchedStates, Runnable, Allocated
<1>8. Allocated(p[t]) => t \in InQueue
  <2>1. CASE t \in reap
    BY <1>1, <2>1 DEF PreparedStates, Allocated
  <2>2. CASE t \notin reap
    BY <1>1, <2>2 DEF PreparedStates, Allocated, Enters, QueueOK
  <2> QED BY <2>1, <2>2
<1>9. TurnOK(blk[t]) /\ p[t] \in ThreadBlock /\ PrioritySound(p[t])
    BY <1>1 DEF WaitInv, Sound
<1>10. ASSUME Allocated(blk'[t]) PROVE blk'[t].ticks \in 1..blk'[t].prio
  <2>1. t \in InQueue /\ Allocated(p[t]) /\ PreparedTurn(b, p, ms, t)
    BY <1>4, <1>7, <1>8, <1>10
  <2>2. p[t].prio \in Nat /\ 1 <= p[t].prio
    <3>1. p[t].dyn \in 1..p[t].prio /\ p[t].prio \in 0..REALTIME
      BY <1>9, <2>1 DEF PrioritySound, ThreadBlock
    <3> QED BY <3>1, SchedulerAssumption
  <2>3. Allocated(b[t])
    BY <2>1 DEF Enters, QueueOK
  <2>4. CASE t # current
    <3>1. b[t] = blk[t]
      BY <2>4 DEF Enters
    <3>2. blk'[t].ticks = p[t].ticks
      BY <1>6, <2>4
    <3> QED BY <1>6, <1>9, <2>1, <2>3, <3>1, <3>2 DEF PreparedTurn, TurnOK
  <2>5. CASE t = current /\ blk'[t].ticks = p[t].prio
    BY <1>6, <2>2, <2>5
  <2>6. CASE t = current /\ Continues(p) /\ blk'[t].ticks = p[t].ticks - 1
    <3>1. p[t].ticks > 1 /\ p[t].ticks = b[t].ticks /\ p[t].prio = b[t].prio
      BY <2>1, <2>6 DEF Continues, PreparedTurn
    <3>2. b[t].ticks # 0
      BY <3>1
    <3>3. b[t] = blk[t]
      BY <2>6, <3>2 DEF Enters
    <3>4. p[t].ticks \in 1..p[t].prio
      BY <1>9, <2>3, <3>1, <3>3 DEF TurnOK
    <3> QED BY <1>6, <2>2, <2>6, <3>1, <3>4
  <2> QED BY <1>6, <2>4, <2>5, <2>6
<1>11. ASSUME blk'[t].state \in {"SLEEPING", "BLOCKED"}
       PROVE  blk'[t].wait = 0 /\ ~blk'[t].boosted
  <2>1. p[t].state = blk'[t].state /\ Allocated(p[t]) /\ PreparedTurn(b, p, ms, t) /\ t \in InQueue
    BY <1>4, <1>7, <1>8, <1>11 DEF Allocated
  <2>2. CASE t # current
    <3>1. b[t] = blk[t] /\ p[t].state = b[t].state
      BY <1>1, <1>11, <2>1, <2>2 DEF Enters, PreparedStates, QueueOK
    <3> QED BY <1>6, <1>9, <1>11, <2>1, <2>2, <3>1 DEF PreparedTurn, TurnOK
  <2>3. CASE t = current
    <3>1. ~Continues(p)
      BY <1>11, <2>1, <2>3 DEF Continues
    <3> QED BY <1>6, <1>11, <2>1, <2>3, <3>1 DEF PreparedTurn
  <2> QED BY <2>2, <2>3
<1> QED BY <1>10, <1>11 DEF TurnOK

(* Nobody is between himself and another.                                  *)
LEMMA NotBetween ==
    ASSUME NEW q \in Seq(Threads), \A i, j \in 1..Len(q) : q[i] = q[j] => i = j, NEW c, NEW t
    PROVE  ~IsBetween(q, c, c, t)
BY DEF IsBetween, Passes

(* The previous thread, retired, begins to wait.                           *)
LEMMA RetiredWaits ==
    ASSUME WaitBound \in Nat, QueueInv,
           NEW b, NEW ms \in Nat, Enters(b, ms), thread_handler_c(b, ms),
           current \in Threads, blk'[current].state = "READY"
    PROVE  WaitOK(blk', queue', current', current)
<1> DEFINE p == Prepared(b, ms)
<1>1. /\ Sound(p) /\ OnlyCurrentRuns(p) /\ PreparedStates(b, p)
      /\ current \notin reap /\ reap \subseteq Threads /\ current \in InQueue
    BY SchedulerAssumption, PreparedOK, PreparedStatesOK DEF EntryOK, Enters, QueueOK
<1>2. Choose(p, queue')
    BY DEF thread_handler_c
<1>3. PreparedTurn(b, p, ms, current)
    BY <1>1, PreparedTurns DEF Enters
<1> HIDE DEF p
<1>4. PICK n : /\ n = current' /\ SwitchedStates(p, n)
               /\ n = Idle \/ n \in Candidates(p)
    BY <1>1, <1>2, ChooseStates
<1>5. n # current
    BY <1>4 DEF SwitchedStates
<1>6. p[current].state = "RUNNING"
  <2>1. p[current].state \in {"RUNNING", "READY"}
    BY <1>4, <1>5 DEF SwitchedStates
  <2>2. /\ p[current].state = b[current].state \/ b[current].state = "SLEEPING"
    BY <1>1 DEF PreparedStates
  <2>3. CASE b = blk
    <3>1. b[current].state \in {"RUNNING", "DEAD"}
      BY <2>3, SchedulerAssumption DEF QueueInv, IndInv, CurrentIsSafe
    <3> QED BY <2>1, <2>2, <3>1
  <2>4. CASE b # blk
    <3>1. /\ ms = 0 /\ b[current].state \in {"RUNNING", "SLEEPING", "BLOCKED"}
          /\ b[current].state = "SLEEPING" => b[current].wake > 0
      BY <2>4 DEF Enters
    <3>2. b[current].state # "SLEEPING"
      BY <1>3, <2>1, <3>1 DEF PreparedTurn
    <3> QED BY <2>1, <2>2, <3>1, <3>2
  <2> QED BY <2>3, <2>4
<1>7. /\ blk'[current].wait = p[current].wait /\ blk'[current].boosted = p[current].boosted
      /\ current' # current =>
           \/ current' = Idle /\ Candidates(p) = {}
           \/ ~(Continues(p) /\ MaxPriority(p, current))
    BY <1>1, <1>2, ChooseTurns
<1>8. current \in Candidates(p)
    BY <1>1, <1>6 DEF Candidates, Runnable
<1>9. ~(Continues(p) /\ MaxPriority(p, current))
    BY <1>4, <1>5, <1>7, <1>8
<1>10. ~p[current].boosted
  <2>1. SUFFICES ASSUME Continues(p), p[current].boosted PROVE MaxPriority(p, current)
    BY <1>3, <1>9 DEF PreparedTurn
  <2>2. \A v \in Threads : thread_effective(p[v]) <= REALTIME
    BY <1>1, SchedulerAssumption DEF thread_effective, Sound, ThreadBlock
  <2>3. thread_effective(p[current]) = REALTIME
    BY <2>1 DEF thread_effective
  <2>4. InQueue \subseteq Threads
    BY DEF InQueue, QueueInv, QueueOK
  <2> QED BY <2>2, <2>3, <2>4 DEF MaxPriority, Candidates
<1>11. blk'[current].wait = 0 /\ ~blk'[current].boosted
    BY <1>3, <1>6, <1>7, <1>10 DEF PreparedTurn
<1> QED BY <1>11, SchedulerAssumption DEF WaitOK

(* Who was ahead of t and is not the next.                                 *)
LEMMA AheadShrinks ==
    ASSUME ~Recycle, QueueInv, NEW b, NEW ms \in Nat, Enters(b, ms), thread_handler_c(b, ms),
           current \in Threads, blk[current].state = "RUNNING",
           NEW n \in Threads, NEW t \in Threads,
           \A u : IsBetween(queue', n, u, t) => IsBetween(queue', current, u, t)
    PROVE  Ahead(blk', queue', n, t) \subseteq Ahead(blk, queue, current, t) \ {n}
<1>1. /\ \A u \in Threads : blk'[u].state = "FREE" => blk[u].state = "FREE"
      /\ \A u \in Threads : blk'[u].state \in Living => blk[u].state \in Living
    BY EntryComing
<1>2. QueueOK(blk)'
    BY HandlerQueueOK DEF Enters
<1>3. queue' \in Seq(Threads) /\ \A i, j \in 1..Len(queue') : queue'[i] = queue'[j] => i = j
    BY <1>2 DEF QueueOK
<1>4. queue \in Seq(Threads)
    BY DEF QueueInv, QueueOK
<1>5. queue' = WithoutAll(queue, Dead(Prepared(b, ms)))
    BY DEF thread_handler_c, Unlinked
<1>6. ASSUME NEW u \in Ahead(blk', queue', n, t)
      PROVE  u \in Ahead(blk, queue, current, t) \ {n}
  <2>1. u \in Threads /\ u # n /\ u # t
    BY DEF Ahead
  <2>2. CASE blk'[u].state = "FREE"
    <3>1. blk[u].state = "FREE"
      BY <1>1, <2>1, <2>2
    <3> QED BY <2>1, <3>1 DEF Ahead
  <2>3. CASE blk'[u].state \in Living /\ IsBetween(queue', n, u, t)
    <3>1. IsBetween(queue', current, u, t)
      BY <2>3
    <3>2. u # current
      BY <1>3, <3>1, NotBetween
    <3>3. IsBetween(queue, current, u, t)
      BY <1>4, <1>5, <3>1, BetweenBefore
    <3> QED BY <1>1, <2>1, <2>3, <3>2, <3>3 DEF Ahead
  <2> QED BY <2>2, <2>3 DEF Ahead
<1> QED BY <1>6

(* A thread that waited, waits on: either the boost is still to come, or   *)
(* what it has waited and has still to wait does not grow.                 *)
LEMMA WaiterWaits ==
    ASSUME ~Recycle, IsFiniteSet(Threads), QueueInv, WaitInv,
           NEW b, NEW ms \in Nat, Enters(b, ms), thread_handler_c(b, ms),
           NEW t \in Threads, t # current, blk'[t].state = "READY"
    PROVE  WaitOK(blk', queue', current', t)
<1> DEFINE p == Prepared(b, ms)
           D == Cardinality(Coming(blk))
<1>0. /\ WaitBound = STARVATION_MS + Rounds(Cardinality(Threads)) * REALTIME
      /\ Rounds(Cardinality(Threads)) * REALTIME \in Nat /\ WaitBound \in Nat
      /\ STARVATION_MS \in Nat /\ 1 <= STARVATION_MS
    BY WaitBoundIs, SchedulerAssumption
<1>1. /\ Sound(p) /\ OnlyCurrentRuns(p) /\ PreparedStates(b, p)
      /\ current \in Threads \cup {Idle} /\ current \notin reap /\ reap \subseteq Threads
    BY PreparedOK, PreparedStatesOK DEF EntryOK, Enters
<1>2. Choose(p, queue')
    BY DEF thread_handler_c
<1>3. current # Idle => current \in InQueue
    BY <1>1 DEF EntryOK, QueueOK, Enters
<1>4. \A u \in Threads : u \in InQueue => PreparedTurn(b, p, ms, u)
    BY <1>0, PreparedTurns DEF Enters
<1> HIDE DEF p
<1>5. PICK n : /\ n = current' /\ SwitchedStates(p, n)
               /\ n = Idle \/ n \in Candidates(p)
    BY <1>1, <1>2, <1>3, ChooseStates
<1>6. p[t].state = "READY" /\ n # t
    BY <1>5 DEF SwitchedStates
<1>7. /\ b[t] = blk[t] /\ t \in InQueue /\ blk[t] \in ThreadBlock /\ p[t] \in ThreadBlock
      /\ blk[t].state \in {"READY", "SLEEPING"}
  <2>1. t \notin reap
    BY <1>1, <1>6 DEF PreparedStates
  <2>2. b[t] = blk[t]
    BY DEF Enters
  <2>3. blk[t].state \in {"READY", "SLEEPING"}
    BY <1>1, <1>6, <2>1, <2>2 DEF PreparedStates
  <2>4. t \in InQueue
    BY <2>1, <2>3 DEF QueueInv, QueueOK, Allocated
  <2> QED BY <1>1, <2>2, <2>3, <2>4 DEF QueueInv, IndInv, Sound
<1>8. /\ TurnOK(blk[t]) /\ TurnOK(blk'[t])
      /\ blk[t].state = "READY" => WaitOK(blk, queue, current, t)
      /\ \A u \in Threads : TurnOK(blk[u]) /\ TurnOK(blk'[u])
    BY <1>0, EntryTurns DEF WaitInv
<1>9. /\ t \in Coming(blk) /\ t \in Coming(blk') /\ Coming(blk') = Coming(blk)
      /\ \A u \in Threads : blk'[u].state \in Living => u \in InQueue'
    BY <1>7, EntryComing DEF Coming, Living
<1>10. blk[t].wait \in Nat /\ blk[t].wait <= WaitBound
  <2>1. blk[t].wait \in Nat
    BY <1>7 DEF ThreadBlock
  <2>2. CASE blk[t].state = "SLEEPING"
    BY <1>0, <1>8, <2>1, <2>2 DEF TurnOK
  <2>3. CASE blk[t].state = "READY" /\ ~blk[t].boosted
    <3>1. blk[t].wait < STARVATION_MS
      BY <1>8, <2>3 DEF WaitOK
    <3> QED BY <1>0, <2>1, <3>1
  <2>4. CASE blk[t].state = "READY" /\ blk[t].boosted
    <3>1. current \in Threads \ {t} /\ blk[t].wait + StillToWait(blk, queue, current, t) <= WaitBound
      BY <1>8, <2>4 DEF WaitOK
    <3>2. blk[current].ticks \in Nat
      BY <3>1 DEF QueueInv, IndInv, Sound, ThreadBlock
    <3>3. StillToWait(blk, queue, current, t) \in Nat
      <4>1. blk[current].state # "RUNNING" \/ current \in Coming(blk)
        BY <3>1 DEF Coming, Living
      <4> QED BY <1>9, <3>1, <3>2, <4>1, StillLess
    <3> QED BY <1>0, <2>1, <3>1, <3>3
  <2> QED BY <1>7, <2>2, <2>3, <2>4
<1>11. /\ blk'[t].wait = blk[t].wait + ms
       /\ blk'[t].boosted <=> blk[t].boosted \/ blk'[t].wait >= STARVATION_MS
       /\ blk'[t].wait \in Nat
  <2>1. /\ p[t].wait = blk[t].wait + ms
        /\ p[t].boosted <=> blk[t].boosted \/ p[t].wait >= STARVATION_MS
    BY <1>4, <1>6, <1>7, <1>10 DEF PreparedTurn
  <2>2. blk'[t].wait = p[t].wait /\ blk'[t].boosted = p[t].boosted
    BY <1>1, <1>2, ChooseTurns
  <2> QED BY <1>10, <2>1, <2>2
<1>12. CASE ~blk'[t].boosted
  <2>1. blk'[t].wait < STARVATION_MS
    BY <1>0, <1>11, <1>12
  <2> QED BY <1>12, <2>1 DEF WaitOK
<1>13. CASE blk'[t].boosted
  <2>1. t \in Candidates(p) /\ MaxPriority(p, t)
    <3>1. \A v \in Threads : thread_effective(p[v]) <= REALTIME
      BY <1>1, SchedulerAssumption DEF thread_effective, Sound, ThreadBlock
    <3>2. thread_effective(p[t]) = REALTIME
      <4>1. blk'[t].boosted = p[t].boosted
        BY <1>1, <1>2, ChooseTurns
      <4> QED BY <1>13, <4>1 DEF thread_effective
    <3>3. InQueue \subseteq Threads
      BY DEF InQueue, QueueInv, QueueOK
    <3> QED BY <1>6, <1>7, <3>1, <3>2, <3>3 DEF MaxPriority, Candidates, Runnable
  <2>2. n \in Threads /\ n \in Candidates(p) /\ blk'[n].state = "RUNNING"
    <3>1. n \in Candidates(p)
      BY <1>5, <1>6, <2>1, <1>2, ChooseStates, <1>1, <1>3, SchedulerAssumption
         DEF Choose, SwitchTo, StayOn, Continues, IsNext, Candidates
    <3>2. n \in Threads
      BY <3>1 DEF Candidates, InQueue, QueueInv, QueueOK
    <3> QED BY <1>5, <3>1, <3>2 DEF SwitchedStates
  <2>3. blk'[n].ticks \in 1..REALTIME
    <3>1. blk'[n].ticks \in 1..blk'[n].prio
      BY <1>8, <2>2 DEF TurnOK, Allocated
    <3>2. blk'[n].prio \in 0..REALTIME
      <4>1. blk'[n].prio = p[n].prio
        BY <1>1, <1>2, <2>2, ChooseTurns
      <4> QED BY <1>1, <2>2, <4>1 DEF Sound, ThreadBlock
    <3> QED BY <3>1, <3>2, SchedulerAssumption
  <2>4. /\ StillToWait(blk', queue', n, t) \in Nat /\ Rounds(D) * REALTIME \in Nat
        /\ StillToWait(blk', queue', n, t) <= Rounds(D) * REALTIME
    BY <1>6, <1>9, <2>2, <2>3, RoundBegins
  <2>5. SUFFICES blk'[t].wait + StillToWait(blk', queue', n, t) <= WaitBound
    BY <1>5, <1>6, <1>13, <2>2 DEF WaitOK
  <2>6. ms \in {0, 1}
    BY DEF Enters
  <2>7. CASE ~blk[t].boosted
    <3>1. blk[t].wait < STARVATION_MS
      BY <1>0, <1>7, <1>8, <2>7 DEF WaitOK, TurnOK
    <3>2. blk'[t].wait <= STARVATION_MS
      BY <1>0, <1>10, <1>11, <2>6, <3>1
    <3>3. Rounds(D) * REALTIME <= Rounds(Cardinality(Threads)) * REALTIME
      <4>1. D \in Nat /\ Cardinality(Threads) \in Nat /\ D <= Cardinality(Threads)
        BY ComingCounts
      <4>2. /\ Rounds(D) \in Nat /\ Rounds(Cardinality(Threads)) \in Nat
            /\ Rounds(D) <= Rounds(Cardinality(Threads))
        <5> HIDE DEF D
        <5> QED BY <4>1, RoundsStep, RoundsLess
      <4> QED BY <4>2, QuantaLess
    <3> QED BY <1>0, <1>11, <2>4, <3>2, <3>3
  <2>8. CASE blk[t].boosted
    <3>1. blk[t].state = "READY"
      BY <1>7, <1>8, <2>8 DEF TurnOK
    <3>2. /\ current \in Threads /\ current # t
          /\ blk[t].wait + StillToWait(blk, queue, current, t) <= WaitBound
      BY <1>8, <2>8, <3>1 DEF WaitOK
    <3>3. SUFFICES /\ StillToWait(blk, queue, current, t) \in Nat
                   /\ StillToWait(blk', queue', n, t) + ms <= StillToWait(blk, queue, current, t)
      BY <1>0, <1>10, <1>11, <2>4, <3>2
    <3>4. blk[current].state \in {"RUNNING", "DEAD"}
      BY <3>2, SchedulerAssumption DEF QueueInv, IndInv, CurrentIsSafe
    <3>5. blk[current].ticks \in Nat
      BY <3>2 DEF QueueInv, IndInv, Sound, ThreadBlock
    <3>6. CASE blk[current].state = "DEAD"
      <4>1. ms = 1
        BY <3>6 DEF Enters
      <4>2. StillToWait(blk, queue, current, t) = 1 + Rounds(D) * REALTIME
        BY <3>6 DEF StillToWait
      <4> QED BY <2>4, <4>1, <4>2
    <3>7. CASE blk[current].state = "RUNNING"
      <4>1. blk[current].ticks \in Nat \ {0}
        BY <1>8, <3>2, <3>5, <3>7 DEF TurnOK, Allocated
      <4>2. \/ /\ Continues(p) /\ current' = current
               /\ \A u \in Threads :
                     blk'[u].ticks = IF u = current THEN p[u].ticks - 1 ELSE p[u].ticks
            \/ IsNext(p, queue', n)
        BY <1>1, <1>2, <1>5, <2>1, ChooseTurns
      <4>3. CASE /\ Continues(p) /\ current' = current
                 /\ blk'[current].ticks = p[current].ticks - 1
        <5>1. p[current].ticks = b[current].ticks /\ p[current].ticks > 1
          BY <1>3, <1>4, <3>2, <4>3, SchedulerAssumption DEF Continues, PreparedTurn
        <5>2. b[current].ticks # 0
          BY <5>1
        <5>3. ms = 1 /\ b = blk
          BY <5>2 DEF Enters
        <5>4. n = current /\ blk'[current].ticks = blk[current].ticks - 1
          BY <1>5, <4>3, <5>1, <5>3
        <5>5. Ahead(blk', queue', current, t) \subseteq Ahead(blk, queue, current, t)
          <6>1. Ahead(blk', queue', current, t) \subseteq Ahead(blk, queue, current, t) \ {current}
            BY <3>2, <3>7, AheadShrinks
          <6> QED BY <6>1
        <5>6. /\ StillToWait(blk, queue, current, t) \in Nat
              /\ StillToWait(blk', queue', current, t) + blk[current].ticks
                   <= StillToWait(blk, queue, current, t) + blk'[current].ticks
          <6>1. current \in Coming(blk') /\ blk'[current].ticks \in Nat
            BY <1>9, <2>2, <2>3, <5>4 DEF Coming, Living
          <6>2. blk'[current].state = blk[current].state
            BY <2>2, <3>7, <5>4
          <6> QED BY <1>9, <3>2, <3>5, <3>7, <5>5, <6>1, <6>2, StillLess
        <5>7. blk[current].ticks \in Nat /\ StillToWait(blk', queue', current, t) \in Nat
          BY <2>4, <3>5, <5>4
        <5> QED BY <5>3, <5>4, <5>6, <5>7
      <4>4. CASE IsNext(p, queue', n)
        <5>1. QueueOK(blk)'
          BY HandlerQueueOK DEF Enters
        <5>2. /\ queue' \in Seq(Threads)
              /\ \A i, j \in 1..Len(queue') : queue'[i] = queue'[j] => i = j
          BY <5>1 DEF QueueOK
        <5>3. p[current].state # "DEAD" /\ blk'[current].state \in Living
          <6>1. b[current].state \in {"RUNNING", "SLEEPING", "BLOCKED"}
            BY <3>7 DEF Enters
          <6>2. p[current].state \in Living \ {"DEAD"}
            BY <1>1, <3>2, <6>1 DEF PreparedStates, Living
          <6> QED BY <1>5, <3>2, <6>2 DEF SwitchedStates, Living
        <5>4. current \in InQueue' /\ t \in InQueue' /\ n \in InQueue'
          BY <1>9, <2>2, <3>2, <5>3 DEF Living
        <5>5. PICK a \in 1..Len(queue'), e \in 1..Len(queue'), f \in 1..Len(queue') :
                  queue'[a] = current /\ queue'[e] = n /\ queue'[f] = t
          BY <5>4 DEF InQueue
        <5>6. Distance(p, queue', n) < Distance(p, queue', t)
          BY <1>6, <2>1, <4>4 DEF IsNext
        <5>7. /\ IsBetween(queue', current, n, t) /\ n # current
              /\ \A u : IsBetween(queue', n, u, t) => IsBetween(queue', current, u, t)
          <6>1. Distance(p, queue', queue'[e]) < Distance(p, queue', queue'[f])
            BY <5>5, <5>6
          <6>2. current # Idle
            BY <3>2, SchedulerAssumption
          <6>3. /\ IsBetween(queue', current, queue'[e], queue'[f]) /\ queue'[e] # current
                /\ \A u : IsBetween(queue', queue'[e], u, queue'[f])
                             => IsBetween(queue', current, u, queue'[f])
            BY <5>2, <5>3, <5>5, <6>1, <6>2, NextIsAhead
          <6> QED BY <5>5, <6>3
        <5>8. Ahead(blk', queue', n, t) \subseteq Ahead(blk, queue, current, t) \ {n}
          BY <2>2, <3>2, <3>7, <5>7, AheadShrinks
        <5>9. n \in Ahead(blk, queue, current, t)
          <6>1. queue \in Seq(Threads)
            BY DEF QueueInv, QueueOK
          <6>2. queue' = WithoutAll(queue, Dead(Prepared(b, ms)))
            BY DEF thread_handler_c, Unlinked
          <6>3. IsBetween(queue, current, n, t)
            BY <5>7, <6>1, <6>2, BetweenBefore
          <6>4. blk[n].state \in Living
            BY <2>2, EntryComing DEF Living
          <6> QED BY <1>6, <2>2, <5>7, <6>3, <6>4 DEF Ahead
        <5>10. /\ StillToWait(blk, queue, current, t) \in Nat
               /\ StillToWait(blk', queue', n, t) + 1 <= StillToWait(blk, queue, current, t)
          BY <1>9, <2>2, <2>3, <3>2, <3>7, <4>1, <5>8, <5>9, StillNext
        <5> QED BY <2>4, <2>6, <5>10
      <4> QED BY <3>2, <4>2, <4>3, <4>4
    <3> QED BY <3>4, <3>6, <3>7
  <2> QED BY <2>7, <2>8
<1> QED BY <1>12, <1>13

(* A yield, a sleep or a block enters with the rest of the quantum gone.   *)
LEMMA GiveUpEnters ==
    ASSUME QueueInv, NEW t \in Threads, Running(t), NEW ms \in Nat,
           NEW s \in {"RUNNING", "SLEEPING", "BLOCKED"}, s = "SLEEPING" => ms > 0,
           GiveUp(t, s, ms)
    PROVE  \E b : Enters(b, 0) /\ thread_handler_c(b, 0)
<1>1. PICK b : /\ EntryOK(b) /\ thread_handler_c(b, 0)
               /\ \A u \in Threads : b[u].state = IF u = t THEN s ELSE blk[u].state
               /\ \A u \in Threads : u # t => b[u] = blk[u]
               /\ b[t].ticks = 0 /\ b[t].wake = ms
    BY GiveUpEntry DEF QueueInv
<1>2. t \notin reap /\ Allocated(blk[t]) /\ reap \subseteq Threads
    BY DEF QueueInv, IndInv, CurrentIsSafe, Running, Allocated
<1>3. QueueOK(b)
    BY <1>1, <1>2, SameUseOK DEF Allocated
<1> QED BY <1>1, <1>3 DEF Enters, Running

(* Every entry keeps the waits within their bound.                         *)
LEMMA EntryWaits ==
    ASSUME ~Recycle, IsFiniteSet(Threads), QueueInv, WaitInv,
           NEW b, NEW ms \in Nat, Enters(b, ms), thread_handler_c(b, ms)
    PROVE  WaitInv'
<1>1. WaitBound \in Nat
    BY WaitBoundIs
<1>2. \A t \in Threads : TurnOK(blk'[t])
    BY <1>1, EntryTurns
<1>3. ASSUME NEW t \in Threads, blk'[t].state = "READY"
      PROVE  WaitOK(blk', queue', current', t)
  <2>1. CASE t = current
    BY <1>1, <1>3, <2>1, RetiredWaits
  <2>2. CASE t # current
    BY <1>3, <2>2, WaiterWaits
  <2> QED BY <2>1, <2>2
<1> QED BY <1>2, <1>3 DEF WaitInv, TurnOK, Allocated

(* A step that leaves t READY and the running thread as it is, and brings  *)
(* nobody between them.                                                    *)
LEMMA BystanderWaits ==
    ASSUME IsFiniteSet(Threads), QueueInv, WaitInv, current' = current,
           NEW t \in Threads, blk[t].state = "READY", blk'[t] = blk[t],
           current \in Threads => blk'[current] = blk[current],
           Coming(blk') \subseteq Coming(blk),
           Ahead(blk', queue', current, t) \subseteq Ahead(blk, queue, current, t)
    PROVE  WaitOK(blk', queue', current', t)
<1>1. WaitOK(blk, queue, current, t)
    BY DEF WaitInv
<1>2. CASE ~blk[t].boosted
    BY <1>1, <1>2 DEF WaitOK
<1>3. CASE blk[t].boosted
  <2>1. /\ current \in Threads /\ current # t
        /\ blk[t].wait + StillToWait(blk, queue, current, t) <= WaitBound
    BY <1>1, <1>3 DEF WaitOK
  <2>2. /\ blk[current].ticks \in Nat /\ blk'[current] = blk[current] /\ blk[t].wait \in Nat
    BY <2>1 DEF QueueInv, IndInv, Sound, ThreadBlock
  <2>3. t \in Coming(blk') /\ (blk[current].state # "RUNNING" \/ current \in Coming(blk'))
    BY <2>1, <2>2 DEF Coming, Living
  <2>4. /\ StillToWait(blk, queue, current, t) \in Nat
        /\ StillToWait(blk', queue', current, t) \in Nat
        /\ blk[current].state = "RUNNING" =>
             StillToWait(blk', queue', current, t) + blk[current].ticks
               <= StillToWait(blk, queue, current, t) + blk'[current].ticks
        /\ blk[current].state # "RUNNING" =>
             StillToWait(blk', queue', current, t) <= StillToWait(blk, queue, current, t)
    BY <2>1, <2>2, <2>3, StillLess
  <2>5. StillToWait(blk', queue', current, t) <= StillToWait(blk, queue, current, t)
    BY <2>2, <2>4
  <2>6. WaitBound \in Nat
    BY WaitBoundIs
  <2>7. blk'[t].wait + StillToWait(blk', queue', current, t) <= WaitBound
    BY <2>1, <2>2, <2>4, <2>5, <2>6
  <2> QED BY <1>3, <2>1, <2>7 DEF WaitOK
<1> QED BY <1>2, <1>3

(* The states of one thread change; nobody is between who was not before.  *)
LEMMA OneBystander ==
    ASSUME QueueInv, NEW u \in Threads, queue' = queue,
           \A v \in Threads : v # u => blk'[v] = blk[v],
           \/ blk[u].state \in Living
           \/ blk'[u].state \notin Living \cup {"FREE"},
           blk'[u].state # "FREE"
    PROVE  /\ Coming(blk') \subseteq Coming(blk)
           /\ \A c, t \in Threads :
                 Ahead(blk', queue', c, t) \subseteq Ahead(blk, queue, c, t)
<1>1. \A v \in Threads : /\ blk'[v].state \in Living => blk[v].state \in Living
                         /\ blk'[v].state = "FREE" => blk[v].state = "FREE"
    BY DEF Living
<1> QED BY <1>1 DEF Coming, Ahead

(* Waits stay within their bound at every step.                            *)
LEMMA WaitNext ==
    ASSUME ~Recycle, IsFiniteSet(Threads)
    PROVE  QueueInv /\ WaitInv /\ [Next]_vars => WaitInv'
<1> SUFFICES ASSUME QueueInv, WaitInv, [Next]_vars PROVE WaitInv'
    OBVIOUS
<1>0. /\ blk \in [Threads -> ThreadBlock] /\ \A t \in Threads : blk[t] \in ThreadBlock
      /\ current \in Threads \cup {Idle} /\ queue \in Seq(Threads) /\ IndInv
      /\ \A t \in Threads : TurnOK(blk[t])
      /\ 1 <= STARVATION_MS /\ STARVATION_MS \in Nat
    BY SchedulerAssumption DEF QueueInv, IndInv, Sound, QueueOK, WaitInv
<1>1. CASE Tick
  <2>1. EntryOK(blk)
    BY <1>0, SchedulerAssumption
       DEF IndInv, EntryOK, CurrentIsSafe, OnlyCurrentRuns, Allocated
  <2>2. Enters(blk, 1)
    BY <2>1 DEF Enters, QueueInv
  <2> QED BY <1>1, <2>2, EntryWaits DEF Tick
<1>2. ASSUME NEW t \in Threads, Running(t), NEW ms \in Nat,
             NEW s \in {"RUNNING", "SLEEPING", "BLOCKED"}, s = "SLEEPING" => ms > 0,
             GiveUp(t, s, ms)
      PROVE  WaitInv'
    BY <1>2, GiveUpEnters, EntryWaits
<1>3. ASSUME NEW t \in Threads,
             \/ thread_yield(t)
             \/ \E ms \in 1..MaxSleep : thread_sleep(t, ms)
             \/ Block(t)
      PROVE  WaitInv'
  <2>1. CASE thread_yield(t)
    BY <1>2, <2>1 DEF thread_yield
  <2>2. CASE \E ms \in 1..MaxSleep : thread_sleep(t, ms)
    <3>1. PICK ms \in 1..MaxSleep : thread_sleep(t, ms)
      BY <2>2
    <3>2. ms \in Nat /\ ms > 0
      BY <3>1, SchedulerAssumption
    <3> QED BY <1>2, <3>1, <3>2 DEF thread_sleep
  <2>3. CASE Block(t)
    BY <1>2, <2>3 DEF Block
  <2> QED BY <1>3, <2>1, <2>2, <2>3
<1>4. ASSUME NEW t \in Threads, thread_exit(t)
      PROVE  WaitInv'
  <2>1. /\ t = current /\ blk[t].state = "RUNNING" /\ queue' = queue /\ current' = current
        /\ blk' = [blk EXCEPT ![t].state = "DEAD"]
    BY <1>4 DEF thread_exit, Running
  <2>2. /\ blk'[t].state = "DEAD" /\ blk'[t].ticks = blk[t].ticks /\ blk'[t].prio = blk[t].prio
        /\ \A v \in Threads : v # t => blk'[v] = blk[v]
    BY <1>0, <2>1 DEF ThreadBlock
  <2>3. \A v \in Threads : TurnOK(blk'[v])
    <3> TAKE v \in Threads
    <3>1. TurnOK(blk[v])
      BY <1>0
    <3> QED BY <2>1, <2>2, <3>1 DEF TurnOK, Allocated
  <2>4. ASSUME NEW v \in Threads, blk'[v].state = "READY"
        PROVE  WaitOK(blk', queue', current', v)
    <3>1. v # t /\ blk'[v] = blk[v] /\ WaitOK(blk, queue, current, v)
      BY <2>2, <2>4 DEF WaitInv
    <3>2. CASE ~blk[v].boosted
      BY <3>1, <3>2 DEF WaitOK
    <3>3. CASE blk[v].boosted
      <4>1. blk[v].wait + StillToWait(blk, queue, t, v) <= WaitBound
        BY <2>1, <3>1, <3>3 DEF WaitOK
      <4>2. Coming(blk') = Coming(blk) \ {t}
        BY <2>2 DEF Coming, Living
      <4>3. v \in Coming(blk) /\ blk[t].ticks \in Nat \ {0}
        <5>1. blk[t].ticks \in 1..blk[t].prio /\ blk[t].ticks \in Nat
          BY <1>0, <2>1 DEF TurnOK, Allocated, ThreadBlock
        <5> QED BY <2>4, <3>1, <5>1 DEF Coming, Living
      <4>4. /\ StillToWait(blk, queue, t, v) \in Nat /\ StillToWait(blk', queue, t, v) \in Nat
            /\ StillToWait(blk', queue, t, v) <= StillToWait(blk, queue, t, v)
        BY <2>1, <2>2, <3>1, <4>2, <4>3, StillExit
      <4>5. WaitBound \in Nat /\ blk[v].wait \in Nat
        BY <1>0, WaitBoundIs DEF ThreadBlock
      <4>6. blk'[v].wait + StillToWait(blk', queue, t, v) <= WaitBound
        BY <3>1, <4>1, <4>4, <4>5
      <4> QED BY <2>1, <3>1, <3>3, <4>6 DEF WaitOK
    <3> QED BY <3>2, <3>3
  <2> QED BY <2>3, <2>4 DEF WaitInv
<1>5. ASSUME NEW t \in Threads, NEW u \in Threads, KillThread(t, u)
      PROVE  WaitInv'
  <2>1. /\ t = current /\ u # t /\ blk[u].state \in {"READY", "SLEEPING", "BLOCKED"}
        /\ queue' = queue /\ current' = current /\ blk' = [blk EXCEPT ![u].state = "DEAD"]
    BY <1>5 DEF KillThread, Running
  <2>2. /\ blk'[u].state = "DEAD" /\ blk'[u].ticks = blk[u].ticks /\ blk'[u].prio = blk[u].prio
        /\ \A v \in Threads : v # u => blk'[v] = blk[v]
    BY <1>0, <2>1 DEF ThreadBlock
  <2>3. \A v \in Threads : TurnOK(blk'[v])
    <3> TAKE v \in Threads
    <3>1. TurnOK(blk[v])
      BY <1>0
    <3> QED BY <2>1, <2>2, <3>1 DEF TurnOK, Allocated
  <2>4. ASSUME NEW v \in Threads, blk'[v].state = "READY"
        PROVE  WaitOK(blk', queue', current', v)
    <3>1. v # u /\ blk'[v] = blk[v] /\ blk[v].state = "READY"
      BY <2>2, <2>4
    <3>2. /\ Coming(blk') \subseteq Coming(blk)
          /\ \A c, w \in Threads : Ahead(blk', queue', c, w) \subseteq Ahead(blk, queue, c, w)
      BY <2>1, <2>2, OneBystander DEF Living
    <3> QED BY <2>1, <2>2, <3>1, <3>2, BystanderWaits
  <2> QED BY <2>3, <2>4 DEF WaitInv
<1>6. ASSUME NEW u \in Threads, MakeReady(u)
      PROVE  WaitInv'
  <2>1. /\ blk[u].state \in {"SLEEPING", "BLOCKED"} /\ u # current
        /\ queue' = queue /\ current' = current
        /\ blk' = [blk EXCEPT ![u].state = "READY", ![u].wake = 0]
    BY <1>0, <1>6, SchedulerAssumption DEF MakeReady, IndInv, CurrentIsSafe
  <2>2. /\ blk'[u].state = "READY" /\ blk'[u].ticks = blk[u].ticks /\ blk'[u].prio = blk[u].prio
        /\ blk'[u].wait = blk[u].wait /\ blk'[u].boosted = blk[u].boosted
        /\ \A v \in Threads : v # u => blk'[v] = blk[v]
    BY <1>0, <2>1 DEF ThreadBlock
  <2>3. \A v \in Threads : TurnOK(blk'[v])
    <3> TAKE v \in Threads
    <3>1. TurnOK(blk[v])
      BY <1>0
    <3> QED BY <2>1, <2>2, <3>1 DEF TurnOK, Allocated
  <2>4. ASSUME NEW v \in Threads, blk'[v].state = "READY"
        PROVE  WaitOK(blk', queue', current', v)
    <3>1. CASE v = u
      <4>1. blk'[v].wait = 0 /\ ~blk'[v].boosted
        BY <1>0, <2>1, <2>2, <3>1 DEF TurnOK
      <4> QED BY <1>0, <4>1 DEF WaitOK
    <3>2. CASE v # u
      <4>1. blk'[v] = blk[v] /\ blk[v].state = "READY"
        BY <2>2, <2>4, <3>2
      <4>2. /\ Coming(blk') \subseteq Coming(blk)
            /\ \A c, w \in Threads : Ahead(blk', queue', c, w) \subseteq Ahead(blk, queue, c, w)
        BY <2>1, <2>2, OneBystander DEF Living
      <4>3. CASE current \in Threads
        BY <2>1, <2>2, <4>1, <4>2, <4>3, BystanderWaits
      <4>4. CASE current = Idle
        <5>1. ~blk[v].boosted /\ WaitOK(blk, queue, current, v)
          BY <4>1, <4>4, SchedulerAssumption DEF WaitInv, WaitOK
        <5> QED BY <4>1, <5>1 DEF WaitOK
      <4> QED BY <1>0, <4>3, <4>4
    <3> QED BY <3>1, <3>2
  <2> QED BY <2>3, <2>4 DEF WaitInv
<1>7. ASSUME NEW t \in Threads, NEW u \in Threads, NEW p \in Priorities,
             thread_create(t, u, p)
      PROVE  WaitInv'
  <2>1. /\ t = current /\ blk[t].state = "RUNNING" /\ blk[u].state = "FREE" /\ u # t
        /\ queue' = Append(queue, u) /\ current' = current
        /\ blk' = [blk EXCEPT ![u] = NewBlock("READY", p)]
    BY <1>7 DEF thread_create, Running
  <2>2. /\ blk'[u] = NewBlock("READY", p)
        /\ \A v \in Threads : v # u => blk'[v] = blk[v]
    BY <1>0, <2>1
  <2>3. \A v \in Threads : TurnOK(blk'[v])
    <3> TAKE v \in Threads
    <3>1. TurnOK(blk[v])
      BY <1>0
    <3>2. p \in 1..p
      BY SchedulerAssumption
    <3> QED BY <2>2, <3>1, <3>2 DEF TurnOK, Allocated, NewBlock
  <2>4. ASSUME NEW v \in Threads, blk'[v].state = "READY"
        PROVE  WaitOK(blk', queue', current', v)
    <3>1. CASE v = u
      <4>1. blk'[v].wait = 0 /\ ~blk'[v].boosted
        BY <2>2, <3>1 DEF NewBlock
      <4> QED BY <1>0, <4>1 DEF WaitOK
    <3>2. CASE v # u
      <4>1. blk'[v] = blk[v] /\ blk[v].state = "READY"
        BY <2>2, <2>4, <3>2
      <4>2. Coming(blk') \subseteq Coming(blk)
        BY <2>1, <2>2 DEF Coming
      <4>3. ASSUME NEW w \in Ahead(blk', queue', t, v)
            PROVE  w \in Ahead(blk, queue, t, v)
        <5>1. w \in Threads /\ w # t /\ w # v
          BY DEF Ahead
        <5>2. CASE w = u
          BY <2>1, <5>1, <5>2 DEF Ahead
        <5>3. CASE w # u /\ blk'[w].state = "FREE"
          BY <2>2, <5>1, <5>3 DEF Ahead
        <5>4. CASE w # u /\ blk'[w].state \in Living /\ IsBetween(queue', t, w, v)
          <6>1. PICK i \in 1..Len(queue'), k \in 1..Len(queue'), j \in 1..Len(queue') :
                    queue'[i] = t /\ queue'[k] = w /\ queue'[j] = v /\ Passes(i, k, j)
            BY <5>4 DEF IsBetween
          <6>2. /\ Len(queue') = Len(queue) + 1 /\ Len(queue) \in Nat
                /\ queue'[Len(queue) + 1] = u
                /\ \A m \in 1..Len(queue) : queue'[m] = queue[m]
            BY <1>0, <2>1
          <6>3. \A m \in 1..Len(queue') : m \in 1..Len(queue) \/ m = Len(queue) + 1
            BY <6>2
          <6>4. i \in 1..Len(queue) /\ k \in 1..Len(queue) /\ j \in 1..Len(queue)
            BY <2>1, <3>2, <5>4, <6>1, <6>2, <6>3
          <6>5. IsBetween(queue, t, w, v)
            BY <6>1, <6>2, <6>4 DEF IsBetween
          <6> QED BY <2>2, <5>1, <5>4, <6>5 DEF Ahead
        <5> QED BY <5>1, <5>2, <5>3, <5>4 DEF Ahead
      <4> QED BY <2>1, <2>2, <4>1, <4>2, <4>3, BystanderWaits
    <3> QED BY <3>1, <3>2
  <2> QED BY <2>3, <2>4 DEF WaitInv
<1>8. CASE UNCHANGED vars
    BY <1>8 DEF vars, WaitInv, WaitOK, TurnOK, StillToWait, Ahead, Coming
<1> QED BY <1>1, <1>3, <1>4, <1>5, <1>6, <1>7, <1>8 DEF Next

(* Nobody waits at boot.                                                   *)
LEMMA WaitInit == Init => WaitInv
<1> SUFFICES ASSUME Init PROVE WaitInv
    OBVIOUS
<1>1. PICK p \in Priorities :
        blk = [t \in Threads |-> IF t = Main THEN NewBlock("RUNNING", p) ELSE FreeBlock]
    BY DEF Init
<1>2. p \in 1..p
    BY SchedulerAssumption
<1>3. TurnOK(NewBlock("RUNNING", p)) /\ TurnOK(FreeBlock)
    BY <1>2 DEF TurnOK, NewBlock, FreeBlock, UnusedBlock, Allocated
<1>4. NewBlock("RUNNING", p).state # "READY" /\ FreeBlock.state # "READY"
    BY DEF NewBlock, FreeBlock, UnusedBlock
<1> QED BY <1>1, <1>3, <1>4 DEF WaitInv

(* The boost bounds the wait of every runnable thread, whatever the load:  *)
(* as long as no ThreadBlock is used twice, a READY thread has waited at   *)
(* most the time to its boost and a quantum for each turn the others can   *)
(* still take, also those that die and are replaced.                       *)
THEOREM SchedulerWaitIsBounded ==
    ASSUME ~Recycle, IsFiniteSet(Threads)
    PROVE  Spec => []BoundedWait
<1>1. QueueInv /\ WaitInv => BoundedWait
  <2> SUFFICES ASSUME QueueInv, WaitInv, NEW t \in InQueue, blk[t].state = "READY"
               PROVE  blk[t].wait <= WaitBound
    BY DEF BoundedWait
  <2>1. t \in Threads /\ blk[t] \in ThreadBlock
    BY DEF InQueue, QueueInv, QueueOK, IndInv, Sound
  <2>2. /\ WaitBound = STARVATION_MS + Rounds(Cardinality(Threads)) * REALTIME
        /\ Rounds(Cardinality(Threads)) * REALTIME \in Nat /\ WaitBound \in Nat
        /\ STARVATION_MS \in Nat /\ blk[t].wait \in Nat
    BY <2>1, WaitBoundIs, SchedulerAssumption DEF ThreadBlock
  <2>3. WaitOK(blk, queue, current, t)
    BY <2>1 DEF WaitInv
  <2>4. CASE ~blk[t].boosted
    <3>1. blk[t].wait < STARVATION_MS
      BY <2>3, <2>4 DEF WaitOK
    <3> QED BY <2>2, <3>1
  <2>5. CASE blk[t].boosted
    <3>1. /\ current \in Threads /\ current # t
          /\ blk[t].wait + StillToWait(blk, queue, current, t) <= WaitBound
      BY <2>3, <2>5 DEF WaitOK
    <3>2. blk[current].ticks \in Nat
      BY <3>1 DEF QueueInv, IndInv, Sound, ThreadBlock
    <3>3. t \in Coming(blk) /\ (blk[current].state # "RUNNING" \/ current \in Coming(blk))
      BY <2>1, <3>1 DEF Coming, Living
    <3>4. StillToWait(blk, queue, current, t) \in Nat
      BY <3>1, <3>2, <3>3, StillLess
    <3> QED BY <2>2, <3>1, <3>4
  <2> QED BY <2>4, <2>5
<1>2. QueueInv /\ WaitInv /\ [Next]_vars => WaitInv'
    BY WaitNext
<1> QED BY <1>1, <1>2, WaitInit, QueueInvariant, PTL DEF Spec

=============================================================================
