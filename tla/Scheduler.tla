----------------------------- MODULE Scheduler ------------------------------
(***************************************************************************)
(* The thread scheduler of the x86 kernel (boot/x86/scheduler.c): run      *)
(* queue, quanta, priority degradation and recovery, starvation boost,     *)
(* sleeping, thread creation, exit and reaping.                            *)
(*                                                                         *)
(* thread_handler_c runs with interrupts off, from the timer interrupt     *)
(* (which has just advanced the clock by one millisecond) and from int     *)
(* $0x80 (thread_yield, at the same millisecond), so it is one step.       *)
(* Between two entries the running thread may do anything that touches     *)
(* thread blocks: create, kill or wake threads, or die.                    *)
(*                                                                         *)
(* Times are relative: instead of timestamps a block holds the             *)
(* milliseconds since its recover and wait marks and those left until its  *)
(* wake tick, and every entry advances them by the time elapsed.           *)
(***************************************************************************)
EXTENDS Integers, Sequences, FiniteSets, Lists

CONSTANTS
    Threads,            \* ThreadBlocks the heap can provide
    Main,               \* the boot thread, which never exits
    Idle,               \* idle_thread, not in the run queue
    Priorities,         \* base priorities threads are created with
    REALTIME,           \* PRIORITY_REALTIME; PRIORITY_IDLE is 1
    DEGRADE_QUANTA,     \* SCHED_DEGRADE_QUANTA
    RECOVER_MS,         \* SCHED_RECOVER_MS
    STARVATION_MS,      \* SCHED_STARVATION_MS
    MaxSleep,           \* longest sleep asked for
    Recycle             \* whether a freed ThreadBlock is handed out again; if
                        \* not, each thread is created once

ASSUME SchedulerAssumption ==
    /\ Main \in Threads /\ Idle \notin Threads
    /\ REALTIME \in Nat /\ Priorities \subseteq 1..REALTIME /\ Priorities # {}
    /\ DEGRADE_QUANTA \in Nat \ {0}
    /\ RECOVER_MS \in Nat \ {0} /\ STARVATION_MS \in Nat \ {0}
    /\ MaxSleep \in Nat \ {0}
    /\ Recycle \in BOOLEAN

VARIABLES
    blk,        \* the ThreadBlocks
    queue,      \* the circular run queue, from thread_queue on
    reap,       \* reap_list: unlinked dead threads, not yet freed
    current     \* current_thread

vars == <<blk, queue, reap, current>>

Runnable == {"READY", "RUNNING"}

ThreadBlock ==
    [state   : {"FREE", "GONE", "READY", "RUNNING", "SLEEPING", "BLOCKED", "DEAD"},
     prio    : 0..REALTIME,     \* priority (base)
     dyn     : 0..REALTIME,     \* dyn_priority
     boosted : BOOLEAN,
     ticks   : Nat,             \* ticks_remaining
     cpu     : Nat,             \* cpu_used_ms
     rec     : Nat,             \* now - recover_mark_ms
     wait    : Nat,             \* now - wait_mark_ms
     wake    : Nat]             \* wake_tick - now, while SLEEPING

(* A block that malloc has not handed out, and one that reap_threads freed. *)
UnusedBlock(s) == [state |-> s, prio |-> 0, dyn |-> 0, boosted |-> FALSE,
                   ticks |-> 0, cpu |-> 0, rec |-> 0, wait |-> 0, wake |-> 0]

FreeBlock == UnusedBlock("FREE")

FreedBlock == UnusedBlock(IF Recycle THEN "FREE" ELSE "GONE")

(* thread_create's block, with thread_init_dynamic.                        *)
NewBlock(s, p) == [state |-> s, prio |-> p, dyn |-> p, boosted |-> FALSE,
                   ticks |-> p, cpu |-> 0, rec |-> 0, wait |-> 0, wake |-> 0]

-----------------------------------------------------------------------------
(***************************************************************************)
(* Dynamic priority, one operator per function of scheduler.c.             *)
(***************************************************************************)
thread_effective(x) == IF x.boosted THEN REALTIME ELSE x.dyn

Allotment(x) == x.prio * DEGRADE_QUANTA

ChargeEveryone(x, ms) ==  \* variant: SCHED_DEGRADE_REALTIME's other branch
    LET k == (x.cpu + ms) \div Allotment(x)
    IN  IF k < x.dyn
        THEN [x EXCEPT !.dyn = @ - k, !.cpu = (x.cpu + ms) % Allotment(x)]
        ELSE [x EXCEPT !.dyn = 1, !.cpu = 0]

(* thread_charge_cpu: one level down per full allotment used.  The loop    *)
(* runs k times unless it reaches PRIORITY_IDLE with usage left, which is  *)
(* then forgotten.                                                         *)
thread_charge_cpu(x, ms) ==
    LET used == x.cpu + ms
        k    == used \div Allotment(x)
    IN  IF x.prio = REALTIME THEN [x EXCEPT !.cpu = 0]
        ELSE IF k < x.dyn
             THEN [x EXCEPT !.dyn = @ - k, !.cpu = used % Allotment(x)]
             ELSE [x EXCEPT !.dyn = 1, !.cpu = 0]

RecoverPastBase(x) ==  \* variant: no ceiling
    [x EXCEPT !.cpu = @ \div 2, !.dyn = @ + 1]

thread_recover(x) ==
    [x EXCEPT !.cpu = @ \div 2,
              !.dyn = IF @ < x.prio THEN @ + 1 ELSE @]

(* thread_age: marks of a RUNNING thread follow the clock; off the CPU a   *)
(* thread recovers every RECOVER_MS, and one READY for STARVATION_MS is    *)
(* boosted.                                                                *)
AgeRecover(x) ==
    IF x.rec >= RECOVER_MS THEN [thread_recover(x) EXCEPT !.rec = 0] ELSE x

AgeNoBoost(x) ==  \* variant: the boost is forgotten
    IF x.state # "READY" THEN [x EXCEPT !.wait = 0] ELSE x

AgeRestarts(x) ==  \* variant: the mark follows the clock for every thread
    [x EXCEPT !.wait = 0]

AgeStarve(x) ==
    IF x.state # "READY" THEN [x EXCEPT !.wait = 0]
    ELSE [x EXCEPT !.boosted = @ \/ x.wait >= STARVATION_MS]

thread_age(x) ==
    IF x.state = "RUNNING" THEN [x EXCEPT !.rec = 0, !.wait = 0]
    ELSE AgeStarve(AgeRecover(x))

(* The longest wait of a READY thread, if each thread is created once:     *)
(* once boosted it waits at most for the quantum of every other thread,    *)
(* and each thread that dies meanwhile restarts the search at the head of  *)
(* the queue, over the threads that are left.                              *)
WaitBound ==
    STARVATION_MS + ((Cardinality(Threads) * (Cardinality(Threads) - 1)) \div 2) * REALTIME

(* The clock advances by ms for the relative times of a block.  Past the   *)
(* boost the code no longer reads the wait: it is counted up to one more   *)
(* than WaitBound.                                                         *)
Elapse(x, ms) ==
    [x EXCEPT !.rec = @ + ms,
              !.wait = IF @ > WaitBound THEN @ ELSE @ + ms,
              !.wake = IF @ > ms THEN @ - ms ELSE 0]

WakeSleeper(x) ==
    IF x.state = "SLEEPING" /\ x.wake = 0 THEN [x EXCEPT !.state = "READY"] ELSE x

-----------------------------------------------------------------------------
(***************************************************************************)
(* thread_handler_c, stage by stage.  b is the block table at entry, with  *)
(* what the thread that called thread_yield changed; ms is the time since  *)
(* the previous entry.                                                     *)
(***************************************************************************)
InQueue == {queue[i] : i \in 1..Len(queue)}

(* reap_threads: free what the previous entry unlinked.                    *)
Reaped(b) == [t \in Threads |-> IF t \in reap THEN FreedBlock ELSE b[t]]

(* Everything since the last entry was spent running prev; a thread that   *)
(* gave up the CPU wins a level back.                                      *)
ChargeBlock(x, ms) ==
    IF x.state \in {"SLEEPING", "BLOCKED"}
    THEN thread_recover(thread_charge_cpu(x, ms)) ELSE thread_charge_cpu(x, ms)

Charged(b, ms) ==
    [t \in Threads |->
        IF t = current /\ b[t].state # "DEAD" THEN ChargeBlock(b[t], ms) ELSE b[t]]

(* Pass 1: wake sleepers, age everyone who is not dead.                    *)
PassBlock(x, ms) ==
    LET w == WakeSleeper(Elapse(x, ms))
    IN  IF w.state = "DEAD" THEN w ELSE thread_age(w)

Pass1(b, ms) ==
    [t \in Threads |-> IF t \in InQueue THEN PassBlock(b[t], ms) ELSE b[t]]

Dead(b) == {t \in Threads : t \in InQueue /\ b[t].state = "DEAD"}

ContinuesShort(b) ==  \* variant: off by one
    current # Idle /\ b[current].state = "RUNNING" /\ b[current].ticks > 2

(* prev stays within its quantum.                                          *)
Continues(b) ==
    /\ current # Idle
    /\ b[current].state = "RUNNING"
    /\ b[current].ticks > 1

(* The boost of a thread whose time on the CPU is over.                    *)
Unboosted(b) ==
    [t \in Threads |-> IF t = current /\ ~Continues(b)
                       THEN [b[t] EXCEPT !.boosted = FALSE] ELSE b[t]]

(* The block table after the two bookkeeping stages and pass 1.            *)
Prepared(b, ms) == Unboosted(Pass1(Charged(Reaped(b), ms), ms))

Candidates(b) == {t \in InQueue : b[t].state \in Runnable}

MaxPriority(b, t) == \A u \in Candidates(b) : thread_effective(b[u]) <= thread_effective(b[t])

(* Steps from search_start (the thread after prev, or the head) to t in    *)
(* the queue q left after unlinking.                                       *)
PositionIn(q, t) == CHOOSE i \in 1..Len(q) : q[i] = t

Distance(b, q, t) ==
    LET start == IF current = Idle \/ b[current].state = "DEAD"
                 THEN 1 ELSE PositionIn(q, current) + 1
    IN  (PositionIn(q, t) - start + Len(q)) % Len(q)

(* t is the first thread at the highest effective priority, round robin.   *)
IsNext(b, q, t) ==
    /\ t \in Candidates(b)
    /\ MaxPriority(b, t)
    /\ \A u \in Candidates(b) \ {t} :
          MaxPriority(b, u) => Distance(b, q, t) < Distance(b, q, u)

RefillBlock(x) == [x EXCEPT !.ticks = x.prio]  \* variant: stays RUNNING

(* Retire prev with a fresh quantum and put n on the CPU.                  *)
RetireBlock(x) ==
    [x EXCEPT !.ticks = x.prio,
              !.state = IF @ = "RUNNING" THEN "READY" ELSE @]

SwitchTo(b, n) ==
    /\ blk' = [t \in Threads |->
         LET r == IF t = current THEN RetireBlock(b[t]) ELSE b[t]
         IN  IF t = n THEN [r EXCEPT !.state = "RUNNING"] ELSE r]
    /\ current' = n

(* The quantum of prev goes on.                                            *)
StayOn(b) ==
    /\ blk' = [b EXCEPT ![current].ticks = @ - 1]
    /\ UNCHANGED current

NotUnlinked(dead) == queue  \* variant: freed but still linked

(* The queue without the threads pass 1 unlinks.                           *)
Unlinked(dead) == WithoutAll(queue, dead)

(* Pass 2 and the switch, on the prepared block table p.                   *)
Choose(p, q) ==
    \/ Candidates(p) = {} /\ SwitchTo(p, Idle)
    \/ Continues(p) /\ MaxPriority(p, current) /\ StayOn(p)
    \/ /\ ~(Continues(p) /\ MaxPriority(p, current))
       /\ \E n \in Threads : IsNext(p, q, n) /\ SwitchTo(p, n)

(* The whole entry; \E over a singleton names the prepared table.          *)
thread_handler_c(b, ms) ==
    \E p \in {Prepared(b, ms)} :
        /\ queue' = Unlinked(Dead(p))
        /\ reap' = Dead(p)
        /\ Choose(p, queue')

-----------------------------------------------------------------------------
(***************************************************************************)
(* The program: the boot thread is running after scheduler_init.           *)
(***************************************************************************)
Init ==
    /\ \E p \in Priorities :
         blk = [t \in Threads |-> IF t = Main THEN NewBlock("RUNNING", p) ELSE FreeBlock]
    /\ queue = <<Main>>
    /\ reap = {}
    /\ current = Main

(* A thread is executing; a dead one only halts until the next tick.       *)
Running(t) == current = t /\ blk[t].state = "RUNNING"

(* The timer interrupt.                                                    *)
Tick == thread_handler_c(blk, 1)

(* int $0x80 with the current thread's state set to s and a wake time.     *)
GiveUp(t, s, ms) ==
    thread_handler_c([blk EXCEPT ![t].state = s, ![t].wake = ms, ![t].ticks = 0], 0)

thread_yield(t) == Running(t) /\ GiveUp(t, "RUNNING", 0)

thread_sleep(t, ms) == Running(t) /\ GiveUp(t, "SLEEPING", ms)

(* mutex_lock's slow path, or event_wait without a timeout.                *)
Block(t) == Running(t) /\ GiveUp(t, "BLOCKED", 0)

MakeReadyBlindly(u) ==  \* variant: event_signal does not look at the state
    /\ blk[u].state \in {"READY", "SLEEPING", "BLOCKED", "DEAD"}
    /\ blk' = [blk EXCEPT ![u].state = "READY", ![u].wake = 0]
    /\ UNCHANGED <<queue, reap, current>>

(* mutex_unlock or event_signal, from a thread or a device interrupt.      *)
MakeReady(u) ==
    /\ blk[u].state \in {"SLEEPING", "BLOCKED"}
    /\ blk' = [blk EXCEPT ![u].state = "READY", ![u].wake = 0]
    /\ UNCHANGED <<queue, reap, current>>

(* thread_create by the running thread, when malloc has a block left.      *)
thread_create(t, u, p) ==
    /\ Running(t)
    /\ blk[u].state = "FREE"
    /\ blk' = [blk EXCEPT ![u] = NewBlock("READY", p)]
    /\ queue' = Append(queue, u)
    /\ UNCHANGED <<reap, current>>

(* thread_exit: DEAD, then halt until the timer interrupt.                 *)
thread_exit(t) ==
    /\ Running(t)
    /\ t # Main
    /\ blk' = [blk EXCEPT ![t].state = "DEAD"]
    /\ UNCHANGED <<queue, reap, current>>

(* process_kill_threads: a thread of another process is marked DEAD.       *)
KillThread(t, u) ==
    /\ Running(t)
    /\ u \notin {t, Main}
    /\ blk[u].state \in {"READY", "SLEEPING", "BLOCKED"}
    /\ blk' = [blk EXCEPT ![u].state = "DEAD"]
    /\ UNCHANGED <<queue, reap, current>>

Next ==
    \/ Tick
    \/ \E t \in Threads :
         \/ thread_yield(t)
         \/ \E ms \in 1..MaxSleep : thread_sleep(t, ms)
         \/ Block(t)
         \/ thread_exit(t)
         \/ \E u \in Threads : KillThread(t, u)
         \/ \E u \in Threads, p \in Priorities : thread_create(t, u, p)
    \/ \E u \in Threads : MakeReady(u)

Spec == Init /\ [][Next]_vars

(* The timer keeps interrupting.                                           *)
FairSpec == Spec /\ WF_vars(Tick)

-----------------------------------------------------------------------------
TypeOK ==
    /\ blk \in [Threads -> ThreadBlock]
    /\ queue \in Seq(Threads)
    /\ reap \subseteq Threads
    /\ current \in Threads \cup {Idle}

(* One thread at most is RUNNING and it is current_thread; the current     *)
(* thread is never on the reap list, whose stacks the next entry frees.    *)
CurrentIsSafe ==
    /\ \A t \in Threads : blk[t].state = "RUNNING" => current = t
    /\ current # Idle => blk[current].state \in {"RUNNING", "DEAD"}
    /\ current \notin reap

(* The run queue holds each allocated, unreaped thread exactly once.       *)
QueueExact ==
    /\ \A i, j \in 1..Len(queue) : queue[i] = queue[j] => i = j
    /\ InQueue = {t \in Threads : blk[t].state \notin {"FREE", "GONE"}} \ reap
    /\ \A t \in reap : blk[t].state = "DEAD"

(* The thread blocks are well formed and run_queue and reap_list hold      *)
(* exactly the threads there are, whoever is created, killed or reaped.    *)
QueuesAreSound == TypeOK /\ QueueExact

(* Degradation and recovery stay between PRIORITY_IDLE and the base, a     *)
(* REALTIME thread keeps its level, and usage stays below one allotment.   *)
Allocated(x) == x.state \notin {"FREE", "GONE"}

PrioritySound(x) ==
    Allocated(x) => /\ x.dyn \in 1..x.prio
                    /\ x.prio = REALTIME => x.dyn = REALTIME
                    /\ x.cpu < Allotment(x)

PriorityBounds == \A t \in Threads : PrioritySound(blk[t])

(* The boost buys a whole quantum: the timer never takes the CPU from a    *)
(* boosted thread that has ticks left.                                     *)
BoostNotPreempted ==
    \A t \in Threads :
        Running(t) /\ blk[t].boosted /\ blk[t].ticks > 1 /\ Tick => current' = t

BoostIsKept == [][BoostNotPreempted]_vars

(* What the boost is for, in scheduler.h: it "bounds the wait of every      *)
(* runnable thread, whatever the load".                                    *)
BoundedWait ==
    \A t \in InQueue : blk[t].state = "READY" => blk[t].wait <= WaitBound

(* Every READY thread is run, or killed.                                   *)
NoStarvation ==
    \A t \in Threads : blk[t].state = "READY" ~> blk[t].state \in {"RUNNING", "DEAD"}

(* The scheduler implements the abstract thread life.                      *)
states == [t \in Threads |-> IF blk[t].state = "GONE" THEN "FREE" ELSE blk[t].state]

Life == INSTANCE ThreadLife WITH state <- states

ImplementsThreadLife == Life!Spec
=============================================================================
