-------------------------------- MODULE Sync --------------------------------
(***************************************************************************)
(* Mutexes and auto-reset events of the x86 kernel (boot/x86/mutex.c and   *)
(* the event half of boot/x86/scheduler.c) over the thread states they     *)
(* share with the scheduler.                                               *)
(*                                                                         *)
(* The kernel runs on one CPU.  Every operation below runs between         *)
(* irq_save and irq_restore, so it is one atomic step; what interleaves is *)
(* whole operations, timer interrupts, device interrupts, and the two      *)
(* halves of an operation that gives the CPU up in the middle: mutex_lock  *)
(* and event_wait switch away inside thread_yield() and continue, with     *)
(* interrupts still off, when somebody else has made the thread READY.     *)
(*                                                                         *)
(* Which READY thread the handler picks is left open here (the Scheduler   *)
(* module has the policy); time is abstracted to "the wake tick of a       *)
(* sleeper may have passed at any timer interrupt".  The single-threaded   *)
(* boot phase before scheduler_init (current_thread == NULL) is left out.  *)
(***************************************************************************)
EXTENDS Naturals, Sequences, FiniteSets

CONSTANTS
    Threads,    \* ThreadBlocks in the run queue
    Mutexes,    \* mutex_t objects, numbered in lock order
    Events,     \* Event objects
    Idle,       \* idle_thread
    NoThread,   \* NULL owner
    NoEvent,    \* NULL wait_event
    NoMutex     \* not inside the slow path of mutex_lock

ASSUME SyncAssumption ==
    /\ Threads # {}
    /\ Idle \notin Threads
    /\ NoThread \notin Threads
    /\ NoEvent \notin Events
    /\ Mutexes \subseteq Nat
    /\ NoMutex \notin Mutexes

VARIABLES
    state,          \* ThreadBlock.state
    current,        \* current_thread
    locked,         \* mutex_t.locked
    owner,          \* mutex_t.owner
    waitq,          \* mutex_t.wait_head .. wait_tail, head first
    signaled,       \* Event.signaled
    waiters,        \* Event.waiters; the whole list is woken at once, so a set
    wait_event,     \* ThreadBlock.wait_event
    wait_signaled,  \* ThreadBlock.wait_signaled
    lockOn,         \* the mutex whose slow path the thread is inside
    waitOn,         \* the event whose event_wait the thread is inside
    held,           \* ghost: mutexes the thread was told it holds
    seen            \* ghost: the awaited event was signaled since the wait began

mutexVars  == <<locked, owner, waitq, lockOn, held>>
eventVars  == <<signaled, waiters, wait_event, wait_signaled, waitOn, seen>>
threadVars == <<state, current>>
vars == <<threadVars, mutexVars, eventVars>>

ThreadState == {"READY", "RUNNING", "SLEEPING", "BLOCKED"}

(* EFLAGS.IF: a thread that resumed inside mutex_lock or event_wait has    *)
(* interrupts off until that call returns.                                 *)
InterruptsOn ==
    current \in Threads => lockOn[current] = NoMutex /\ waitOn[current] = NoEvent

(* The running thread, executing ordinary code.                            *)
Running(t) == current = t /\ InterruptsOn

(***************************************************************************)
(* The context switch: thread_handler_c, with the choice among runnable    *)
(* threads left open.  st is the thread state at entry, after the          *)
(* operation that called thread_yield changed it.                          *)
(***************************************************************************)
Retire(st) == [t \in Threads |-> IF st[t] = "RUNNING" THEN "READY" ELSE st[t]]

SwitchTo(st, n) ==
    /\ n \in Threads => Retire(st)[n] = "READY"
    /\ n = Idle => \A t \in Threads : Retire(st)[t] # "READY"
    /\ current' = n
    /\ state' = [t \in Threads |-> IF t = n THEN "RUNNING" ELSE Retire(st)[t]]

Switch(st) == \E n \in Threads \cup {Idle} : SwitchTo(st, n)

(***************************************************************************)
(* Initially scheduler_init and thread_create have run: one thread is      *)
(* current, the others READY, all locks and events static-initialised.     *)
(***************************************************************************)
Init ==
    /\ current \in Threads
    /\ state = [t \in Threads |-> IF t = current THEN "RUNNING" ELSE "READY"]
    /\ locked = [m \in Mutexes |-> FALSE]
    /\ owner = [m \in Mutexes |-> NoThread]
    /\ waitq = [m \in Mutexes |-> <<>>]
    /\ lockOn = [t \in Threads |-> NoMutex]
    /\ held = [t \in Threads |-> {}]
    /\ signaled = [e \in Events |-> FALSE]
    /\ waiters = [e \in Events |-> {}]
    /\ wait_event = [t \in Threads |-> NoEvent]
    /\ wait_signaled = [t \in Threads |-> FALSE]
    /\ waitOn = [t \in Threads |-> NoEvent]
    /\ seen = [t \in Threads |-> FALSE]

-----------------------------------------------------------------------------
(***************************************************************************)
(* Mutexes.  Callers follow the kernel's lock order (big lock, VFS lock,   *)
(* driver lock): mutex_t is not recursive and no thread takes an earlier   *)
(* lock while it holds a later one.                                        *)
(***************************************************************************)
InLockOrder(t, m) == \A h \in held[t] : h < m

FreeIfNobodyWaits(m) == waitq[m] = <<>>  \* variant: looks at the queue only

(* The test both lock calls make.                                          *)
Free(m) == ~locked[m]

EnqueuedFront(m, t) == <<t>> \o waitq[m]  \* variant: links it at wait_head

(* The queue of m after thread t has linked its node behind wait_tail.     *)
Enqueued(m, t) == Append(waitq[m], t)

DequeuedAll(m) == <<>>  \* variant: wait_head = NULL

(* The queue of m after mutex_unlock took the first waiter off, if any.    *)
Dequeued(m) == IF waitq[m] = <<>> THEN <<>> ELSE Tail(waitq[m])

NobodyOwns(m) == NoThread  \* variant: wakes the waiter without a hand-off

(* The owner mutex_unlock leaves behind: the first waiter, if any.         *)
NewOwner(m) == IF waitq[m] = <<>> THEN NoThread ELSE Head(waitq[m])

(* mutex_lock, fast path.                                                  *)
mutex_lock_fast(t, m) ==
    /\ Running(t)
    /\ InLockOrder(t, m)
    /\ Free(m)
    /\ locked' = [locked EXCEPT ![m] = TRUE]
    /\ owner' = [owner EXCEPT ![m] = t]
    /\ held' = [held EXCEPT ![t] = @ \cup {m}]
    /\ UNCHANGED <<waitq, lockOn, threadVars, eventVars>>

(* mutex_lock, slow path up to the switch: queue, block, yield.            *)
mutex_lock_slow(t, m) ==
    /\ Running(t)
    /\ InLockOrder(t, m)
    /\ ~Free(m)
    /\ lockOn' = [lockOn EXCEPT ![t] = m]
    /\ Switch([state EXCEPT ![t] = "BLOCKED"])
    /\ waitq' = [waitq EXCEPT ![m] = Enqueued(m, t)]
    /\ UNCHANGED <<locked, owner, held, eventVars>>

(* The rest of mutex_lock, when the scheduler runs the thread again.  It   *)
(* returns without looking at the mutex: it trusts the hand-off.           *)
mutex_lock_resume(t, m) ==
    /\ current = t
    /\ lockOn[t] = m
    /\ lockOn' = [lockOn EXCEPT ![t] = NoMutex]
    /\ held' = [held EXCEPT ![t] = @ \cup {m}]
    /\ UNCHANGED <<locked, owner, waitq, threadVars, eventVars>>

(* mutex_trylock: takes a free mutex, else returns false and changes       *)
(* nothing.  A caller may try a mutex out of order, since it never waits.  *)
mutex_trylock(t, m) ==
    /\ Running(t)
    /\ m \notin held[t]
    /\ Free(m)
    /\ locked' = [locked EXCEPT ![m] = TRUE]
    /\ owner' = [owner EXCEPT ![m] = t]
    /\ held' = [held EXCEPT ![t] = @ \cup {m}]
    /\ UNCHANGED <<waitq, lockOn, threadVars, eventVars>>

(* mutex_unlock: ignored unless the caller owns the mutex; hands it to the *)
(* first waiter, which becomes READY, or frees it.                         *)
mutex_unlock(t, m) ==
    /\ Running(t)
    /\ owner[m] = t
    /\ held' = [held EXCEPT ![t] = @ \ {m}]
    /\ locked' = [locked EXCEPT ![m] = waitq[m] # <<>>]
    /\ owner' = [owner EXCEPT ![m] = NewOwner(m)]
    /\ waitq' = [waitq EXCEPT ![m] = Dequeued(m)]
    /\ state' = [u \in Threads |->
         IF waitq[m] # <<>> /\ u = Head(waitq[m]) THEN "READY" ELSE state[u]]
    /\ UNCHANGED <<current, lockOn, eventVars>>

-----------------------------------------------------------------------------
(***************************************************************************)
(* Events.                                                                 *)
(***************************************************************************)

WakesSleepers == {"SLEEPING"}  \* variant: misses waiters without a timeout

(* The states event_signal makes READY.                                    *)
Wakeable == {"SLEEPING", "BLOCKED"}

MarkedSleeping(e) ==  \* variant: not a waiter its timeout made READY
    {t \in waiters[e] : state[t] \in {"SLEEPING", "BLOCKED"}}

(* The threads event_signal marks wait_signaled: the whole list.           *)
Marked(e) == waiters[e]

WaitersKept(e, t) == waiters[e]  \* variant: does not unlink

(* event_remove_waiter: the list of e without t.                           *)
WaitersWithout(e, t) == waiters[e] \ {t}

(* event_signal, by the running thread or by a device interrupt.           *)
event_signal(e) ==
    /\ InterruptsOn
    /\ IF waiters[e] = {}
       THEN /\ signaled' = [signaled EXCEPT ![e] = TRUE]
            /\ UNCHANGED <<waiters, wait_event, wait_signaled, state>>
       ELSE /\ waiters' = [waiters EXCEPT ![e] = {}]
            /\ wait_event' = [t \in Threads |->
                 IF t \in waiters[e] THEN NoEvent ELSE wait_event[t]]
            /\ wait_signaled' = [t \in Threads |->
                 t \in Marked(e) \/ wait_signaled[t]]
            /\ state' = [t \in Threads |->
                 IF t \in waiters[e] /\ state[t] \in Wakeable
                 THEN "READY" ELSE state[t]]
            /\ UNCHANGED signaled
    /\ seen' = [t \in Threads |-> seen[t] \/ waitOn[t] = e]
    /\ UNCHANGED <<current, waitOn, mutexVars>>

(* event_wait when the event is already signaled: consume it, return true. *)
event_wait_ready(t, e) ==
    /\ Running(t)
    /\ signaled[e]
    /\ signaled' = [signaled EXCEPT ![e] = FALSE]
    /\ UNCHANGED <<waiters, wait_event, wait_signaled, waitOn, seen,
                   threadVars, mutexVars>>

(* event_wait up to the switch; st is SLEEPING with a timeout, BLOCKED     *)
(* without.  The kernel's threads wait for events with no mutex held.      *)
event_wait_block(t, e, st) ==
    /\ Running(t)
    /\ held[t] = {}
    /\ ~signaled[e]
    /\ wait_signaled' = [wait_signaled EXCEPT ![t] = FALSE]
    /\ wait_event' = [wait_event EXCEPT ![t] = e]
    /\ waiters' = [waiters EXCEPT ![e] = @ \cup {t}]
    /\ waitOn' = [waitOn EXCEPT ![t] = e]
    /\ seen' = [seen EXCEPT ![t] = FALSE]
    /\ Switch([state EXCEPT ![t] = st])
    /\ UNCHANGED <<signaled, mutexVars>>

(* The rest of event_wait: leave the list if a timeout woke us, return     *)
(* wait_signaled.                                                          *)
event_wait_resume(t, e) ==
    /\ current = t
    /\ waitOn[t] = e
    /\ IF wait_event[t] = e
       THEN /\ waiters' = [waiters EXCEPT ![e] = WaitersWithout(e, t)]
            /\ wait_event' = [wait_event EXCEPT ![t] = NoEvent]
       ELSE UNCHANGED <<waiters, wait_event>>
    /\ wait_signaled' = [wait_signaled EXCEPT ![t] = FALSE]
    /\ waitOn' = [waitOn EXCEPT ![t] = NoEvent]
    /\ seen' = [seen EXCEPT ![t] = FALSE]
    /\ UNCHANGED <<signaled, threadVars, mutexVars>>

-----------------------------------------------------------------------------
(* thread_sleep(ms): SLEEPING, then yield; ms = 0 only yields.             *)
thread_sleep(t) ==
    /\ Running(t)
    /\ Switch([state EXCEPT ![t] = "SLEEPING"])
    /\ UNCHANGED <<mutexVars, eventVars>>

thread_yield(t) ==
    /\ Running(t)
    /\ Switch(state)
    /\ UNCHANGED <<mutexVars, eventVars>>

(* The timer interrupt: pass 1 of thread_handler_c wakes the sleepers      *)
(* whose wake_tick has passed (any of them), then a runnable thread is     *)
(* picked.  W is the set of sleepers that are due.                         *)
TimerTick(W, n) ==
    /\ InterruptsOn
    /\ \A t \in W : state[t] = "SLEEPING"
    /\ SwitchTo([t \in Threads |-> IF t \in W THEN "READY" ELSE state[t]], n)
    /\ UNCHANGED <<mutexVars, eventVars>>

Tick == \E W \in SUBSET Threads, n \in Threads \cup {Idle} : TimerTick(W, n)

MutexNext(t) ==
    \E m \in Mutexes :
        \/ mutex_lock_fast(t, m)
        \/ mutex_lock_slow(t, m)
        \/ mutex_lock_resume(t, m)
        \/ mutex_trylock(t, m)
        \/ mutex_unlock(t, m)

EventNext(t) ==
    \E e \in Events :
        \/ event_wait_ready(t, e)
        \/ \E st \in {"SLEEPING", "BLOCKED"} : event_wait_block(t, e, st)
        \/ event_wait_resume(t, e)

Next ==
    \/ \E t \in Threads :
         MutexNext(t) \/ EventNext(t) \/ thread_sleep(t) \/ thread_yield(t)
    \/ \E e \in Events : event_signal(e)
    \/ Tick

Spec == Init /\ [][Next]_vars

(***************************************************************************)
(* Fairness.  A thread inside a resumed call runs it to the end; sleepers  *)
(* are woken and READY threads dispatched, because the timer keeps ticking *)
(* and the scheduler starves nobody (module Scheduler checks its policy:   *)
(* every READY thread runs); and a thread that keeps being run leaves its  *)
(* critical sections.                                                      *)
(***************************************************************************)
Resume(t) == \/ \E m \in Mutexes : mutex_lock_resume(t, m)
             \/ \E e \in Events : event_wait_resume(t, e)

(* A sleeper is woken, a READY thread is dispatched.                       *)
Scheduled(t) ==
    /\ Tick
    /\ \/ state[t] = "SLEEPING" /\ state'[t] # "SLEEPING"
       \/ state[t] = "READY" /\ current' = t

Fairness ==
    \A t \in Threads :
        /\ WF_vars(Resume(t))
        /\ SF_vars(Scheduled(t))
        /\ \A m \in Mutexes : SF_vars(mutex_unlock(t, m))

FairSpec == Spec /\ Fairness

-----------------------------------------------------------------------------
(***************************************************************************)
(* Properties.                                                             *)
(***************************************************************************)

(* The values the thread, mutex and event fields range over.               *)
TypeOK ==
    /\ state \in [Threads -> ThreadState]
    /\ current \in Threads \cup {Idle}
    /\ locked \in [Mutexes -> BOOLEAN]
    /\ owner \in [Mutexes -> Threads \cup {NoThread}]
    /\ waitq \in [Mutexes -> Seq(Threads)]
    /\ lockOn \in [Threads -> Mutexes \cup {NoMutex}]
    /\ held \in [Threads -> SUBSET Mutexes]
    /\ signaled \in [Events -> BOOLEAN]
    /\ waiters \in [Events -> SUBSET Threads]
    /\ wait_event \in [Threads -> Events \cup {NoEvent}]
    /\ wait_signaled \in [Threads -> BOOLEAN]
    /\ waitOn \in [Threads -> Events \cup {NoEvent}]
    /\ seen \in [Threads -> BOOLEAN]

(* thread_handler_c leaves exactly current_thread RUNNING.                 *)
OneRunning == \A t \in Threads : state[t] = "RUNNING" <=> current = t

(* A mutex is never held by two threads, and mutex.owner is the thread     *)
(* that was told it holds it.                                              *)
MutualExclusion ==
    \A m \in Mutexes : \A t \in Threads :
        m \in held[t] => /\ owner[m] = t
                         /\ \A u \in Threads \ {t} : m \notin held[u]

(* mutex_lock's comment: "when we resume, ownership has been handed to     *)
(* us".  A thread made runnable inside the slow path owns the mutex,       *)
(* although event_signal and the timer also make threads READY.            *)
ResumedOwnsMutex ==
    \A t \in Threads, m \in Mutexes :
        lockOn[t] = m /\ state[t] \in {"READY", "RUNNING"} => owner[m] = t

InQueue(t, m) == \E i \in 1..Len(waitq[m]) : waitq[m][i] = t

(* Nobody sleeps where no waker looks: a BLOCKED thread is either in the   *)
(* queue of the one mutex it asked for, which is locked, or in the list of *)
(* the one event it waits for, which is not signaled.                      *)
BlockedIsFindable ==
    \A t \in Threads : state[t] = "BLOCKED" =>
        \/ /\ lockOn[t] \in Mutexes
           /\ locked[lockOn[t]]
           /\ InQueue(t, lockOn[t])
        \/ /\ waitOn[t] \in Events
           /\ ~signaled[waitOn[t]]
           /\ t \in waiters[waitOn[t]]

(* Everything in a mutex queue is a thread blocked on that mutex, queued   *)
(* once: the nodes live on the waiters' stacks, so a node of a thread that *)
(* went on running would be a dangling pointer.                            *)
QueueIsLive ==
    \A m \in Mutexes :
        /\ \A i \in 1..Len(waitq[m]) :
              lockOn[waitq[m][i]] = m /\ state[waitq[m][i]] = "BLOCKED"
        /\ \A i, j \in 1..Len(waitq[m]) : waitq[m][i] = waitq[m][j] => i = j

(* An event's list holds exactly the threads whose wait_event says so, and *)
(* only threads still inside event_wait: nothing is left behind by a       *)
(* timeout.                                                                *)
WaitListExact ==
    \A t \in Threads, e \in Events :
        /\ t \in waiters[e] <=> wait_event[t] = e
        /\ t \in waiters[e] => waitOn[t] = e

(* The hand-over of a mutex and the wake-up of an event reach exactly the  *)
(* threads that wait: mutex_lock returns with the mutex, and a wait list   *)
(* never keeps a thread that event_wait has let go.                        *)
HandOverExact == ResumedOwnsMutex /\ WaitListExact

(* event_wait returns true exactly when the event was signaled since the   *)
(* wait began: no signal is lost, also not one that arrives after the      *)
(* timeout made the waiter READY and before it runs.                       *)
WaitResultExact ==
    \A t \in Threads : waitOn[t] # NoEvent => wait_signaled[t] = seen[t]

(* How the mutex fields hang together: locked says the same as owner, a    *)
(* free mutex has no queue, and a mutex is owned by a thread that was told *)
(* so or is about to be told so.                                           *)
MutexShape ==
    /\ \A m \in Mutexes :
          /\ locked[m] <=> owner[m] # NoThread
          /\ ~locked[m] => waitq[m] = <<>>
    /\ \A t \in Threads, m \in Mutexes :
          /\ owner[m] = t => m \in held[t] \/ lockOn[t] = m
          /\ lockOn[t] = m => /\ m \notin held[t]
                              /\ waitOn[t] = NoEvent
                              /\ state[t] # "SLEEPING"
                              /\ state[t] = "BLOCKED" => InQueue(t, m)

(* How the event fields hang together: a signal is remembered only while   *)
(* nobody waits, and a waiter off the list was taken off by a signal.      *)
EventShape ==
    /\ \A e \in Events : signaled[e] => waiters[e] = {}
    /\ \A t \in Threads :
          /\ waitOn[t] = NoEvent => wait_event[t] = NoEvent
          /\ \A e \in Events : waitOn[t] = e /\ t \notin waiters[e] =>
                wait_signaled[t] /\ state[t] \in {"READY", "RUNNING"}
          /\ state[t] = "BLOCKED" => lockOn[t] # NoMutex \/ waitOn[t] # NoEvent

(* The inductive invariant: the safety properties need these shapes to be  *)
(* preserved step by step.                                                 *)
IndInv ==
    /\ TypeOK
    /\ OneRunning
    /\ MutexShape
    /\ MutualExclusion
    /\ ResumedOwnsMutex
    /\ QueueIsLive
    /\ EventShape
    /\ WaitListExact
    /\ WaitResultExact

(* The mutexes implement the abstract lock: the owner and the wait queue   *)
(* are the line, and every step is a join at the end, a leave at the head, *)
(* or a stutter.                                                           *)
lines == [m \in Mutexes |-> IF locked[m] THEN <<owner[m]>> \o waitq[m] ELSE <<>>]

Fifo == INSTANCE FifoLock WITH line <- lines

ImplementsFifoLock == Fifo!Spec

(* A thread that blocks in mutex_lock eventually holds the mutex.          *)
LockIsGranted ==
    \A t \in Threads, m \in Mutexes : lockOn[t] = m ~> m \in held[t]

(* A wait with a timeout returns, whatever happens to the event; so does a *)
(* wait without one whose event was signaled.                              *)
WaitReturns ==
    \A t \in Threads :
        (waitOn[t] # NoEvent /\ (state[t] = "SLEEPING" \/ seen[t]))
            ~> waitOn[t] = NoEvent

(* Whoever blocks in mutex_lock or event_wait comes back.                  *)
BlockedThreadsReturn == LockIsGranted /\ WaitReturns
=============================================================================
