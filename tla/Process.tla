------------------------------- MODULE Process -------------------------------
(***************************************************************************)
(* The process table (scheduler/process.c): slots, generations and process *)
(* ids, the page directory and the main thread of a process, and the       *)
(* scheduler's reaper as far as it ends a killed thread.                   *)
(*                                                                         *)
(* Whatever runs between irq_save and irq_restore is one step.             *)
(* CreateProcess gives the CPU away between its locked sections, so a      *)
(* caller has a program counter.  The loader is a stub in the code: the    *)
(* image is empty and only the directory is allocated.                     *)
(***************************************************************************)
EXTENDS Integers

CONSTANTS
    Callers,        \* threads that call the process API
    ProcessSlots,   \* 0 .. PROCESS_MAX - 1
    ThreadBlocks,   \* ThreadBlocks the heap can provide
    PID_GEN_MASK,   \* generations are 1 .. PID_GEN_MASK
    MaxCreates,     \* bound: CreateProcess calls in a behaviour
    None            \* NULL

ASSUME ProcessAssumption ==
    /\ ProcessSlots \subseteq Nat
    /\ PID_GEN_MASK \in Nat \ {0} /\ MaxCreates \in Nat
    /\ None \notin ProcessSlots /\ None \notin ThreadBlocks /\ None \notin Nat

VARIABLES
    process_table,  \* per slot: state, generation, pid, directory, thread
    process_count,
    thread,         \* per ThreadBlock: its state, and the directory in cr3
    directories,    \* page directories that are allocated
    caller,         \* per caller: where in CreateProcess, with which p
    created,        \* bound used up; numbers the calls of CreateProcess
    reuses,         \* ghost: how often each slot was released
    issued          \* ghost: pids given out, with the reuse of the slot they name

processVars == <<process_table, process_count, thread, directories, caller, created, reuses,
                 issued>>

Pids == (1..PID_GEN_MASK) \X ProcessSlots

FreeSlot(g) == [state |-> "FREE", generation |-> g, pid |-> None,
                directory |-> None, thread |-> None]

Kernel == 0     \* kernel_cr3; a process's directory is a positive number

NoCall == [pc |-> "idle", call |-> 0, slot |-> None, pid |-> None, reuse |-> 0]

ProcessInit ==
    /\ process_table = [s \in ProcessSlots |-> FreeSlot(0)]
    /\ process_count = 0
    /\ thread = [t \in ThreadBlocks |-> [state |-> "NONE", cr3 |-> Kernel]]
    /\ directories = {}
    /\ caller = [c \in Callers |-> NoCall]
    /\ created = 0
    /\ reuses = [s \in ProcessSlots |-> 0]
    /\ issued = {}

CallerAt(c, pc) == caller[c].pc = pc
GoTo(c, pc) == caller' = [caller EXCEPT ![c].pc = pc]

-----------------------------------------------------------------------------
(* The first locked section: the first FREE slot is reserved.  With none    *)
(* FREE, PROCESS_ERR_NO_SLOTS is returned and nothing changes.             *)
Reserve(c) ==
    /\ CallerAt(c, "idle") /\ created < MaxCreates
    /\ \E s \in ProcessSlots :
         /\ process_table[s].state = "FREE"
         /\ \A r \in ProcessSlots : r < s => process_table[r].state # "FREE"
         /\ LET g == IF process_table[s].generation = 0 THEN 1 ELSE process_table[s].generation
            IN  /\ process_table' = [process_table EXCEPT ![s].state = "CREATING",
                                        ![s].generation = g, ![s].pid = <<g, s>>]
                /\ caller' = [caller EXCEPT ![c] = [pc |-> "build", call |-> created + 1,
                                        slot |-> s, pid |-> <<g, s>>, reuse |-> reuses[s]]]
                /\ issued' = issued \cup {<<<<g, s>>, reuses[s]>>}
    /\ process_count' = process_count + 1
    /\ created' = created + 1
    /\ UNCHANGED <<thread, directories, reuses>>

(* The unlocked part: the directory is allocated, or memory has run out.   *)
address_space_create(c) ==
    /\ CallerAt(c, "build")
    /\ directories' = directories \cup {caller[c].call}
    /\ process_table' = [process_table EXCEPT ![caller[c].slot].directory = caller[c].call]
    /\ GoTo(c, "start")
    /\ UNCHANGED <<process_count, thread, created, reuses, issued>>

NoMemory(c) ==
    /\ CallerAt(c, "build")
    /\ GoTo(c, "fail")
    /\ UNCHANGED <<process_table, process_count, thread, directories, created, reuses, issued>>

Started(s, t) == [process_table EXCEPT ![s].thread = t, ![s].state = "RUNNING"]

(* The second locked section: the main thread joins the process.           *)
StartThread(c, t) ==
    /\ CallerAt(c, "start") /\ thread[t].state = "NONE"
    /\ thread' = [thread EXCEPT ![t] =
                    [state |-> "READY", cr3 |-> process_table[caller[c].slot].directory]]
    /\ process_table' = Started(caller[c].slot, t)
    /\ GoTo(c, "return")
    /\ UNCHANGED <<process_count, directories, created, reuses, issued>>

(* list_append fails: the new thread is left DEAD, in the kernel's space.  *)
StartFails(c, t) ==
    /\ CallerAt(c, "start") /\ thread[t].state = "NONE"
    /\ thread' = [thread EXCEPT ![t] = [state |-> "DEAD", cr3 |-> Kernel]]
    /\ GoTo(c, "fail")
    /\ UNCHANGED <<process_table, process_count, directories, created, reuses, issued>>

(* thread_create fails.                                                    *)
ThreadFails(c) ==
    /\ CallerAt(c, "start")
    /\ GoTo(c, "fail")
    /\ UNCHANGED <<process_table, process_count, thread, directories, created, reuses, issued>>

(* return p->pid: read from the slot, after the lock was given up.         *)
Return(c) ==
    /\ CallerAt(c, "return")
    /\ caller' = [caller EXCEPT ![c] = NoCall]
    /\ UNCHANGED <<process_table, process_count, thread, directories, created, reuses, issued>>

Returned(c) == process_table[caller[c].slot].pid

(* process_free_resources: the directory is freed, if there is one.        *)
Freed(s) == directories \ {process_table[s].directory}

(* process_release_slot.                                                   *)
NextGeneration(g) == IF g = PID_GEN_MASK THEN 1 ELSE g + 1

SameGeneration(s) ==  \* variant: the generation is not bumped
    [process_table EXCEPT ![s] = FreeSlot(process_table[s].generation)]

Released(s) ==
    [process_table EXCEPT ![s] = FreeSlot(NextGeneration(process_table[s].generation))]

(* fail: the resources are freed without the lock, the slot with it.       *)
FreeResources(c) ==
    /\ CallerAt(c, "fail")
    /\ directories' = Freed(caller[c].slot)
    /\ process_table' = [process_table EXCEPT ![caller[c].slot].directory = None]
    /\ GoTo(c, "release")
    /\ UNCHANGED <<process_count, thread, created, reuses, issued>>

Release(c) ==
    /\ CallerAt(c, "release")
    /\ process_table' = Released(caller[c].slot)
    /\ process_count' = process_count - 1
    /\ reuses' = [reuses EXCEPT ![caller[c].slot] = @ + 1]
    /\ caller' = [caller EXCEPT ![c] = NoCall]
    /\ UNCHANGED <<thread, directories, created, issued>>

-----------------------------------------------------------------------------
(* The slot a pid names, if any.                                           *)
process_lookup(pid) ==
    IF process_table[pid[2]].state # "FREE" /\ process_table[pid[2]].pid = pid
    THEN pid[2] ELSE None

KilledInPlace(s) ==  \* variant: cr3 keeps the directory that is freed next
    [thread EXCEPT ![process_table[s].thread].state = "DEAD"]

(* process_kill_threads, with the process's one thread.                    *)
Killed(s) ==
    [thread EXCEPT ![process_table[s].thread] = [state |-> "DEAD", cr3 |-> Kernel]]

(* The whole of it runs with interrupts off.  Any caller may know the pid. *)
DestroyProcess(pid) ==
    LET s == process_lookup(pid)
    IN  /\ s # None /\ process_table[s].state = "RUNNING"
        /\ thread' = Killed(s)
        /\ directories' = Freed(s)
        /\ process_table' = Released(s)
        /\ process_count' = process_count - 1
        /\ reuses' = [reuses EXCEPT ![s] = @ + 1]
        /\ UNCHANGED <<caller, created, issued>>

(* The scheduler drops a DEAD thread and frees its block.                  *)
Reap(t) ==
    /\ thread[t].state = "DEAD"
    /\ thread' = [thread EXCEPT ![t].state = "NONE"]
    /\ UNCHANGED <<process_table, process_count, directories, caller, created, reuses, issued>>

ProcessNext ==
    \/ \E c \in Callers :
         \/ Reserve(c) \/ address_space_create(c) \/ NoMemory(c)
         \/ ThreadFails(c) \/ Return(c) \/ FreeResources(c) \/ Release(c)
         \/ \E t \in ThreadBlocks : StartThread(c, t) \/ StartFails(c, t)
    \/ \E pid \in Pids : DestroyProcess(pid)
    \/ \E t \in ThreadBlocks : Reap(t)

ProcessSpec == ProcessInit /\ [][ProcessNext]_processVars
-----------------------------------------------------------------------------
(* No thread, killed or not, is left with a freed page directory in cr3,   *)
(* and a directory is allocated exactly while a process owns it: every     *)
(* failure path and every destruction frees it once.                       *)
AddressSpacesOwned ==
    /\ \A t \in ThreadBlocks : thread[t].state # "NONE" =>
          thread[t].cr3 = Kernel \/ thread[t].cr3 \in directories
    /\ directories = {process_table[s].directory : s \in ProcessSlots} \ {None}
    /\ \A s \in ProcessSlots : process_table[s].state = "RUNNING" =>
          thread[process_table[s].thread] = [state |-> "READY", cr3 |-> process_table[s].directory]

(* "A stale id held after DestroyProcess() can never refer to a newer      *)
(* process that happened to reuse the same slot", until the generations of *)
(* the slot have all been used.                                            *)
StaleIdsDie ==
    \A x \in issued : process_lookup(x[1]) # None =>
        \/ x[2] = reuses[x[1][2]]
        \/ reuses[x[1][2]] - x[2] >= PID_GEN_MASK

(* CreateProcess returns the id of the process it made, as long as nobody  *)
(* destroyed that process before the return.                               *)
ReturnsItsOwn ==
    \A c \in Callers : CallerAt(c, "return") =>
        Returned(c) = caller[c].pid \/ reuses[caller[c].slot] # caller[c].reuse

(* A process id names one process.                                         *)
PidsName == StaleIdsDie /\ ReturnsItsOwn

(* A process owns its id and its address space, from CreateProcess to the  *)
(* last step of its destruction, whoever else creates and destroys.        *)
ProcessesAreSound == AddressSpacesOwned /\ PidsName
=============================================================================
