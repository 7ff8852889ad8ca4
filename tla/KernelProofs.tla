---------------------------- MODULE KernelProofs ----------------------------
(***************************************************************************)
(* Proofs about Process, for any callers, slots, thread blocks and number  *)
(* of generations, about VFSLock, for any set of threads and any depth of  *)
(* nesting, about Input, for any keys, packets and sizes of the rings,     *)
(* about X4, for any program and size of the stack, and about              *)
(* KernelEvents, for any names and any number of events.                   *)
(***************************************************************************)
EXTENDS Process, Input, VFSLock, X4, KernelEvents, ListProofs, SequenceTheorems

Slot ==
    [state : {"FREE", "CREATING", "RUNNING"}, generation : 0..PID_GEN_MASK,
     pid : Pids \cup {None}, directory : (1..created) \cup {None},
     thread : ThreadBlocks \cup {None}]

Call ==
    [pc : {"idle", "build", "start", "return", "fail", "release"}, call : 0..created,
     slot : ProcessSlots \cup {None}, pid : Pids \cup {None}, reuse : Nat]

ThreadBlock == [state : {"NONE", "READY", "DEAD"}, cr3 : (0..created) \cup {None}]

ProcessTypeOK ==
    /\ created \in Nat
    /\ process_table \in [ProcessSlots -> Slot]
    /\ thread \in [ThreadBlocks -> ThreadBlock]
    /\ caller \in [Callers -> Call]
    /\ reuses \in [ProcessSlots -> Nat]
    /\ issued \subseteq Pids \X Nat

(* A directory has one owner, and a free slot has nothing.                 *)
DirectoriesOK ==
    /\ directories = {process_table[s].directory : s \in ProcessSlots} \ {None}
    /\ \A s, r \in ProcessSlots :
          s # r => process_table[s].directory # process_table[r].directory
                   \/ process_table[s].directory = None
    /\ \A s \in ProcessSlots : process_table[s].state = "FREE" => process_table[s].directory = None

(* CreateProcess owns the slot it fills in, until the process runs or the  *)
(* slot is released: two callers never work on the same one.               *)
Owns(c) == caller[c].pc \in {"build", "start", "fail", "release"}

CallersOK ==
    \A c \in Callers : Owns(c) =>
        /\ caller[c].slot \in ProcessSlots
        /\ process_table[caller[c].slot].state = "CREATING"
        /\ CallerAt(c, "build") => \A s \in ProcessSlots : process_table[s].directory # caller[c].call
        /\ CallerAt(c, "build") => caller[c].call # 0
        /\ CallerAt(c, "start") => process_table[caller[c].slot].directory # None
        /\ caller[c].pc \in {"build", "release"} => process_table[caller[c].slot].directory = None
        /\ \A e \in Callers \ {c} : Owns(e) =>
              /\ caller[e].slot # caller[c].slot
              /\ CallerAt(e, "build") => caller[e].call # caller[c].call

(* A thread that runs is the thread of the process whose directory it has  *)
(* in cr3; every other one is in the kernel's space.                       *)
ThreadsOK ==
    /\ \A s \in ProcessSlots : process_table[s].state = "RUNNING" =>
          /\ process_table[s].directory # None
          /\ process_table[s].thread \in ThreadBlocks
          /\ thread[process_table[s].thread].state = "READY"
          /\ thread[process_table[s].thread].cr3 = process_table[s].directory
    /\ \A t \in ThreadBlocks : thread[t].state = "READY" =>
          \E s \in ProcessSlots : process_table[s].state = "RUNNING" /\ process_table[s].thread = t
    /\ \A t \in ThreadBlocks : thread[t].state = "DEAD" => thread[t].cr3 = Kernel

(* What the generation of a slot is, age reuses after it was g: the count  *)
(* wraps from PID_GEN_MASK to 1.                                           *)
Aged(g, age) == IF g + age <= PID_GEN_MASK THEN g + age ELSE g + age - PID_GEN_MASK

IdsOK ==
    /\ \A s \in ProcessSlots : process_table[s].state # "FREE" =>
          /\ process_table[s].generation # 0
          /\ process_table[s].pid = <<process_table[s].generation, s>>
    /\ \A x \in issued :
          LET s == x[1][2]
              age == reuses[s] - x[2]
          IN  /\ age >= 0 /\ process_table[s].generation # 0
              /\ age < PID_GEN_MASK => process_table[s].generation = Aged(x[1][1], age)

(* Until its slot is released, a caller's process keeps the slot.          *)
ReturnsOK ==
    \A c \in Callers : caller[c].pc # "idle" =>
        /\ caller[c].slot \in ProcessSlots
        /\ caller[c].reuse <= reuses[caller[c].slot]
        /\ caller[c].reuse = reuses[caller[c].slot] =>
              /\ process_table[caller[c].slot].state # "FREE"
              /\ process_table[caller[c].slot].pid = caller[c].pid

ProcessInv == ProcessTypeOK /\ DirectoriesOK /\ CallersOK /\ ThreadsOK /\ IdsOK /\ ReturnsOK

(* What the assumption says of the constants, for the arithmetic.          *)
LEMMA ProcessConstants ==
    /\ ProcessSlots \subseteq Nat /\ PID_GEN_MASK \in Nat /\ PID_GEN_MASK > 0
    /\ None \notin ProcessSlots /\ None \notin ThreadBlocks /\ None \notin Nat
    /\ \A pid \in Pids : /\ pid[1] \in 1..PID_GEN_MASK /\ pid[2] \in ProcessSlots
                         /\ pid = <<pid[1], pid[2]>>
BY ProcessAssumption DEF Pids

(* The empty table satisfies the invariant.                                *)
LEMMA ProcessInitInv == ProcessInit => ProcessInv
<1> SUFFICES ASSUME ProcessInit PROVE ProcessInv
    OBVIOUS
<1>1. ProcessTypeOK
    BY ProcessConstants DEF ProcessInit, ProcessTypeOK, Slot, Call, ThreadBlock, FreeSlot, NoCall,
          Kernel
<1>2. DirectoriesOK /\ CallersOK /\ ThreadsOK /\ IdsOK /\ ReturnsOK
    BY ProcessConstants DEF ProcessInit, DirectoriesOK, CallersOK, ThreadsOK, IdsOK, ReturnsOK,
          Owns, CallerAt, FreeSlot, NoCall
<1> QED BY <1>1, <1>2 DEF ProcessInv

(* process_create takes a free slot.                                       *)
LEMMA ReserveStep ==
    ASSUME ProcessInv, NEW c \in Callers, Reserve(c)
    PROVE  ProcessInv'
<1> USE ProcessConstants
<1>1. PICK s \in ProcessSlots :
          /\ process_table[s].state = "FREE"
          /\ LET g == IF process_table[s].generation = 0 THEN 1 ELSE process_table[s].generation
             IN  /\ process_table' = [process_table EXCEPT ![s].state = "CREATING",
                                         ![s].generation = g, ![s].pid = <<g, s>>]
                 /\ caller' = [caller EXCEPT ![c] = [pc |-> "build", call |-> created + 1,
                                         slot |-> s, pid |-> <<g, s>>, reuse |-> reuses[s]]]
                 /\ issued' = issued \cup {<<<<g, s>>, reuses[s]>>}
    BY DEF Reserve
<1> DEFINE g == IF process_table[s].generation = 0 THEN 1 ELSE process_table[s].generation
<1>2. ProcessTypeOK /\ created' = created + 1 /\ UNCHANGED <<thread, directories, reuses>>
      /\ CallerAt(c, "idle")
    BY DEF Reserve, ProcessInv
<1>3. g \in 1..PID_GEN_MASK /\ <<g, s>> \in Pids
  <2>1. process_table[s].generation \in 0..PID_GEN_MASK
    BY <1>2 DEF ProcessTypeOK, Slot
  <2>2. g \in 1..PID_GEN_MASK
    BY <2>1
  <2> QED BY <2>2 DEF Pids
<1>4. /\ process_table' = [process_table EXCEPT ![s].state = "CREATING",
                               ![s].generation = g, ![s].pid = <<g, s>>]
      /\ caller' = [caller EXCEPT ![c] = [pc |-> "build", call |-> created + 1,
                               slot |-> s, pid |-> <<g, s>>, reuse |-> reuses[s]]]
      /\ issued' = issued \cup {<<<<g, s>>, reuses[s]>>}
    BY <1>1
<1>5. process_table[s].generation # 0 => g = process_table[s].generation
    OBVIOUS
<1>6. process_table[s].generation = 0 => g = 1
    OBVIOUS
<1> HIDE DEF g
<1>7. ProcessTypeOK'
  <2>4. 1..created \subseteq 1..created' /\ 0..created \subseteq 0..created'
    BY <1>2 DEF ProcessTypeOK
  <2>5. \A r \in ProcessSlots : process_table[r] \in Slot'
    BY <1>2, <2>4 DEF ProcessTypeOK, Slot
  <2>1. process_table' \in [ProcessSlots -> Slot']
    <3>1. process_table' = [process_table EXCEPT ![s] =
              [process_table[s] EXCEPT !.state = "CREATING", !.generation = g, !.pid = <<g, s>>]]
      BY <1>2, <1>4 DEF ProcessTypeOK
    <3>2. [process_table[s] EXCEPT !.state = "CREATING", !.generation = g, !.pid = <<g, s>>]
              \in Slot'
      <4>1. process_table[s] \in Slot' /\ g \in 0..PID_GEN_MASK
        BY <1>3, <2>5
      <4> QED BY <1>3, <4>1 DEF Slot
    <3> QED BY <1>2, <2>5, <3>1, <3>2 DEF ProcessTypeOK
  <2>6. thread' \in [ThreadBlocks -> ThreadBlock']
    BY <1>2, <2>4 DEF ProcessTypeOK, ThreadBlock
  <2>2. caller' \in [Callers -> Call']
    BY <1>2, <1>3, <1>4 DEF ProcessTypeOK, Call
  <2>3. issued' \subseteq Pids \X Nat
    BY <1>2, <1>3, <1>4 DEF ProcessTypeOK
  <2> QED BY <1>2, <2>1, <2>2, <2>3, <2>6 DEF ProcessTypeOK
<1>8. /\ \A r \in ProcessSlots : /\ process_table'[r].directory = process_table[r].directory
                                 /\ process_table'[r].thread = process_table[r].thread
                                 /\ r # s => process_table'[r] = process_table[r]
      /\ process_table'[s].state = "CREATING" /\ process_table'[s].generation = g
      /\ process_table'[s].pid = <<g, s>>
    BY <1>2, <1>4 DEF ProcessTypeOK, Slot
<1>9. /\ caller'[c].pc = "build" /\ caller'[c].call = created + 1 /\ caller'[c].slot = s
      /\ caller'[c].pid = <<g, s>> /\ caller'[c].reuse = reuses[s]
      /\ \A e \in Callers : e # c => caller'[e] = caller[e]
    BY <1>2, <1>4 DEF ProcessTypeOK
<1>10. DirectoriesOK'
  <2>1. {process_table'[r].directory : r \in ProcessSlots}
            = {process_table[r].directory : r \in ProcessSlots}
    BY <1>8
  <2> QED BY <1>2, <1>8, <2>1 DEF ProcessInv, DirectoriesOK
<1>11. CallersOK'
  <2>1. \A r \in ProcessSlots : process_table[r].directory # created + 1
    BY <1>2 DEF ProcessTypeOK, Slot
  <2>2. \A e \in Callers : caller[e].call # created + 1
    BY <1>2 DEF ProcessTypeOK, Call
  <2>3. process_table[s].directory = None
    BY <1>1 DEF ProcessInv, DirectoriesOK
  <2> QED BY <1>1, <1>2, <1>8, <1>9, <2>1, <2>2, <2>3
          DEF ProcessInv, CallersOK, Owns, CallerAt, ProcessTypeOK
<1>12. ThreadsOK'
  <2>1. \A r \in ProcessSlots :
            (process_table'[r].state = "RUNNING") = (process_table[r].state = "RUNNING")
    BY <1>1, <1>8
  <2> QED BY <1>2, <1>8, <2>1 DEF ProcessInv, ThreadsOK
<1>13. IdsOK'
  <2>1. \A r \in ProcessSlots : process_table'[r].state # "FREE" =>
            /\ process_table'[r].generation # 0
            /\ process_table'[r].pid = <<process_table'[r].generation, r>>
    BY <1>3, <1>8 DEF ProcessInv, IdsOK
  <2>2. \A x \in issued : process_table[x[1][2]].generation = process_table'[x[1][2]].generation
    BY ZenonT(30), <1>2, <1>5, <1>8 DEF ProcessInv, IdsOK, ProcessTypeOK
  <2>3. g = Aged(g, 0) /\ reuses[s] - reuses[s] = 0
    BY <1>2, <1>3 DEF Aged, ProcessTypeOK
  <2>4. ASSUME NEW x \in issued'
        PROVE  LET r == x[1][2]
                   age == reuses[r] - x[2]
               IN  /\ age >= 0 /\ process_table'[r].generation # 0
                   /\ age < PID_GEN_MASK => process_table'[r].generation = Aged(x[1][1], age)
    <3>1. CASE x \in issued
      BY <2>2, <3>1 DEF ProcessInv, IdsOK
    <3>2. CASE x = <<<<g, s>>, reuses[s]>>
      BY <1>3, <1>8, <2>3, <3>2
    <3> QED BY <1>4, <3>1, <3>2
  <2> QED BY <1>2, <2>1, <2>4 DEF IdsOK, Aged
<1>14. ReturnsOK'
    BY <1>1, <1>2, <1>8, <1>9 DEF ProcessInv, ReturnsOK, ProcessTypeOK
<1> QED BY <1>7, <1>10, <1>11, <1>12, <1>13, <1>14 DEF ProcessInv

(* A step that only moves one caller on, along a path where it owns its    *)
(* slot to the end, or away from the whole procedure.                      *)
LEMMA CallerMoves ==
    ASSUME ProcessInv, NEW c \in Callers, NEW l,
           \/ CallerAt(c, "build") /\ l = "fail"
           \/ CallerAt(c, "start") /\ l = "fail",
           GoTo(c, l),
           UNCHANGED <<process_table, process_count, directories, created, reuses, issued>>,
           thread' \in [ThreadBlocks -> ThreadBlock], ThreadsOK'
    PROVE  ProcessInv'
<1>1. /\ ProcessTypeOK /\ caller[c].pc # "idle"
      /\ l \in {"idle", "build", "start", "return", "fail", "release"}
    BY DEF ProcessInv, CallerAt
<1>2. /\ caller' = [caller EXCEPT ![c] = [caller[c] EXCEPT !.pc = l]]
      /\ [caller[c] EXCEPT !.pc = l] \in Call
    BY <1>1 DEF GoTo, ProcessTypeOK, Call
<1>3. ProcessTypeOK'
    BY <1>1, <1>2 DEF ProcessTypeOK, Slot, Call, ThreadBlock
<1>4. /\ caller'[c].pc = l /\ caller'[c].call = caller[c].call
      /\ caller'[c].slot = caller[c].slot /\ caller'[c].pid = caller[c].pid
      /\ caller'[c].reuse = caller[c].reuse
      /\ \A e \in Callers : e # c => caller'[e] = caller[e]
    BY <1>1, <1>2 DEF ProcessTypeOK, Call
<1>5. CallersOK'
    BY <1>4 DEF ProcessInv, CallersOK, Owns, CallerAt
<1>6. ReturnsOK'
    BY <1>1, <1>4 DEF ProcessInv, ReturnsOK
<1> QED BY <1>3, <1>5, <1>6 DEF ProcessInv, DirectoriesOK, IdsOK, Aged

(* process_create goes on to its failure path when there is no directory.  *)
LEMMA NoMemoryStep ==
    ASSUME ProcessInv, NEW c \in Callers, NoMemory(c)
    PROVE  ProcessInv'
BY CallerMoves DEF NoMemory, ProcessInv, ProcessTypeOK, ThreadsOK

(* process_create goes on to its failure path when no thread can be made.  *)
LEMMA ThreadFailsStep ==
    ASSUME ProcessInv, NEW c \in Callers, ThreadFails(c)
    PROVE  ProcessInv'
BY CallerMoves DEF ThreadFails, ProcessInv, ProcessTypeOK, ThreadsOK

(* A thread made but not started is dead, and the creation fails.          *)
LEMMA StartFailsStep ==
    ASSUME ProcessInv, NEW c \in Callers, NEW t \in ThreadBlocks, StartFails(c, t)
    PROVE  ProcessInv'
<1>1. /\ thread[t].state = "NONE"
      /\ thread' = [thread EXCEPT ![t] = [state |-> "DEAD", cr3 |-> Kernel]]
      /\ CallerAt(c, "start") /\ GoTo(c, "fail")
      /\ UNCHANGED <<process_table, process_count, directories, created, reuses, issued>>
    BY DEF StartFails
<1>2. thread' \in [ThreadBlocks -> ThreadBlock]
    BY <1>1 DEF ProcessInv, ProcessTypeOK, ThreadBlock, Kernel
<1>3. /\ thread'[t].state = "DEAD" /\ thread'[t].cr3 = Kernel
      /\ \A u \in ThreadBlocks : u # t => thread'[u] = thread[u]
    BY <1>1 DEF ProcessInv, ProcessTypeOK
<1>4. \A s \in ProcessSlots : process_table[s].state = "RUNNING" => process_table[s].thread # t
    BY <1>1 DEF ProcessInv, ThreadsOK
<1>5. ThreadsOK'
    BY <1>1, <1>3, <1>4 DEF ProcessInv, ThreadsOK
<1> QED BY <1>1, <1>2, <1>5, CallerMoves

(* The new process owns its page directory alone.                          *)
LEMMA CreateSpaceStep ==
    ASSUME ProcessInv, NEW c \in Callers, address_space_create(c)
    PROVE  ProcessInv'
<1> USE ProcessConstants
<1> DEFINE s == caller[c].slot
           call == caller[c].call
<1>1. /\ CallerAt(c, "build") /\ GoTo(c, "start")
      /\ directories' = directories \cup {call}
      /\ process_table' = [process_table EXCEPT ![s].directory = call]
      /\ UNCHANGED <<process_count, thread, created, reuses, issued>>
      /\ ProcessTypeOK
    BY DEF address_space_create, ProcessInv
<1>2. /\ Owns(c) /\ s \in ProcessSlots /\ process_table[s].state = "CREATING"
      /\ process_table[s].directory = None /\ call # 0
      /\ \A r \in ProcessSlots : process_table[r].directory # call
    BY <1>1 DEF ProcessInv, CallersOK, Owns, CallerAt
<1>3. call \in 1..created /\ call # None
    BY <1>1, <1>2 DEF ProcessTypeOK, Call
<1> HIDE DEF s, call
<1>4. process_table' = [process_table EXCEPT ![s] = [process_table[s] EXCEPT !.directory = call]]
    BY <1>1
<1>5. caller' = [caller EXCEPT ![c] = [caller[c] EXCEPT !.pc = "start"]]
    BY <1>1 DEF GoTo
<1>6. ProcessTypeOK'
  <2>1. [process_table[s] EXCEPT !.directory = call] \in Slot
    BY <1>1, <1>2, <1>3 DEF ProcessTypeOK, Slot
  <2>2. [caller[c] EXCEPT !.pc = "start"] \in Call
    BY <1>1 DEF ProcessTypeOK, Call
  <2>3. Slot' = Slot /\ Call' = Call /\ ThreadBlock' = ThreadBlock
    BY <1>1 DEF Slot, Call, ThreadBlock
  <2> QED BY <1>1, <1>2, <1>4, <1>5, <2>1, <2>2, <2>3 DEF ProcessTypeOK
<1>7. /\ \A r \in ProcessSlots : r # s => process_table'[r] = process_table[r]
      /\ process_table'[s].directory = call /\ process_table'[s].state = "CREATING"
      /\ process_table'[s].generation = process_table[s].generation
      /\ process_table'[s].pid = process_table[s].pid
    BY <1>1, <1>2, <1>4 DEF ProcessTypeOK, Slot
<1>8. /\ caller'[c].pc = "start" /\ caller'[c].slot = s /\ caller'[c].pid = caller[c].pid
      /\ caller'[c].reuse = caller[c].reuse /\ caller'[c].call = call
      /\ \A e \in Callers : e # c => caller'[e] = caller[e]
    BY <1>1, <1>5 DEF ProcessTypeOK, Call, s, call
<1>9. DirectoriesOK'
  <2>1. {process_table'[r].directory : r \in ProcessSlots} \ {None}
            = ({process_table[r].directory : r \in ProcessSlots} \ {None}) \cup {call}
    BY <1>2, <1>3, <1>7
  <2> QED BY <1>1, <1>2, <1>7, <2>1 DEF ProcessInv, DirectoriesOK
<1>10. CallersOK'
    BY <1>2, <1>3, <1>7, <1>8 DEF ProcessInv, CallersOK, Owns, CallerAt, s, call
<1>11. ThreadsOK'
  <2>1. \A r \in ProcessSlots :
            /\ (process_table'[r].state = "RUNNING") = (process_table[r].state = "RUNNING")
            /\ process_table[r].state = "RUNNING" =>
                  /\ process_table'[r].directory = process_table[r].directory
                  /\ process_table'[r].thread = process_table[r].thread
    BY <1>2, <1>7
  <2> QED BY <1>1, <2>1 DEF ProcessInv, ThreadsOK
<1>12. IdsOK'
    BY <1>1, <1>2, <1>7 DEF ProcessInv, IdsOK, Aged, ProcessTypeOK
<1>13. ReturnsOK'
  <2>1. \A r \in ProcessSlots : /\ process_table'[r].pid = process_table[r].pid
                                /\ process_table'[r].state = process_table[r].state
    BY <1>2, <1>7
  <2>2. \A e \in Callers : /\ caller'[e].slot = caller[e].slot /\ caller'[e].pid = caller[e].pid
                           /\ caller'[e].reuse = caller[e].reuse
                           /\ caller'[e].pc # "idle" => caller[e].pc # "idle"
    BY <1>1, <1>8 DEF CallerAt, s
  <2> QED BY <1>1, <2>1, <2>2 DEF ProcessInv, ReturnsOK
<1> QED BY <1>6, <1>9, <1>10, <1>11, <1>12, <1>13 DEF ProcessInv

(* The thread block was nobody's, and becomes the one of the process.      *)
LEMMA StartThreadStep ==
    ASSUME ProcessInv, NEW c \in Callers, NEW t \in ThreadBlocks, StartThread(c, t)
    PROVE  ProcessInv'
<1> USE ProcessConstants
<1> DEFINE s == caller[c].slot
           directory == process_table[s].directory
<1>1. /\ CallerAt(c, "start") /\ GoTo(c, "return") /\ thread[t].state = "NONE"
      /\ thread' = [thread EXCEPT ![t] = [state |-> "READY", cr3 |-> directory]]
      /\ process_table' = [process_table EXCEPT ![s].thread = t, ![s].state = "RUNNING"]
      /\ UNCHANGED <<process_count, directories, created, reuses, issued>>
      /\ ProcessTypeOK
    BY DEF StartThread, Started, ProcessInv
<1>2. /\ Owns(c) /\ s \in ProcessSlots /\ process_table[s].state = "CREATING"
      /\ directory # None
    BY <1>1 DEF ProcessInv, CallersOK, Owns, CallerAt
<1>3. directory \in 1..created
    BY <1>1, <1>2 DEF ProcessTypeOK, Slot
<1>4. process_table' = [process_table EXCEPT ![s] =
          [process_table[s] EXCEPT !.thread = t, !.state = "RUNNING"]]
    BY <1>1, <1>2 DEF ProcessTypeOK
<1>5. caller' = [caller EXCEPT ![c] = [caller[c] EXCEPT !.pc = "return"]]
    BY <1>1 DEF GoTo
<1> HIDE DEF s
<1>6. ProcessTypeOK'
  <2>1. [process_table[s] EXCEPT !.thread = t, !.state = "RUNNING"] \in Slot
    BY <1>1, <1>2 DEF ProcessTypeOK, Slot
  <2>2. [caller[c] EXCEPT !.pc = "return"] \in Call
    BY <1>1 DEF ProcessTypeOK, Call
  <2>3. Slot' = Slot /\ Call' = Call /\ ThreadBlock' = ThreadBlock
    BY <1>1 DEF Slot, Call, ThreadBlock
  <2>4. [state |-> "READY", cr3 |-> directory] \in ThreadBlock
    BY <1>1, <1>3 DEF ThreadBlock, ProcessTypeOK
  <2> QED BY <1>1, <1>2, <1>4, <1>5, <2>1, <2>2, <2>3, <2>4 DEF ProcessTypeOK
<1>7. /\ \A r \in ProcessSlots : r # s => process_table'[r] = process_table[r]
      /\ process_table'[s].directory = directory /\ process_table'[s].state = "RUNNING"
      /\ process_table'[s].thread = t
      /\ process_table'[s].generation = process_table[s].generation
      /\ process_table'[s].pid = process_table[s].pid
    BY <1>1, <1>2, <1>4 DEF ProcessTypeOK, Slot
<1>8. /\ caller'[c].pc = "return" /\ caller'[c].slot = s /\ caller'[c].pid = caller[c].pid
      /\ caller'[c].reuse = caller[c].reuse
      /\ \A e \in Callers : e # c => caller'[e] = caller[e]
    BY <1>1, <1>5 DEF ProcessTypeOK, Call, s
<1>9. /\ thread'[t].state = "READY" /\ thread'[t].cr3 = directory
      /\ \A u \in ThreadBlocks : u # t => thread'[u] = thread[u]
    BY <1>1 DEF ProcessTypeOK
<1>10. \A r \in ProcessSlots :
          /\ process_table'[r].directory = process_table[r].directory
          /\ process_table'[r].state = "FREE" => process_table[r].state = "FREE"
    BY <1>7
<1>11. DirectoriesOK'
  <2>1. {process_table'[r].directory : r \in ProcessSlots}
            = {process_table[r].directory : r \in ProcessSlots}
    BY <1>10
  <2>2. directories' = {process_table'[r].directory : r \in ProcessSlots} \ {None}
    BY <1>1, <2>1 DEF ProcessInv, DirectoriesOK
  <2>3. \A r, q \in ProcessSlots :
            r # q => process_table'[r].directory # process_table'[q].directory
                     \/ process_table'[r].directory = None
    BY <1>10 DEF ProcessInv, DirectoriesOK
  <2> QED BY <1>10, <2>2, <2>3 DEF ProcessInv, DirectoriesOK
<1>12. CallersOK'
    BY <1>2, <1>7, <1>8, <1>10 DEF ProcessInv, CallersOK, Owns, CallerAt, s
<1>13. ThreadsOK'
  <2>1. ASSUME NEW r \in ProcessSlots, process_table[r].state = "RUNNING"
        PROVE  r # s /\ process_table[r].thread # t
    BY <1>1, <1>2, <2>1 DEF ProcessInv, ThreadsOK
  <2>2. ASSUME NEW r \in ProcessSlots, process_table'[r].state = "RUNNING"
        PROVE  /\ process_table'[r].directory # None
               /\ process_table'[r].thread \in ThreadBlocks
               /\ thread'[process_table'[r].thread].state = "READY"
               /\ thread'[process_table'[r].thread].cr3 = process_table'[r].directory
    <3>1. CASE r = s
      BY <1>2, <1>7, <1>9, <3>1
    <3>2. CASE r # s
      BY <1>7, <1>9, <2>1, <2>2, <3>2 DEF ProcessInv, ThreadsOK
    <3> QED BY <3>1, <3>2
  <2>3. ASSUME NEW u \in ThreadBlocks, thread'[u].state = "READY"
        PROVE  \E r \in ProcessSlots :
                   process_table'[r].state = "RUNNING" /\ process_table'[r].thread = u
    <3>1. CASE u = t
      BY <1>2, <1>7, <3>1
    <3>2. CASE u # t
      <4>1. PICK r \in ProcessSlots : process_table[r].state = "RUNNING" /\ process_table[r].thread = u
        BY <1>9, <2>3, <3>2 DEF ProcessInv, ThreadsOK
      <4> QED BY <1>7, <2>1, <4>1
    <3> QED BY <3>1, <3>2
  <2>4. \A u \in ThreadBlocks : thread'[u].state = "DEAD" => thread'[u].cr3 = Kernel
    BY <1>9 DEF ProcessInv, ThreadsOK
  <2> QED BY <2>2, <2>3, <2>4 DEF ThreadsOK, Kernel
<1>14. IdsOK'
    BY <1>1, <1>2, <1>7 DEF ProcessInv, IdsOK, Aged, ProcessTypeOK
<1>15. ReturnsOK'
  <2>1. \A r \in ProcessSlots : process_table'[r].pid = process_table[r].pid
    BY <1>7
  <2>2. \A e \in Callers : /\ caller'[e].slot = caller[e].slot /\ caller'[e].pid = caller[e].pid
                           /\ caller'[e].reuse = caller[e].reuse
                           /\ caller'[e].pc # "idle" => caller[e].pc # "idle"
    BY <1>1, <1>8 DEF CallerAt, s
  <2>3. ASSUME NEW e \in Callers, caller'[e].pc # "idle"
        PROVE  /\ caller'[e].slot \in ProcessSlots
               /\ caller'[e].reuse <= reuses[caller'[e].slot]
               /\ caller'[e].reuse = reuses[caller'[e].slot] =>
                     /\ process_table'[caller'[e].slot].state # "FREE"
                     /\ process_table'[caller'[e].slot].pid = caller'[e].pid
    BY <1>10, <2>1, <2>2, <2>3 DEF ProcessInv, ReturnsOK
  <2> QED BY <1>1, <2>3 DEF ReturnsOK
<1> QED BY <1>6, <1>11, <1>12, <1>13, <1>14, <1>15 DEF ProcessInv

(* Whatever the slot has become meanwhile, the caller has let go of it.    *)
LEMMA ReturnStep ==
    ASSUME ProcessInv, NEW c \in Callers, Return(c)
    PROVE  ProcessInv'
<1>1. /\ caller' = [caller EXCEPT ![c] = NoCall]
      /\ UNCHANGED <<process_table, process_count, thread, directories, created, reuses, issued>>
      /\ ProcessTypeOK
    BY DEF Return, ProcessInv
<1>2. ProcessTypeOK'
    BY <1>1 DEF ProcessTypeOK, Slot, Call, ThreadBlock, NoCall
<1>3. /\ caller'[c].pc = "idle"
      /\ \A e \in Callers : e # c => caller'[e] = caller[e]
    BY <1>1 DEF ProcessTypeOK, NoCall
<1>4. CallersOK' /\ ReturnsOK'
    BY <1>1, <1>3 DEF ProcessInv, CallersOK, ReturnsOK, Owns, CallerAt
<1> QED BY <1>1, <1>2, <1>4 DEF ProcessInv, DirectoriesOK, ThreadsOK, IdsOK, Aged

(* The scheduler reaps a dead thread.                                      *)
LEMMA ReapStep ==
    ASSUME ProcessInv, NEW t \in ThreadBlocks, Reap(t)
    PROVE  ProcessInv'
<1>1. /\ thread[t].state = "DEAD"
      /\ thread' = [thread EXCEPT ![t] = [thread[t] EXCEPT !.state = "NONE"]]
      /\ UNCHANGED <<process_table, process_count, directories, caller, created, reuses, issued>>
      /\ ProcessTypeOK
    BY DEF Reap, ProcessInv
<1>2. ProcessTypeOK'
    BY <1>1 DEF ProcessTypeOK, Slot, Call, ThreadBlock
<1>3. thread'[t].state = "NONE" /\ \A u \in ThreadBlocks : u # t => thread'[u] = thread[u]
    BY <1>1 DEF ProcessTypeOK, ThreadBlock
<1>4. ThreadsOK'
    BY <1>1, <1>3 DEF ProcessInv, ThreadsOK
<1> QED BY <1>1, <1>2, <1>4
        DEF ProcessInv, DirectoriesOK, CallersOK, IdsOK, Aged, ReturnsOK, Owns, CallerAt

(* The directory is freed by the caller that owns the slot: no thread has  *)
(* it in cr3, since the process never ran.                                 *)
LEMMA FreeResourcesStep ==
    ASSUME ProcessInv, NEW c \in Callers, FreeResources(c)
    PROVE  ProcessInv'
<1> USE ProcessConstants
<1> DEFINE s == caller[c].slot
<1>1. /\ CallerAt(c, "fail") /\ GoTo(c, "release")
      /\ directories' = directories \ {process_table[s].directory}
      /\ process_table' = [process_table EXCEPT ![s] = [process_table[s] EXCEPT !.directory = None]]
      /\ UNCHANGED <<process_count, thread, created, reuses, issued>>
      /\ ProcessTypeOK
    BY DEF FreeResources, Freed, ProcessInv
<1>2. Owns(c) /\ s \in ProcessSlots /\ process_table[s].state = "CREATING"
    BY <1>1 DEF ProcessInv, CallersOK, Owns, CallerAt
<1>3. caller' = [caller EXCEPT ![c] = [caller[c] EXCEPT !.pc = "release"]]
    BY <1>1 DEF GoTo
<1> HIDE DEF s
<1>4. ProcessTypeOK'
  <2>1. [process_table[s] EXCEPT !.directory = None] \in Slot
    BY <1>1, <1>2 DEF ProcessTypeOK, Slot
  <2>2. [caller[c] EXCEPT !.pc = "release"] \in Call
    BY <1>1 DEF ProcessTypeOK, Call
  <2>3. Slot' = Slot /\ Call' = Call /\ ThreadBlock' = ThreadBlock
    BY <1>1 DEF Slot, Call, ThreadBlock
  <2> QED BY <1>1, <1>2, <1>3, <2>1, <2>2, <2>3 DEF ProcessTypeOK
<1>5. /\ \A r \in ProcessSlots : r # s => process_table'[r] = process_table[r]
      /\ process_table'[s].directory = None /\ process_table'[s].state = "CREATING"
      /\ process_table'[s].generation = process_table[s].generation
      /\ process_table'[s].pid = process_table[s].pid
    BY <1>1, <1>2 DEF ProcessTypeOK, Slot
<1>6. /\ caller'[c].pc = "release" /\ caller'[c].slot = s /\ caller'[c].pid = caller[c].pid
      /\ caller'[c].reuse = caller[c].reuse /\ caller'[c].call = caller[c].call
      /\ \A e \in Callers : e # c => caller'[e] = caller[e]
    BY <1>1, <1>3 DEF ProcessTypeOK, Call, s
<1>7. DirectoriesOK'
  <2>1. {process_table'[r].directory : r \in ProcessSlots} \ {None}
            = ({process_table[r].directory : r \in ProcessSlots} \ {None})
              \ {process_table[s].directory}
    BY <1>2, <1>5 DEF ProcessInv, DirectoriesOK
  <2>2. directories' = {process_table'[r].directory : r \in ProcessSlots} \ {None}
    BY <1>1, <2>1 DEF ProcessInv, DirectoriesOK
  <2> QED BY <1>2, <1>5, <2>2 DEF ProcessInv, DirectoriesOK
<1>8. CallersOK'
  <2>1. \A e \in Callers : CallerAt(e, "build") => caller[e].call # None
    BY <1>1 DEF ProcessTypeOK, Call
  <2> QED BY <1>2, <1>5, <1>6, <2>1 DEF ProcessInv, CallersOK, Owns, CallerAt, s
<1>9. ThreadsOK'
  <2>1. \A r \in ProcessSlots :
            /\ (process_table'[r].state = "RUNNING") = (process_table[r].state = "RUNNING")
            /\ process_table[r].state = "RUNNING" =>
                  /\ process_table'[r].directory = process_table[r].directory
                  /\ process_table'[r].thread = process_table[r].thread
    BY <1>2, <1>5
  <2> QED BY <1>1, <2>1 DEF ProcessInv, ThreadsOK
<1>10. IdsOK'
    BY <1>1, <1>2, <1>5 DEF ProcessInv, IdsOK, Aged, ProcessTypeOK
<1>11. ReturnsOK'
  <2>1. \A r \in ProcessSlots : /\ process_table'[r].pid = process_table[r].pid
                                /\ process_table'[r].state = process_table[r].state
    BY <1>2, <1>5
  <2>2. \A e \in Callers : /\ caller'[e].slot = caller[e].slot /\ caller'[e].pid = caller[e].pid
                           /\ caller'[e].reuse = caller[e].reuse
                           /\ caller'[e].pc # "idle" => caller[e].pc # "idle"
    BY <1>1, <1>6 DEF CallerAt, s
  <2> QED BY <1>1, <2>1, <2>2 DEF ProcessInv, ReturnsOK
<1> QED BY <1>4, <1>7, <1>8, <1>9, <1>10, <1>11 DEF ProcessInv

(* What process_release_slot makes of the slots and the ids, whoever calls *)
(* it: the ids issued for the slot are one reuse older.                    *)
LEMMA SlotReleased ==
    ASSUME ProcessInv, NEW s \in ProcessSlots, process_table[s].state # "FREE",
           process_table' = Released(s), reuses' = [reuses EXCEPT ![s] = @ + 1],
           UNCHANGED <<created, issued>>
    PROVE  /\ process_table' \in [ProcessSlots -> Slot'] /\ reuses' \in [ProcessSlots -> Nat]
           /\ \A r \in ProcessSlots : r # s => process_table'[r] = process_table[r]
           /\ process_table'[s].state = "FREE" /\ process_table'[s].directory = None
           /\ \A r \in ProcessSlots : r # s => reuses'[r] = reuses[r]
           /\ reuses'[s] = reuses[s] + 1
           /\ IdsOK'
<1> USE ProcessConstants
<1> DEFINE g == process_table[s].generation
<1>1. ProcessTypeOK /\ g \in 1..PID_GEN_MASK
    BY DEF ProcessInv, ProcessTypeOK, IdsOK, Slot
<1>2. NextGeneration(g) \in 1..PID_GEN_MASK
    BY <1>1 DEF NextGeneration
<1>3. FreeSlot(NextGeneration(g)) \in Slot
    BY <1>2 DEF FreeSlot, Slot
<1>4. process_table' = [process_table EXCEPT ![s] = FreeSlot(NextGeneration(g))]
    BY DEF Released
<1>5. process_table' \in [ProcessSlots -> Slot'] /\ reuses' \in [ProcessSlots -> Nat]
    BY <1>1, <1>3, <1>4 DEF ProcessTypeOK, Slot
<1>6. /\ \A r \in ProcessSlots : r # s => process_table'[r] = process_table[r]
      /\ process_table'[s].state = "FREE" /\ process_table'[s].directory = None
      /\ process_table'[s].generation = NextGeneration(g)
    BY <1>1, <1>4 DEF ProcessTypeOK, FreeSlot
<1>7. /\ \A r \in ProcessSlots : r # s => reuses'[r] = reuses[r]
      /\ reuses'[s] = reuses[s] + 1
    BY <1>1 DEF ProcessTypeOK
<1>8. ASSUME NEW x \in issued
      PROVE  LET r == x[1][2]
                 age == reuses'[r] - x[2]
             IN  /\ age >= 0 /\ process_table'[r].generation # 0
                 /\ age < PID_GEN_MASK => process_table'[r].generation = Aged(x[1][1], age)
  <2>1. x[1] \in Pids /\ x[2] \in Nat
    BY <1>1 DEF ProcessTypeOK
  <2>2. x[1][1] \in 1..PID_GEN_MASK /\ x[1][2] \in ProcessSlots
    BY <2>1
  <2>3. CASE x[1][2] # s
    BY <1>6, <1>7, <2>2, <2>3 DEF ProcessInv, IdsOK
  <2>4. CASE x[1][2] = s
    <3> DEFINE age == reuses[s] - x[2]
    <3>1. /\ age \in Nat
          /\ age < PID_GEN_MASK => g = Aged(x[1][1], age)
      BY <1>1, <2>1, <2>4 DEF ProcessInv, IdsOK, ProcessTypeOK
    <3>2. reuses'[s] - x[2] = age + 1
      BY <1>1, <1>7, <2>1 DEF ProcessTypeOK
    <3> HIDE DEF age, g
    <3>3. age + 1 < PID_GEN_MASK => NextGeneration(g) = Aged(x[1][1], age + 1)
      BY <2>2, <3>1 DEF Aged, NextGeneration
    <3> QED BY <1>2, <1>6, <2>4, <3>1, <3>2, <3>3
  <2> QED BY <2>3, <2>4
<1>9. \A r \in ProcessSlots : process_table'[r].state # "FREE" =>
          /\ process_table'[r].generation # 0
          /\ process_table'[r].pid = <<process_table'[r].generation, r>>
    BY <1>6 DEF ProcessInv, IdsOK
<1>10. IdsOK'
    BY <1>8, <1>9 DEF IdsOK, Aged
<1> QED BY <1>5, <1>6, <1>7, <1>10

(* The slot is freed, with its next generation.                            *)
LEMMA ReleaseStep ==
    ASSUME ProcessInv, NEW c \in Callers, Release(c)
    PROVE  ProcessInv'
<1> USE ProcessConstants
<1> DEFINE s == caller[c].slot
<1>1. /\ CallerAt(c, "release") /\ process_table' = Released(s)
      /\ reuses' = [reuses EXCEPT ![s] = @ + 1]
      /\ caller' = [caller EXCEPT ![c] = NoCall]
      /\ UNCHANGED <<thread, directories, created, issued>>
      /\ ProcessTypeOK
    BY DEF Release, ProcessInv
<1>2. /\ Owns(c) /\ s \in ProcessSlots /\ process_table[s].state = "CREATING"
      /\ process_table[s].directory = None
    BY <1>1 DEF ProcessInv, CallersOK, Owns, CallerAt
<1> HIDE DEF s
<1>3. /\ process_table' \in [ProcessSlots -> Slot'] /\ reuses' \in [ProcessSlots -> Nat]
      /\ \A r \in ProcessSlots : r # s => process_table'[r] = process_table[r]
      /\ process_table'[s].state = "FREE" /\ process_table'[s].directory = None
      /\ \A r \in ProcessSlots : r # s => reuses'[r] = reuses[r]
      /\ reuses'[s] = reuses[s] + 1
      /\ IdsOK'
    BY <1>1, <1>2, SlotReleased
<1>4. ProcessTypeOK'
  <2>1. Call' = Call /\ ThreadBlock' = ThreadBlock /\ NoCall \in Call
    BY <1>1 DEF Call, ThreadBlock, NoCall, ProcessTypeOK
  <2> QED BY <1>1, <1>3, <2>1 DEF ProcessTypeOK
<1>5. /\ caller'[c].pc = "idle"
      /\ \A e \in Callers : e # c => caller'[e] = caller[e]
    BY <1>1 DEF ProcessTypeOK, NoCall
<1>6. \A r \in ProcessSlots : process_table'[r].directory = process_table[r].directory
    BY <1>2, <1>3
<1>7. DirectoriesOK'
  <2>1. {process_table'[r].directory : r \in ProcessSlots}
            = {process_table[r].directory : r \in ProcessSlots}
    BY <1>6
  <2>2. directories' = {process_table'[r].directory : r \in ProcessSlots} \ {None}
    BY <1>1, <2>1 DEF ProcessInv, DirectoriesOK
  <2> QED BY <1>3, <1>6, <2>2 DEF ProcessInv, DirectoriesOK
<1>8. CallersOK'
    BY <1>2, <1>3, <1>5, <1>6 DEF ProcessInv, CallersOK, Owns, CallerAt, s
<1>9. ThreadsOK'
  <2>1. \A r \in ProcessSlots :
            /\ (process_table'[r].state = "RUNNING") = (process_table[r].state = "RUNNING")
            /\ process_table[r].state = "RUNNING" =>
                  /\ process_table'[r].directory = process_table[r].directory
                  /\ process_table'[r].thread = process_table[r].thread
    BY <1>2, <1>3
  <2> QED BY <1>1, <2>1 DEF ProcessInv, ThreadsOK
<1>10. ReturnsOK'
    BY <1>1, <1>2, <1>3, <1>5 DEF ProcessInv, ReturnsOK, ProcessTypeOK, Call
<1> QED BY <1>3, <1>4, <1>7, <1>8, <1>9, <1>10 DEF ProcessInv

(* Any process that runs is destroyed: nobody is creating it, and its      *)
(* thread leaves the directory before that is freed.                       *)
LEMMA DestroyStep ==
    ASSUME ProcessInv, NEW pid \in Pids, DestroyProcess(pid)
    PROVE  ProcessInv'
<1> USE ProcessConstants
<1> DEFINE s == process_lookup(pid)
           t == process_table[s].thread
<1>1. /\ s # None /\ process_table[s].state = "RUNNING"
      /\ thread' = [thread EXCEPT ![t] = [state |-> "DEAD", cr3 |-> Kernel]]
      /\ directories' = directories \ {process_table[s].directory}
      /\ process_table' = Released(s)
      /\ reuses' = [reuses EXCEPT ![s] = @ + 1]
      /\ UNCHANGED <<caller, created, issued>>
      /\ ProcessTypeOK
    BY DEF DestroyProcess, Killed, Freed, ProcessInv
<1>2. s \in ProcessSlots
    BY <1>1 DEF process_lookup
<1> HIDE DEF s
<1>3. /\ process_table' \in [ProcessSlots -> Slot'] /\ reuses' \in [ProcessSlots -> Nat]
      /\ \A r \in ProcessSlots : r # s => process_table'[r] = process_table[r]
      /\ process_table'[s].state = "FREE" /\ process_table'[s].directory = None
      /\ \A r \in ProcessSlots : r # s => reuses'[r] = reuses[r]
      /\ reuses'[s] = reuses[s] + 1
      /\ IdsOK'
    BY <1>1, <1>2, SlotReleased
<1>4. t \in ThreadBlocks /\ process_table[s].directory # None /\ thread[t].state = "READY"
      /\ thread[t].cr3 = process_table[s].directory
    BY <1>1, <1>2 DEF ProcessInv, ThreadsOK
<1>5. ProcessTypeOK'
  <2>1. Call' = Call /\ ThreadBlock' = ThreadBlock
    BY <1>1 DEF Call, ThreadBlock
  <2>2. thread' \in [ThreadBlocks -> ThreadBlock]
    BY <1>1, <1>4 DEF ProcessTypeOK, ThreadBlock, Kernel
  <2> QED BY <1>1, <1>3, <2>1, <2>2 DEF ProcessTypeOK
<1>6. /\ thread'[t].state = "DEAD" /\ thread'[t].cr3 = Kernel
      /\ \A u \in ThreadBlocks : u # t => thread'[u] = thread[u]
    BY <1>1, <1>4 DEF ProcessTypeOK
<1>7. DirectoriesOK'
  <2>1. {process_table'[r].directory : r \in ProcessSlots} \ {None}
            = ({process_table[r].directory : r \in ProcessSlots} \ {None})
              \ {process_table[s].directory}
    BY <1>2, <1>3 DEF ProcessInv, DirectoriesOK
  <2>2. directories' = {process_table'[r].directory : r \in ProcessSlots} \ {None}
    BY <1>1, <2>1 DEF ProcessInv, DirectoriesOK
  <2> QED BY <1>2, <1>3, <2>2 DEF ProcessInv, DirectoriesOK
<1>8. CallersOK'
  <2>1. \A e \in Callers : CallerAt(e, "build") => caller[e].call # None
    BY <1>1 DEF ProcessTypeOK, Call
  <2> QED BY <1>1, <1>2, <1>3, <2>1 DEF ProcessInv, CallersOK, Owns, CallerAt
<1>9. ThreadsOK'
  <2>1. ASSUME NEW r \in ProcessSlots, process_table[r].state = "RUNNING", r # s
        PROVE  process_table[r].thread # t
    <3>1. process_table[r].directory # process_table[s].directory
      BY <1>2, <1>4, <2>1 DEF ProcessInv, DirectoriesOK
    <3> QED BY <1>4, <2>1, <3>1 DEF ProcessInv, ThreadsOK
  <2>2. ASSUME NEW r \in ProcessSlots, process_table'[r].state = "RUNNING"
        PROVE  /\ process_table'[r].directory # None
               /\ process_table'[r].thread \in ThreadBlocks
               /\ thread'[process_table'[r].thread].state = "READY"
               /\ thread'[process_table'[r].thread].cr3 = process_table'[r].directory
    BY <1>3, <1>6, <2>1, <2>2 DEF ProcessInv, ThreadsOK
  <2>3. ASSUME NEW u \in ThreadBlocks, thread'[u].state = "READY"
        PROVE  \E r \in ProcessSlots :
                   process_table'[r].state = "RUNNING" /\ process_table'[r].thread = u
    <3>1. u # t
      BY <1>6, <2>3
    <3>2. PICK r \in ProcessSlots : process_table[r].state = "RUNNING" /\ process_table[r].thread = u
      BY <1>6, <2>3, <3>1 DEF ProcessInv, ThreadsOK
    <3> QED BY <1>3, <3>1, <3>2
  <2>4. \A u \in ThreadBlocks : thread'[u].state = "DEAD" => thread'[u].cr3 = Kernel
    BY <1>6 DEF ProcessInv, ThreadsOK
  <2> QED BY <2>2, <2>3, <2>4 DEF ThreadsOK, Kernel
<1>10. ReturnsOK'
    BY <1>1, <1>2, <1>3 DEF ProcessInv, ReturnsOK, ProcessTypeOK, Call
<1> QED BY <1>3, <1>5, <1>7, <1>8, <1>9, <1>10 DEF ProcessInv

(* Every step of the process table preserves the invariant.                *)
LEMMA ProcessNextInv == ProcessInv /\ [ProcessNext]_processVars => ProcessInv'
<1> SUFFICES ASSUME ProcessInv, [ProcessNext]_processVars PROVE ProcessInv'
    OBVIOUS
<1>1. CASE \E c \in Callers :
          \/ Reserve(c) \/ address_space_create(c) \/ NoMemory(c)
          \/ ThreadFails(c) \/ Return(c) \/ FreeResources(c) \/ Release(c)
          \/ \E t \in ThreadBlocks : StartThread(c, t) \/ StartFails(c, t)
    BY <1>1, ReserveStep, CreateSpaceStep, NoMemoryStep, ThreadFailsStep, ReturnStep,
       FreeResourcesStep, ReleaseStep, StartThreadStep, StartFailsStep
<1>2. CASE \E pid \in Pids : DestroyProcess(pid)
    BY <1>2, DestroyStep
<1>3. CASE \E t \in ThreadBlocks : Reap(t)
    BY <1>3, ReapStep
<1>4. CASE UNCHANGED processVars
    BY <1>4 DEF processVars, ProcessInv, ProcessTypeOK, Slot, Call, ThreadBlock, DirectoriesOK,
          CallersOK, ThreadsOK, IdsOK, Aged, ReturnsOK, Owns, CallerAt
<1> QED BY <1>1, <1>2, <1>3, <1>4 DEF ProcessNext

(* The invariant says what ProcessesAreSound asks.                         *)
LEMMA ProcessInvImplies == ProcessInv => ProcessesAreSound
<1> SUFFICES ASSUME ProcessInv PROVE ProcessesAreSound
    OBVIOUS
<1> USE ProcessConstants
<1>1. ProcessTypeOK
    BY DEF ProcessInv
<1>2. AddressSpacesOwned
  <2>1. ASSUME NEW t \in ThreadBlocks, thread[t].state # "NONE"
        PROVE  thread[t].cr3 = Kernel \/ thread[t].cr3 \in directories
    <3>1. CASE thread[t].state = "READY"
      <4>1. PICK s \in ProcessSlots : process_table[s].state = "RUNNING" /\ process_table[s].thread = t
        BY <3>1 DEF ProcessInv, ThreadsOK
      <4>2. thread[t].cr3 = process_table[s].directory /\ process_table[s].directory # None
        BY <4>1 DEF ProcessInv, ThreadsOK
      <4> QED BY <4>2 DEF ProcessInv, DirectoriesOK
    <3>2. CASE thread[t].state = "DEAD"
      BY <3>2 DEF ProcessInv, ThreadsOK
    <3> QED BY <1>1, <2>1, <3>1, <3>2 DEF ProcessTypeOK, ThreadBlock
  <2>2. ASSUME NEW s \in ProcessSlots, process_table[s].state = "RUNNING"
        PROVE  thread[process_table[s].thread] =
                   [state |-> "READY", cr3 |-> process_table[s].directory]
    <3>1. /\ thread[process_table[s].thread] \in ThreadBlock
          /\ thread[process_table[s].thread].state = "READY"
          /\ thread[process_table[s].thread].cr3 = process_table[s].directory
      BY <1>1, <2>2 DEF ProcessInv, ThreadsOK, ProcessTypeOK
    <3> QED BY <3>1 DEF ThreadBlock
  <2> QED BY <2>1, <2>2 DEF AddressSpacesOwned, ProcessInv, DirectoriesOK
<1>3. StaleIdsDie
  <2>1. SUFFICES ASSUME NEW x \in issued, process_lookup(x[1]) # None,
                        reuses[x[1][2]] # x[2], reuses[x[1][2]] - x[2] < PID_GEN_MASK
                 PROVE  FALSE
    BY <1>1 DEF StaleIdsDie, ProcessTypeOK
  <2> DEFINE s == x[1][2]
             age == reuses[s] - x[2]
  <2>2. x[1] \in Pids /\ x[2] \in Nat
    BY <1>1 DEF ProcessTypeOK
  <2>3. x[1][1] \in 1..PID_GEN_MASK /\ s \in ProcessSlots /\ x[1] = <<x[1][1], s>>
    BY <2>2
  <2>4. process_table[s].generation = x[1][1]
    BY <2>1, <2>3 DEF process_lookup, ProcessInv, IdsOK
  <2>5. /\ age >= 0
        /\ age < PID_GEN_MASK => process_table[s].generation = Aged(x[1][1], age)
    BY DEF ProcessInv, IdsOK
  <2>6. age \in 1..(PID_GEN_MASK - 1)
    BY <1>1, <2>1, <2>2, <2>3, <2>5 DEF ProcessTypeOK
  <2> HIDE DEF age, s
  <2> QED BY <2>3, <2>4, <2>5, <2>6 DEF Aged
<1>4. ReturnsItsOwn
  <2>1. SUFFICES ASSUME NEW c \in Callers, CallerAt(c, "return"),
                        reuses[caller[c].slot] = caller[c].reuse
                 PROVE  Returned(c) = caller[c].pid
    BY DEF ReturnsItsOwn
  <2> QED BY <2>1 DEF ProcessInv, ReturnsOK, CallerAt, Returned
<1> QED BY <1>2, <1>3, <1>4 DEF ProcessesAreSound, PidsName

(* The invariant of the process table holds throughout.                    *)
LEMMA ProcessInvariant == ProcessSpec => []ProcessInv
<1> QED BY ProcessInitInv, ProcessNextInv, PTL DEF ProcessSpec

(* CreateProcess and DestroyProcess: no thread runs in a freed page        *)
(* directory, every directory has exactly one owner, a stale process id    *)
(* names nothing until its generation comes round again, and CreateProcess *)
(* returns the id of the process it made.                                  *)
THEOREM ProcessesSound == ProcessSpec => []ProcessesAreSound
<1> QED BY ProcessInvariant, ProcessInvImplies, PTL

-----------------------------------------------------------------------------
(***************************************************************************)
(* VFSLock.                                                                *)
(***************************************************************************)
Places == {"out", "owner", "again", "mutex", "own", "depth", "in", "clear", "release"}

LockTypeOK ==
    /\ vfs_mutex \in VfsThreads \cup {NoThread}
    /\ vfs_owner \in VfsThreads \cup {NoThread}
    /\ vfs_depth \in Nat
    /\ pc \in [VfsThreads -> Places]
    /\ nesting \in [VfsThreads -> Nat]

(* The places where a thread has the mutex: those behind TakeMutex and     *)
(* before ReleaseMutex, and the two reads of a thread that locks again.    *)
HasMutex(t) ==
    \/ pc[t] \in {"own", "depth", "in", "again", "clear", "release"}
    \/ pc[t] = "owner" /\ nesting[t] > 0

(* Where it has locked, where it is named as the owner.                    *)
Locked(t) ==
    \/ pc[t] \in {"in", "again"}
    \/ pc[t] = "owner" /\ nesting[t] > 0

Named(t) == Locked(t) \/ pc[t] \in {"depth", "clear"}

(* The inductive invariant.  The unguarded reads are harmless because only *)
(* the holder of the mutex is ever named as the owner, and because the     *)
(* owner is cleared before the mutex is released.                          *)
LockInv ==
    /\ LockTypeOK
    /\ \A t \in VfsThreads :
          /\ HasMutex(t) <=> vfs_mutex = t
          /\ Named(t) <=> vfs_owner = t
          /\ Locked(t) <=> nesting[t] > 0
          /\ Locked(t) => vfs_depth = nesting[t]
    /\ (\A t \in VfsThreads : ~Locked(t)) => vfs_depth = 0

(* The free lock satisfies the invariant.                                  *)
LEMMA LockInitInv == LockInit => LockInv
BY VFSLockAssumption
DEF LockInit, LockInv, LockTypeOK, Places, HasMutex, Locked, Named

(* Every step keeps the types.                                             *)
LEMMA LockTypeStep ==
    ASSUME LockTypeOK, NEW t \in VfsThreads,
           \/ ReadDepth(t) \/ ReadOwner(t) \/ LockAgain(t) \/ TakeMutex(t) \/ SetOwner(t)
           \/ SetDepth(t) \/ LowerDepth(t) \/ ClearOwner(t) \/ ReleaseMutex(t)
    PROVE  LockTypeOK'
<1> USE VFSLockAssumption DEF LockTypeOK, Places, Move
<1>1. CASE ReadDepth(t) \/ ReadOwner(t)
    BY <1>1 DEF ReadDepth, ReadOwner
<1>2. CASE LockAgain(t) \/ LowerDepth(t)
    BY <1>2 DEF LockAgain, LowerDepth
<1>3. CASE TakeMutex(t) \/ SetOwner(t) \/ SetDepth(t)
    BY <1>3 DEF TakeMutex, SetOwner, SetDepth
<1>4. CASE ClearOwner(t) \/ ReleaseMutex(t)
    BY <1>4 DEF ClearOwner, ReleaseMutex
<1> QED BY <1>1, <1>2, <1>3, <1>4

(* One step of one thread: what it is at and what it changes.              *)
LEMMA LockStep ==
    ASSUME LockInv, NEW t \in VfsThreads,
           \/ ReadDepth(t) \/ ReadOwner(t) \/ LockAgain(t) \/ TakeMutex(t) \/ SetOwner(t)
           \/ SetDepth(t) \/ LowerDepth(t) \/ ClearOwner(t) \/ ReleaseMutex(t)
    PROVE  LockInv'
<1> USE VFSLockAssumption DEF LockInv, HasMutex, Locked, Named, Move
<1>0. LockTypeOK'
    BY LockTypeStep
<1>1. CASE ReadDepth(t)
    BY <1>0, <1>1 DEF ReadDepth, Inside, LockTypeOK
<1>2. CASE ReadOwner(t)
    BY <1>0, <1>2 DEF ReadOwner, LockTypeOK
<1>3. CASE LockAgain(t)
    BY <1>0, <1>3 DEF LockAgain, LockTypeOK
<1>4. CASE TakeMutex(t)
    BY <1>0, <1>4 DEF TakeMutex, LockTypeOK
<1>5. CASE SetOwner(t)
    BY <1>0, <1>5 DEF SetOwner, LockTypeOK
<1>6. CASE SetDepth(t)
    BY <1>0, <1>6 DEF SetDepth, LockTypeOK
<1>7. CASE LowerDepth(t)
    BY <1>0, <1>7 DEF LowerDepth, LockTypeOK
<1>8. CASE ClearOwner(t)
    BY <1>0, <1>8 DEF ClearOwner, LockTypeOK
<1>9. CASE ReleaseMutex(t)
    BY <1>0, <1>9 DEF ReleaseMutex, LockTypeOK
<1> QED BY <1>1, <1>2, <1>3, <1>4, <1>5, <1>6, <1>7, <1>8, <1>9

(* Every step preserves the invariant.                                     *)
LEMMA LockNextInv == LockInv /\ [LockNext]_lockVars => LockInv'
<1> SUFFICES ASSUME LockInv, [LockNext]_lockVars
             PROVE  LockInv'
    OBVIOUS
<1>1. CASE UNCHANGED lockVars
    BY <1>1 DEF lockVars, LockInv, LockTypeOK, HasMutex, Locked, Named
<1>2. CASE LockNext
    BY <1>2, LockStep DEF LockNext
<1> QED BY <1>1, <1>2

(* The invariant of the lock holds throughout.                             *)
LEMMA LockInvariant == LockSpec => []LockInv
BY LockInitInv, LockNextInv, PTL DEF LockSpec

(* The unlocked test of vfs_lock never takes another thread's lock for     *)
(* one's own, whatever it reads in between, and the depth counts the calls *)
(* of the one thread inside.                                               *)
THEOREM VFSRecursionIsSound == LockSpec => []RecursionIsSound
<1>1. LockInv => RecursionIsSound
    BY DEF LockInv, LockTypeOK, RecursionIsSound, HasMutex, Locked, Named
<1> QED BY <1>1, LockInvariant, PTL

-----------------------------------------------------------------------------
(* Input.  The bytes that the keyboard and the mouse have not delivered    *)
(* lead, one scan step each, from the state of the driver to what the user *)
(* did; that the flags and the pointer end up right is the case of no      *)
(* bytes, and InputInv carries it through every byte before.               *)

(* A ring holds one element less than it has slots.                        *)
RingOf(size, values) ==
    [slot : [0..(size - 1) -> values], head : 0..(size - 1), tail : 0..(size - 1)]

(* What the queue q of that size holds, oldest first.                      *)
Held(q, size) ==
    [i \in 1..((q.head - q.tail) % size) |-> q.slot[(q.tail + i - 1) % size]]

(* A place in a ring, from one that is too far by less than a turn.        *)
LEMMA RingPlace ==
    ASSUME NEW size \in Nat \ {0}, NEW x \in 0..(2 * size - 1)
    PROVE x % size = (IF x < size THEN x ELSE x - size) /\ x % size \in 0..(size - 1)
<1>1. size \in Nat /\ size > 0 /\ x \in Int /\ x >= 0 /\ x < 2 * size
  OBVIOUS
<1>2. x % size = IF x < size THEN x ELSE x - size
  BY <1>1
<1> QED BY <1>1, <1>2

(* The next place, and the number of places from the tail to the head.     *)
LEMMA RingDistance ==
    ASSUME NEW size \in Nat \ {0}, NEW h \in 0..(size - 1), NEW t \in 0..(size - 1)
    PROVE /\ Next1(t, size) = IF t = size - 1 THEN 0 ELSE t + 1
          /\ (h - t) % size = IF h >= t THEN h - t ELSE h - t + size
<1>2. (t + 1) % size = IF t + 1 < size THEN t + 1 ELSE t + 1 - size
  <2> DEFINE x == t + 1
  <2>1. x \in 0..(2 * size - 1)
    OBVIOUS
  <2> HIDE DEF x
  <2>2. x % size = IF x < size THEN x ELSE x - size
    BY <2>1, RingPlace
  <2> QED BY <2>2 DEF x
<1>3. (h - t) % size = IF h >= t THEN h - t ELSE h - t + size
  OBVIOUS
<1> QED BY <1>2, <1>3 DEF Next1

(* A value that is pushed on a ring that is not full comes behind what the *)
(* ring holds.                                                             *)
LEMMA RingPush ==
    ASSUME NEW size \in Nat \ {0}, NEW values, NEW q \in RingOf(size, values), NEW v \in values,
           ~Full(q, size)
    PROVE /\ Pushed(q, size, v) \in RingOf(size, values)
          /\ Pushed(q, size, v).head # q.tail
          /\ Pushed(q, size, v).tail = q.tail
          /\ Pushed(q, size, v).slot[q.head] = v
          /\ q.head # q.tail => Pushed(q, size, v).slot[q.tail] = q.slot[q.tail]
          /\ Held(q, size) \in Seq(values)
          /\ Held(Pushed(q, size, v), size) = Append(Held(q, size), v)
<1> DEFINE p == Pushed(q, size, v)
           h == q.head
           t == q.tail
           n == (h - t) % size
<1>1. q \in [slot : [0..(size - 1) -> values], head : 0..(size - 1), tail : 0..(size - 1)]
  BY DEF RingOf
<1>2. h \in 0..(size - 1) /\ t \in 0..(size - 1) /\ q.slot \in [0..(size - 1) -> values]
  BY <1>1
<1>3. Next1(h, size) = (IF h = size - 1 THEN 0 ELSE h + 1)
      /\ n = (IF h >= t THEN h - t ELSE h - t + size)
  BY <1>2, RingDistance
<1>4. p = [q EXCEPT !.slot = [q.slot EXCEPT ![h] = v], !.head = Next1(h, size)]
  BY <1>1 DEF Pushed
<1>5. p \in RingOf(size, values) /\ p.tail = t /\ p.slot = [q.slot EXCEPT ![h] = v]
      /\ p.head = Next1(h, size) /\ p.head # t
  <2>1. Next1(h, size) # t
    BY DEF Full
  <2>2. Next1(h, size) \in 0..(size - 1)
    <3> HIDE DEF h, n
    <3> QED BY <1>2, <1>3
  <2> QED BY ZenonT(30), <2>1, <2>2, <1>1, <1>2, <1>4 DEF RingOf
<1> HIDE DEF n, p, h, t
<1>6. n \in 0..(size - 2) /\ n = (IF h >= t THEN h - t ELSE h - t + size)
  BY <1>2, <1>3, <1>5
<1>7. (p.head - t) % size = n + 1
  <2>1. p.head \in 0..(size - 1) /\ p.head = IF h = size - 1 THEN 0 ELSE h + 1
    BY <1>2, <1>3, <1>5
  <2>2. (p.head - t) % size = IF p.head >= t THEN p.head - t ELSE p.head - t + size
    BY <2>1, <1>2, RingDistance
  <2> QED BY <2>1, <2>2, <1>2, <1>5, <1>6
<1>8. \A i \in 1..(n + 1) : (t + i - 1) % size \in 0..(size - 1)
                          /\ ((t + i - 1) % size = h <=> i = n + 1)
  <2> SUFFICES ASSUME NEW i \in 1..(n + 1)
               PROVE (t + i - 1) % size \in 0..(size - 1) /\ ((t + i - 1) % size = h <=> i = n + 1)
    OBVIOUS
  <2> DEFINE x == t + i - 1
  <2>1. x \in 0..(2 * size - 1)
    BY <1>2, <1>6
  <2>2. x = h \/ x = h + size <=> i = n + 1
    BY <1>2, <1>6
  <2> HIDE DEF x
  <2>3. x % size = (IF x < size THEN x ELSE x - size) /\ x % size \in 0..(size - 1)
    BY <2>1, RingPlace
  <2>4. x % size = h <=> i = n + 1
    BY <2>1, <2>2, <2>3, <1>2
  <2> QED BY <2>3, <2>4 DEF x
<1> DEFINE H == Held(q, size)
           G == Held(p, size)
<1>9. H = [i \in 1..n |-> q.slot[(t + i - 1) % size]]
  BY DEF Held, n, h, t
<1>10. G = [i \in 1..(n + 1) |-> p.slot[(t + i - 1) % size]]
  BY <1>5, <1>7 DEF Held
<1> HIDE DEF H, G
<1>11. H \in Seq(values) /\ Len(H) = n
  <2>1. ASSUME NEW i \in 1..n PROVE q.slot[(t + i - 1) % size] \in values
    <3>1. i \in 1..(n + 1)
      BY <1>6
    <3>2. (t + i - 1) % size \in 0..(size - 1)
      BY <3>1, <1>8
    <3> QED BY <3>2, <1>2
  <2>2. H \in [1..n -> values] /\ n \in Nat
    BY <2>1, <1>9, <1>6
  <2> QED BY <2>2
<1>12. G = Append(H, v)
  <2>1. \A i \in 1..(n + 1) : p.slot[(t + i - 1) % size] = IF i = n + 1 THEN v ELSE H[i]
    <3> SUFFICES ASSUME NEW i \in 1..(n + 1)
                 PROVE p.slot[(t + i - 1) % size] = IF i = n + 1 THEN v ELSE H[i]
      OBVIOUS
    <3>1. (t + i - 1) % size \in 0..(size - 1) /\ ((t + i - 1) % size = h <=> i = n + 1)
      BY <1>8
    <3>2. i # n + 1 => H[i] = q.slot[(t + i - 1) % size]
      BY <1>9, <1>6
    <3>3. \A x \in 0..(size - 1) : p.slot[x] = IF x = h THEN v ELSE q.slot[x]
      BY <1>5, <1>2
    <3> QED BY <3>1, <3>2, <3>3
  <2>2. G \in Seq(values) /\ Len(G) = n + 1
    <3>1. \A i \in 1..(n + 1) : p.slot[(t + i - 1) % size] \in values
      BY <1>8, <1>5, <1>2
    <3>2. G \in [1..(n + 1) -> values] /\ n + 1 \in Nat
      BY <3>1, <1>10, <1>6
    <3> QED BY <3>2
  <2>3. /\ Append(H, v) \in Seq(values) /\ Len(Append(H, v)) = n + 1
        /\ \A i \in 1..(n + 1) : Append(H, v)[i] = IF i = n + 1 THEN v ELSE H[i]
    BY <1>11, <1>6
  <2>4. \A i \in 1..(n + 1) : G[i] = IF i = n + 1 THEN v ELSE H[i]
    BY <2>1, <1>10
  <2> QED BY <2>2, <2>3, <2>4, SeqEqual
<1> QED BY <1>5, <1>2, <1>11, <1>12 DEF p, H, G, h, t

(* The value at the tail is the first of those the ring holds.             *)
LEMMA RingPop ==
    ASSUME NEW size \in Nat \ {0}, NEW values, NEW q \in RingOf(size, values), q.head # q.tail,
           NEW p, p = [q EXCEPT !.tail = Next1(@, size)]
    PROVE /\ p \in RingOf(size, values)
          /\ Held(q, size) \in Seq(values) /\ Held(q, size) # <<>>
          /\ Head(Held(q, size)) = q.slot[q.tail]
          /\ Held(p, size) = Tail(Held(q, size))
<1> DEFINE h == q.head
           t == q.tail
           n == (h - t) % size
<1>1. q \in [slot : [0..(size - 1) -> values], head : 0..(size - 1), tail : 0..(size - 1)]
  BY DEF RingOf
<1>2. h \in 0..(size - 1) /\ t \in 0..(size - 1) /\ q.slot \in [0..(size - 1) -> values]
  BY <1>1
<1>3. Next1(t, size) = (IF t = size - 1 THEN 0 ELSE t + 1)
      /\ n = (IF h >= t THEN h - t ELSE h - t + size)
  BY <1>2, RingDistance
<1>4. p \in RingOf(size, values) /\ p.tail = Next1(t, size) /\ p.slot = q.slot /\ p.head = h
  <2>1. Next1(t, size) \in 0..(size - 1)
    <3> HIDE DEF h, t, n
    <3> QED BY <1>2, <1>3
  <2> QED BY <2>1, <1>1, <1>2 DEF RingOf
<1>h. h # t
  OBVIOUS
<1>9. Held(q, size) = [i \in 1..n |-> q.slot[(t + i - 1) % size]]
  BY DEF Held
<1> HIDE DEF n, h, t
<1>5. n \in 1..(size - 1) /\ n = (IF h >= t THEN h - t ELSE h - t + size)
  BY <1>2, <1>3, <1>h
<1> DEFINE u == p.tail
<1>p. u \in 0..(size - 1) /\ u = IF t = size - 1 THEN 0 ELSE t + 1
  BY <1>2, <1>3, <1>4
<1> HIDE DEF u
<1>6. (p.head - u) % size = n - 1
  <2>1. (h - u) % size = IF h >= u THEN h - u ELSE h - u + size
    BY <1>p, <1>2, RingDistance
  <2>2. (p.head - u) % size = (h - u) % size
    BY <1>4
  <2>3. (h - u) % size = n - 1
    <3>1. CASE t = size - 1
      BY <2>1, <1>p, <1>2, <1>5, <1>h, <3>1
    <3>2. CASE t # size - 1
      <4>1. u = t + 1
        BY <1>p, <3>2
      <4>2. (h >= u <=> h >= t) /\ h \in Int /\ t \in Int /\ size \in Int
        BY <4>1, <1>2, <1>h
      <4> QED BY <2>1, <4>1, <4>2, <1>5
    <3> QED BY <3>1, <3>2
  <2> QED BY <2>2, <2>3
<1>7. \A i \in 1..n : (t + i - 1) % size \in 0..(size - 1)
  <2> SUFFICES ASSUME NEW i \in 1..n PROVE (t + i - 1) % size \in 0..(size - 1)
    OBVIOUS
  <2>1. t + i - 1 \in 0..(2 * size - 1)
    BY <1>2, <1>5
  <2> QED BY <2>1, RingPlace
<1>8. \A i \in 1..(n - 1) : (u + i - 1) % size = (t + i) % size
  <2> SUFFICES ASSUME NEW i \in 1..(n - 1) PROVE (u + i - 1) % size = (t + i) % size
    OBVIOUS
  <2> DEFINE x == t + i
             y == u + i - 1
  <2>1. x \in 0..(2 * size - 1) /\ y \in 0..(2 * size - 1)
    <3>1. i \in Int /\ 1 <= i /\ i <= n - 1 /\ n \in Int /\ n <= size - 1
      BY <1>5
    <3>2. t \in 0..(size - 1) /\ u \in 0..(size - 1)
      BY <1>2, <1>p
    <3> QED BY <3>1, <3>2
  <2>2. y = x \/ (x >= size /\ y = x - size)
    BY <1>2, <1>p, <1>5
  <2> HIDE DEF x, y
  <2>3. x % size = IF x < size THEN x ELSE x - size
    BY <2>1, RingPlace
  <2>4. y % size = IF y < size THEN y ELSE y - size
    BY <2>1, RingPlace
  <2>5. y % size = x % size
    BY <2>1, <2>2, <2>3, <2>4
  <2> QED BY <2>5 DEF x, y
<1> DEFINE H == Held(q, size)
           G == Held(p, size)
<1>10. G = [i \in 1..(n - 1) |-> q.slot[(u + i - 1) % size]]
  BY <1>4, <1>6 DEF Held, u
<1>11. (t + 1 - 1) % size = t
  <2>1. t + 1 - 1 = t /\ t \in 0..(2 * size - 1)
    BY <1>2
  <2> QED BY <2>1, <1>2, RingPlace
<1> HIDE DEF H, G
<1>12. H \in Seq(values) /\ Len(H) = n
  <2>1. \A i \in 1..n : q.slot[(t + i - 1) % size] \in values
    BY <1>7, <1>2
  <2>2. H \in [1..n -> values] /\ n \in Nat
    BY <2>1, <1>9, <1>5 DEF H
  <2> QED BY <2>2
<1>13. H # <<>> /\ Head(H) = q.slot[t]
  <2>1. Head(H) = H[1] /\ 1 \in 1..n
    BY <1>12, <1>5
  <2> QED BY <2>1, <1>9, <1>11, <1>12, <1>5 DEF H
<1>14. G = Tail(H)
  <2>1. \A i \in 1..(n - 1) : H[i + 1] = q.slot[(u + i - 1) % size]
    <3> SUFFICES ASSUME NEW i \in 1..(n - 1) PROVE H[i + 1] = q.slot[(u + i - 1) % size]
      OBVIOUS
    <3>1. i + 1 \in 1..n /\ t + (i + 1) - 1 = t + i
      BY <1>5, <1>2
    <3> QED BY <3>1, <1>8, <1>9 DEF H
  <2>2. G \in Seq(values) /\ Len(G) = n - 1
    <3>1. \A i \in 1..(n - 1) : q.slot[(u + i - 1) % size] \in values
      <4> SUFFICES ASSUME NEW i \in 1..(n - 1) PROVE q.slot[(u + i - 1) % size] \in values
        OBVIOUS
      <4>1. i + 1 \in 1..n /\ t + (i + 1) - 1 = t + i
        BY <1>5, <1>2
      <4>2. (t + i) % size \in 0..(size - 1)
        BY <4>1, <1>7
      <4> QED BY <4>2, <1>8, <1>2
    <3>2. G \in [1..(n - 1) -> values] /\ n - 1 \in Nat
      BY <3>1, <1>10, <1>5
    <3> QED BY <3>2
  <2>3. /\ Tail(H) \in Seq(values) /\ Len(Tail(H)) = n - 1
        /\ \A i \in 1..(n - 1) : Tail(H)[i] = H[i + 1]
    BY <1>12, <1>13, <1>5
  <2>4. \A i \in 1..(n - 1) : G[i] = H[i + 1]
    BY <2>1, <1>10
  <2> QED BY <2>2, <2>3, <2>4, SeqEqual
<1> QED BY <1>4, <1>12, <1>13, <1>14 DEF H, G, h, t

(* A run of the bytes of P, one step of R for each, leads from a to z.     *)
LeadsTo(P, a, z, S, R) ==
    \E r \in [0..Len(P) -> S] :
        /\ r[0] = a /\ r[Len(P)] = z
        /\ \A i \in 1..Len(P) : <<r[i - 1], P[i], r[i]>> \in R

(* No bytes lead from a state to itself only.                              *)
LEMMA RunOfNone ==
    ASSUME NEW S, NEW R, NEW a \in S, NEW z
    PROVE LeadsTo(<<>>, a, z, S, R) <=> a = z
<1>1. ASSUME a = z PROVE LeadsTo(<<>>, a, z, S, R)
  <2> DEFINE r == [i \in 0..0 |-> a]
  <2>1. r \in [0..Len(<<>>) -> S] /\ r[0] = a /\ r[Len(<<>>)] = z
    BY <1>1
  <2>2. \A i \in 1..Len(<<>>) : <<r[i - 1], <<>>[i], r[i]>> \in R
    OBVIOUS
  <2> QED BY <2>1, <2>2 DEF LeadsTo
<1>2. ASSUME LeadsTo(<<>>, a, z, S, R) PROVE a = z
  BY <1>2 DEF LeadsTo
<1> QED BY <1>1, <1>2

(* A run goes on with the next byte that arrives.                          *)
LEMMA RunGoesOn ==
    ASSUME NEW B, NEW P \in Seq(B), NEW b \in B, NEW S, NEW R, NEW a, NEW y, NEW z \in S,
           LeadsTo(P, a, y, S, R), <<y, b, z>> \in R
    PROVE LeadsTo(Append(P, b), a, z, S, R)
<1>1. PICK r \in [0..Len(P) -> S] : /\ r[0] = a /\ r[Len(P)] = y
                                    /\ \A i \in 1..Len(P) : <<r[i - 1], P[i], r[i]>> \in R
  BY DEF LeadsTo
<1> DEFINE n == Len(P) + 1
           u == [i \in 0..n |-> IF i = n THEN z ELSE r[i]]
<1>2. Len(Append(P, b)) = n /\ Len(P) \in Nat
  OBVIOUS
<1>3. u \in [0..n -> S] /\ u[0] = a /\ u[n] = z
  BY <1>1, <1>2
<1>4. ASSUME NEW i \in 1..n PROVE <<u[i - 1], Append(P, b)[i], u[i]>> \in R
  <2>1. CASE i = n
    <3>1. Append(P, b)[i] = b /\ u[i] = z /\ u[i - 1] = r[Len(P)]
      BY <2>1, <1>2
    <3> QED BY <3>1, <1>1
  <2>2. CASE i # n
    <3>1. i \in 1..Len(P) /\ Append(P, b)[i] = P[i] /\ u[i] = r[i] /\ u[i - 1] = r[i - 1]
      BY <2>2, <1>2
    <3> QED BY <3>1, <1>1
  <2> QED BY <2>1, <2>2
<1> HIDE DEF u
<1> QED BY <1>2, <1>3, <1>4 DEF LeadsTo

(* The first byte of a run is taken, and the others lead on.               *)
LEMMA RunStarts ==
    ASSUME NEW B, NEW P \in Seq(B), P # <<>>, NEW S, NEW R, NEW a, NEW z,
           LeadsTo(P, a, z, S, R)
    PROVE \E y \in S : <<a, Head(P), y>> \in R /\ LeadsTo(Tail(P), y, z, S, R)
<1>1. PICK r \in [0..Len(P) -> S] : /\ r[0] = a /\ r[Len(P)] = z
                                    /\ \A i \in 1..Len(P) : <<r[i - 1], P[i], r[i]>> \in R
  BY DEF LeadsTo
<1> DEFINE n == Len(P) - 1
           u == [i \in 0..n |-> r[i + 1]]
<1>2. Len(Tail(P)) = n /\ Len(P) \in Nat /\ n \in Nat /\ Head(P) = P[1]
  OBVIOUS
<1>3. u \in [0..n -> S] /\ u[0] = r[1] /\ u[n] = z
  BY <1>1, <1>2
<1>4. ASSUME NEW i \in 1..n PROVE <<u[i - 1], Tail(P)[i], u[i]>> \in R
  <2>1. i + 1 \in 1..Len(P) /\ (i + 1) - 1 = i
    BY <1>2
  <2>2. Tail(P)[i] = P[i + 1] /\ u[i] = r[i + 1] /\ u[i - 1] = r[i]
    BY <1>2
  <2>3. <<r[i], P[i + 1], r[i + 1]>> \in R
    BY <2>1, <1>1
  <2> HIDE DEF u
  <2> QED BY <2>2, <2>3
<1>5. r[1] \in S /\ <<a, Head(P), r[1]>> \in R
  <2>1. 1 \in 1..Len(P) /\ 1 \in 0..Len(P)
    BY <1>2
  <2>2. <<r[1 - 1], P[1], r[1]>> \in R
    BY <2>1, <1>1
  <2> QED BY <2>1, <2>2, <1>1, <1>2
<1> HIDE DEF u
<1>6. LeadsTo(Tail(P), r[1], z, S, R)
  BY <1>2, <1>3, <1>4 DEF LeadsTo
<1> QED BY <1>5, <1>6

(* More steps allowed, and the run is still one.                           *)
LEMMA RunOfMore ==
    ASSUME NEW P, NEW a, NEW z, NEW S, NEW R, NEW Q, R \subseteq Q, LeadsTo(P, a, z, S, R)
    PROVE LeadsTo(P, a, z, S, Q)
  BY DEF LeadsTo

(* s is a subsequence of the first n elements of t.                        *)
Within(s, t, n) ==
    \E f \in [1..Len(s) -> 1..n] :
        /\ \A i, j \in 1..Len(s) : i < j => f[i] < f[j]
        /\ \A i \in 1..Len(s) : s[i] = t[f[i]]

(* A subsequence of a part is one of the whole.                            *)
LEMMA WithinMore ==
    ASSUME NEW s, NEW t, NEW n \in Nat, NEW m \in Nat, n <= m, Within(s, t, n)
    PROVE Within(s, t, m)
  BY DEF Within

(* One more element on either side.                                        *)
LEMMA WithinAppend ==
    ASSUME NEW T, NEW s \in Seq(T), NEW t \in Seq(T), NEW n \in Nat, n < Len(t), Within(s, t, n)
    PROVE Within(Append(s, t[n + 1]), t, n + 1)
<1>1. PICK f \in [1..Len(s) -> 1..n] :
        /\ \A i, j \in 1..Len(s) : i < j => f[i] < f[j]
        /\ \A i \in 1..Len(s) : s[i] = t[f[i]]
  BY DEF Within
<1> DEFINE m == Len(s) + 1
           w == Append(s, t[n + 1])
           g == [i \in 1..m |-> IF i = m THEN n + 1 ELSE f[i]]
<1>2. Len(w) = m /\ Len(s) \in Nat /\ w[m] = t[n + 1] /\ \A i \in 1..Len(s) : w[i] = s[i]
  OBVIOUS
<1>3. g \in [1..m -> 1..(n + 1)]
  BY <1>2
<1>4. ASSUME NEW i \in 1..m, NEW j \in 1..m, i < j PROVE g[i] < g[j]
  <2>1. i \in 1..Len(s) /\ g[i] = f[i] /\ f[i] \in 1..n
    BY <1>1, <1>2, <1>4
  <2>2. CASE j = m
    BY <2>1, <2>2
  <2>3. CASE j # m
    <3>1. j \in 1..Len(s) /\ g[j] = f[j]
      BY <2>3, <1>2
    <3> QED BY <2>1, <3>1, <1>1, <1>4
  <2> QED BY <2>2, <2>3
<1>5. \A i \in 1..m : w[i] = t[g[i]]
  BY <1>1, <1>2
<1> HIDE DEF g, w
<1>6. Within(w, t, n + 1)
  BY <1>2, <1>3, <1>4, <1>5 DEF Within
<1> QED BY <1>6 DEF w

(* The element behind the whole does not matter.                           *)
LEMMA WithinGrown ==
    ASSUME NEW T, NEW s, NEW t \in Seq(T), NEW v \in T, NEW n \in 0..Len(t), Within(s, t, n)
    PROVE Within(s, Append(t, v), n)
<1>1. \A i \in 1..n : Append(t, v)[i] = t[i]
  OBVIOUS
<1> QED BY <1>1 DEF Within

(* What is in the first elements is a subsequence.                         *)
LEMMA WithinIsSubsequence ==
    ASSUME NEW T, NEW s, NEW t \in Seq(T), NEW n \in 0..Len(t), Within(s, t, n)
    PROVE IsSubsequence(s, t)
<1>1. Within(s, t, Len(t))
  BY WithinMore
<1> QED BY <1>1 DEF Within, IsSubsequence

Byte == 0..255

KeyValues ==
    {NoKey} \cup {KeyValue(e, c, s) : e \in BOOLEAN, c \in 0..127, s \in BOOLEAN}

Flags == {"lctrl", "rctrl", "lalt", "ralt", "lshift", "rshift"}

(* Where the driver is in the bytes of the keyboard: the modifiers that    *)
(* are set, whether the last byte was E0, and how many keys there were.    *)
Scans == [mods : SUBSET Flags, ext : BOOLEAN, n : Nat]

ModifiersAfter(m, extended, break, scan) ==
    IF extended /\ scan \in {42, 54} THEN m
    ELSE IF break THEN m \ Modifier(extended, scan)
    ELSE m \cup Modifier(extended, scan)

(* What the byte b makes of s, if the keys are those the user typed.       *)
ScanStep(s, b, t, keys) ==
    LET scan == b % 128
        break == b >= 128
        v == IF break THEN NoKey ELSE KeyValue(s.ext, scan, Shift(t.mods))
    IN  IF b = E0 /\ ~s.ext
        THEN t.mods = s.mods /\ t.ext = TRUE /\ t.n = s.n
        ELSE /\ t.mods = ModifiersAfter(s.mods, s.ext, break, scan)
             /\ t.ext = FALSE
             /\ t.n \in 0..Len(keys)
             /\ IF v = NoKey THEN t.n = s.n ELSE t.n = s.n + 1 /\ keys[t.n] = v

ScanSteps(keys) ==
    {x \in Scans \X Byte \X Scans : ScanStep(x[1], x[2], x[3], keys)}

(* The packet that is assembled, and the pointer.                          *)
Pointers == [packet : Seq(Byte), x : Int, y : Int, buttons : Int]

PointerAfter(m, b) ==
    LET packet == IF m.packet = <<>> /\ ~Bit(b, 8) THEN <<>> ELSE Append(m.packet, b)
    IN  IF Len(packet) < 3 THEN [m EXCEPT !.packet = packet]
        ELSE [Moved(m, packet) EXCEPT !.packet = <<>>]

PointerSteps == {x \in Pointers \X Byte \X Pointers : x[3] = PointerAfter(x[1], x[2])}

InputTypeOK ==
    /\ held \subseteq Keys
    /\ kbdq \in Seq(Byte) /\ auxq \in Seq(Byte)
    /\ port \in {Nothing} \cup [aux : BOOLEAN, byte : Byte]
    /\ irq \subseteq {1, 12}
    /\ modifiers \subseteq Flags
    /\ key_queue \in RingOf(INPUT_KEY_QUEUE_SIZE, KeyValues)
    /\ mouse \in Pointers
    /\ mouse_queue \in RingOf(MOUSE_QUEUE_SIZE, Seq(Int))
    /\ dwm \in [pc : {"wait", "keys", "advance", "mouse"}, key : KeyValues]
    /\ input_event \in BOOLEAN /\ mangled \in BOOLEAN
    /\ got \in [keys : Seq(KeyValues), mouse : Seq(Int)]
    /\ user \in [keys : Seq(KeyValues), x : Int, y : Int, buttons : Int, inputs : Nat]

(* The key that was read is still in the ring until the tail advances.     *)
Advancing ==
    dwm.pc = "advance" =>
        /\ key_queue.head # key_queue.tail
        /\ dwm.key = key_queue.slot[key_queue.tail]

NothingLeft(q) == q.head = q.tail

(* A byte of the keyboard has its interrupt pending, and what comes into a *)
(* ring that the DWM has found empty comes with a signal.                  *)
Signalled ==
    /\ port # Nothing /\ ~port.aux => 1 \in irq
    /\ dwm.pc \in {"mouse", "wait"} => input_event \/ NothingLeft(key_queue)
    /\ dwm.pc = "wait" => input_event \/ NothingLeft(mouse_queue)

Newest(q) == IF q.head = 0 THEN MOUSE_QUEUE_SIZE - 1 ELSE q.head - 1

(* The last event in the ring, or the last one read, is the pointer's.     *)
NewestIsCurrent ==
    MouseEventOf(mouse) =
        IF NothingLeft(mouse_queue) THEN got.mouse ELSE mouse_queue.slot[Newest(mouse_queue)]

(* The bytes that are under way make of the driver's state what the user   *)
(* did; what is received and queued are keys typed before them.            *)
Scanned(n) == [mods |-> modifiers, ext |-> FALSE, n |-> n]

Typed == [mods |-> ModifiersOf(held), ext |-> FALSE, n |-> Len(user.keys)]

KeyboardOK ==
    \E n \in 0..Len(user.keys), s \in Scans :
        /\ LeadsTo(kbdq, s, Typed, Scans, ScanSteps(user.keys))
        /\ IF port # Nothing /\ ~port.aux
           THEN <<Scanned(n), port.byte, s>> \in ScanSteps(user.keys)
           ELSE s = Scanned(n)
        /\ Within(got.keys \o Held(key_queue, INPUT_KEY_QUEUE_SIZE), user.keys, n)

Meant == [packet |-> <<>>, x |-> user.x, y |-> user.y, buttons |-> user.buttons]

MouseOK ==
    \E s \in Pointers :
        /\ LeadsTo(auxq, s, Meant, Pointers, PointerSteps)
        /\ IF port.aux THEN <<mouse, port.byte, s>> \in PointerSteps ELSE s = mouse

InputInv ==
    /\ InputTypeOK /\ Advancing /\ Signalled /\ NewestIsCurrent
    /\ ~mangled => KeyboardOK /\ MouseOK

(* The constants, as the proofs use them.                                  *)
LEMMA InputConstants ==
    /\ INPUT_KEY_QUEUE_SIZE \in Nat \ {0} /\ INPUT_KEY_QUEUE_SIZE > 1
    /\ MOUSE_QUEUE_SIZE \in Nat \ {0} /\ MOUSE_QUEUE_SIZE > 2
    /\ Width \in Nat /\ Height \in Nat
    /\ \A k \in Keys : /\ k[1] \in BOOLEAN /\ k[2] \in 1..127 /\ k[2] # 96 /\ k = <<k[1], k[2]>>
                       /\ ~(k[1] /\ k[2] \in {42, 54})
    /\ \A p \in Moves : /\ p[1] \in Byte /\ p[2] \in Byte /\ p[3] \in Byte
                        /\ p = <<p[1], p[2], p[3]>> /\ Bit(p[1], 8)
<1>1. E0 - 128 = 96
  BY DEF E0
<1>2. ASSUME NEW k \in Keys
      PROVE /\ k[1] \in BOOLEAN /\ k[2] \in 1..127 /\ k[2] # 96 /\ k = <<k[1], k[2]>>
            /\ ~(k[1] /\ k[2] \in {42, 54})
  <2>1. k \in BOOLEAN \X ((1..127) \ {96}) /\ k # <<TRUE, 42>> /\ k # <<TRUE, 54>>
    <3>1. k \in (BOOLEAN \X ((1..127) \ {E0 - 128})) \ {<<TRUE, 42>>, <<TRUE, 54>>}
      BY InputAssumption
    <3>2. k \in BOOLEAN \X ((1..127) \ {E0 - 128}) /\ k \notin {<<TRUE, 42>>, <<TRUE, 54>>}
      BY <3>1
    <3> QED BY <3>2, <1>1
  <2>2. k[1] \in BOOLEAN /\ k[2] \in (1..127) \ {96} /\ k = <<k[1], k[2]>>
    BY <2>1
  <2> QED BY <2>1, <2>2
<1>3. ASSUME NEW p \in Moves
      PROVE /\ p[1] \in Byte /\ p[2] \in Byte /\ p[3] \in Byte
            /\ p = <<p[1], p[2], p[3]>> /\ Bit(p[1], 8)
  <2>1. p \in (0..255) \X (0..255) \X (0..255) /\ Bit(p[1], 8)
    BY InputAssumption
  <2> QED BY <2>1 DEF Byte
<1>4. /\ INPUT_KEY_QUEUE_SIZE \in Nat /\ INPUT_KEY_QUEUE_SIZE > 1
      /\ MOUSE_QUEUE_SIZE \in Nat /\ MOUSE_QUEUE_SIZE > 2 /\ Width \in Nat /\ Height \in Nat
  BY InputAssumption
<1> QED BY <1>2, <1>3, <1>4

(* What a key is worth, and that NoKey is one of the values.               *)
LEMMA KeyValueTyped ==
    /\ NoKey \in KeyValues
    /\ \A e \in BOOLEAN, c \in 0..127, s \in BOOLEAN : KeyValue(e, c, s) \in KeyValues
    /\ \A m \in SUBSET Flags : Shift(m) \in BOOLEAN
<1>1. \A e \in BOOLEAN, c \in 0..127, s \in BOOLEAN : KeyValue(e, c, s) \in KeyValues
  BY DEF KeyValues
<1>2. NoKey \in KeyValues
  BY DEF KeyValues
<1>3. \A m \in SUBSET Flags : Shift(m) \in BOOLEAN
  BY DEF Shift
<1> QED BY <1>1, <1>2, <1>3

(* The flags are modifiers', and no two keys have one flag.                *)
LEMMA ModifierFlags ==
    /\ \A e \in BOOLEAN, c \in 0..127 : Modifier(e, c) \subseteq Flags
    /\ \A k, l \in Keys : k # l => Modifier(k[1], k[2]) \cap Modifier(l[1], l[2]) = {}
<1>1. \A e \in BOOLEAN, c \in 0..127 : Modifier(e, c) \subseteq Flags
  BY DEF Modifier, Flags
<1>2. ASSUME NEW k \in Keys, NEW l \in Keys, k # l
      PROVE Modifier(k[1], k[2]) \cap Modifier(l[1], l[2]) = {}
  <2>1. /\ k[1] \in BOOLEAN /\ k[2] \in 1..127 /\ k = <<k[1], k[2]>> /\ ~(k[1] /\ k[2] \in {42, 54})
        /\ l[1] \in BOOLEAN /\ l[2] \in 1..127 /\ l = <<l[1], l[2]>> /\ ~(l[1] /\ l[2] \in {42, 54})
    BY InputConstants
  <2>2. k[1] # l[1] \/ k[2] # l[2]
    BY <2>1, <1>2
  <2> QED BY <2>1, <2>2 DEF Modifier
<1> QED BY <1>1, <1>2

(* The modifiers of the keys that are held, as one comes or goes.          *)
LEMMA HeldModifiers ==
    ASSUME NEW h \in SUBSET Keys, NEW k \in Keys
    PROVE /\ ModifiersOf(h) \in SUBSET Flags
          /\ ModifiersOf(h \cup {k}) = ModifiersOf(h) \cup Modifier(k[1], k[2])
          /\ k \in h => ModifiersOf(h \ {k}) = ModifiersOf(h) \ Modifier(k[1], k[2])
<1>1. \A l \in Keys : Modifier(l[1], l[2]) \subseteq Flags
  BY ModifierFlags, InputConstants
<1>2. ModifiersOf(h) \in SUBSET Flags
  BY <1>1 DEF ModifiersOf
<1>3. ModifiersOf(h \cup {k}) = ModifiersOf(h) \cup Modifier(k[1], k[2])
  BY DEF ModifiersOf
<1>4. k \in h => ModifiersOf(h \ {k}) = ModifiersOf(h) \ Modifier(k[1], k[2])
  <2>1. \A l \in h \ {k} : Modifier(k[1], k[2]) \cap Modifier(l[1], l[2]) = {}
    BY ModifierFlags
  <2> QED BY <2>1 DEF ModifiersOf
<1> QED BY <1>2, <1>3, <1>4

(* The bytes of a code: below 128 when the key goes down, above when up.   *)
LEMMA CodeBytes ==
    \A c \in 0..127 : /\ c \in Byte /\ c % 128 = c /\ ~(c >= 128)
                      /\ c + 128 \in Byte /\ (c + 128) % 128 = c /\ c + 128 >= 128
  BY DEF Byte

(* Any byte of the keyboard has a code.                                    *)
LEMMA ByteCode == \A b \in Byte : b % 128 \in 0..127 /\ b % 8 \in Int
  BY DEF Byte

(* A run may end with E0.                                                  *)
LEMMA RunTakesE0 ==
    ASSUME NEW P \in Seq(Byte), NEW a, NEW z \in Scans, ~z.ext, NEW keys,
           LeadsTo(P, a, z, Scans, ScanSteps(keys)),
           NEW y \in Scans, y.mods = z.mods, y.ext = TRUE, y.n = z.n
    PROVE /\ LeadsTo(Append(P, E0), a, y, Scans, ScanSteps(keys))
          /\ Append(P, E0) \in Seq(Byte)
<1>1. E0 \in Byte
  BY DEF Byte, E0
<1>2. <<z, E0, y>> \in ScanSteps(keys)
  BY <1>1 DEF ScanSteps, ScanStep
<1> QED BY <1>1, <1>2, RunGoesOn

(* The byte of a code is a step, of which a key may come.                  *)
LEMMA CodeStep ==
    ASSUME NEW z \in Scans, NEW c \in 0..127, NEW break \in BOOLEAN, z.ext \/ ~break \/ c # 96,
           NEW y \in Scans, y.mods = ModifiersAfter(z.mods, z.ext, break, c), y.ext = FALSE,
           NEW keys, y.n \in 0..Len(keys),
           NEW v, v = IF break THEN NoKey ELSE KeyValue(z.ext, c, Shift(y.mods)),
           IF v = NoKey THEN y.n = z.n ELSE y.n = z.n + 1 /\ keys[y.n] = v
    PROVE /\ ~break => c \in Byte /\ <<z, c, y>> \in ScanSteps(keys)
          /\ break => c + 128 \in Byte /\ <<z, c + 128, y>> \in ScanSteps(keys)
<1>1. /\ c \in Byte /\ c % 128 = c /\ ~(c >= 128)
      /\ c + 128 \in Byte /\ (c + 128) % 128 = c /\ c + 128 >= 128
  BY CodeBytes
<1>2. E0 = 224
  BY DEF E0
<1>3. ASSUME ~break PROVE <<z, c, y>> \in ScanSteps(keys)
  <2>1. c # E0
    BY <1>2
  <2>2. ScanStep(z, c, y, keys)
    BY <1>1, <1>3, <2>1 DEF ScanStep
  <2> QED BY <2>2, <1>1 DEF ScanSteps
<1>4. ASSUME break PROVE <<z, c + 128, y>> \in ScanSteps(keys)
  <2> DEFINE b == c + 128
  <2>1. b = E0 => z.ext
    BY <1>2, <1>4
  <2>2. b \in Byte /\ b % 128 = c /\ b >= 128
    BY <1>1
  <2> HIDE DEF b
  <2>3. ScanStep(z, b, y, keys)
    BY <2>1, <2>2, <1>4 DEF ScanStep
  <2>4. <<z, b, y>> \in ScanSteps(keys)
    BY <2>2, <2>3 DEF ScanSteps
  <2> QED BY <2>4 DEF b
<1> QED BY <1>1, <1>3, <1>4

(* The keys that are typed later do not change a run.                      *)
LEMMA RunOfMoreKeys ==
    ASSUME NEW P, NEW a, NEW z, NEW T, NEW keys \in Seq(T), NEW v \in T
    PROVE /\ ScanSteps(keys) \subseteq ScanSteps(Append(keys, v))
          /\ LeadsTo(P, a, z, Scans, ScanSteps(keys))
             => LeadsTo(P, a, z, Scans, ScanSteps(Append(keys, v)))
<1>1. Len(Append(keys, v)) = Len(keys) + 1 /\ Len(keys) \in Nat
      /\ \A i \in 1..Len(keys) : Append(keys, v)[i] = keys[i]
  OBVIOUS
<1>2. ASSUME NEW x \in ScanSteps(keys) PROVE x \in ScanSteps(Append(keys, v))
  <2>1. x \in Scans \X Byte \X Scans /\ ScanStep(x[1], x[2], x[3], keys)
    BY DEF ScanSteps
  <2>2. x[1].n \in Nat
    BY <2>1 DEF Scans
  <2>3. ScanStep(x[1], x[2], x[3], Append(keys, v))
    BY <1>1, <2>1, <2>2 DEF ScanStep
  <2> QED BY <2>1, <2>3 DEF ScanSteps
<1> QED BY <1>2, RunOfMore

(* A step of the pointer's state.                                          *)
LEMMA MovedTyped ==
    ASSUME NEW m \in Pointers, NEW p \in Seq(Byte), Len(p) >= 3
    PROVE /\ Moved(m, p) \in Pointers
          /\ Bit(p[1], 64) \/ Bit(p[1], 128) => Moved(m, p) = m
<1>1. p[1] \in Byte /\ p[2] \in Byte /\ p[3] \in Byte
  <2>1. {1, 2, 3} \subseteq 1..Len(p)
    OBVIOUS
  <2> QED BY <2>1
<1>2. \A v \in Int, max \in Int : Clamp(v, max) \in Int
  BY DEF Clamp
<1>3. \A b \in Byte : \A n : Signed(b, n) \in Int
  BY DEF Signed, Byte
<1>4. p[1] % 8 \in Int /\ Width \in Int /\ Height \in Int
  <2>1. p[1] % 8 \in Int
    BY <1>1, ByteCode, Zenon
  <2> QED BY <2>1, InputConstants
<1>5. m.x + Signed(p[2], Bit(p[1], 16)) * 256 \in Int /\ Width * 256 - 1 \in Int
      /\ m.y - Signed(p[3], Bit(p[1], 32)) * 256 \in Int /\ Height * 256 - 1 \in Int
  <2>1. m.x \in Int /\ m.y \in Int
    BY DEF Pointers
  <2>2. Signed(p[2], Bit(p[1], 16)) \in Int /\ Signed(p[3], Bit(p[1], 32)) \in Int
    BY <1>1, <1>3
  <2> DEFINE f == Signed(p[2], Bit(p[1], 16))
             g == Signed(p[3], Bit(p[1], 32))
  <2> HIDE DEF f, g
  <2>3. m.x + f * 256 \in Int /\ m.y - g * 256 \in Int
    BY <2>1, <2>2 DEF f, g
  <2> QED BY <2>3, <1>4 DEF f, g
<1>6. CASE Bit(p[1], 64) \/ Bit(p[1], 128)
  BY <1>6 DEF Moved
<1>7. CASE ~(Bit(p[1], 64) \/ Bit(p[1], 128))
  <2> DEFINE x == Clamp(m.x + Signed(p[2], Bit(p[1], 16)) * 256, Width * 256 - 1)
             y == Clamp(m.y - Signed(p[3], Bit(p[1], 32)) * 256, Height * 256 - 1)
  <2>1. x \in Int /\ y \in Int
    BY <1>2, <1>5
  <2>2. Moved(m, p) = [m EXCEPT !.buttons = p[1] % 8, !.x = x, !.y = y]
    BY <1>7 DEF Moved
  <2> HIDE DEF x, y
  <2> QED BY <2>1, <2>2, <1>4, <1>7 DEF Pointers
<1> QED BY <1>6, <1>7

(* The state stays a pointer's, whichever byte the mouse sends.            *)
LEMMA PointerTyped ==
    ASSUME NEW m \in Pointers, NEW b \in Byte
    PROVE PointerAfter(m, b) \in Pointers
<1> DEFINE packet == IF m.packet = <<>> /\ ~Bit(b, 8) THEN <<>> ELSE Append(m.packet, b)
<1>1. packet \in Seq(Byte) /\ Len(packet) \in Nat
  BY DEF Pointers
<1>2. CASE Len(packet) < 3
  BY <1>1, <1>2 DEF PointerAfter, Pointers
<1>3. CASE ~(Len(packet) < 3)
  <2>1. Moved(m, packet) \in Pointers
    <3> HIDE DEF packet
    <3>1. Len(packet) >= 3
      BY <1>1, <1>3
    <3> QED BY <1>1, <3>1, MovedTyped
  <2>2. PointerAfter(m, b) = [Moved(m, packet) EXCEPT !.packet = <<>>]
    BY <1>3 DEF PointerAfter
  <2> DEFINE n == Moved(m, packet)
  <2>3. n \in Pointers
    BY <2>1
  <2>4. [n EXCEPT !.packet = <<>>] \in Pointers
    <3> HIDE DEF n, packet
    <3>1. n \in [packet : Seq(Byte), x : Int, y : Int, buttons : Int]
      BY <2>3 DEF Pointers
    <3>2. <<>> \in Seq(Byte)
      OBVIOUS
    <3>3. [n EXCEPT !.packet = <<>>] \in [packet : Seq(Byte), x : Int, y : Int, buttons : Int]
      BY <3>1, <3>2
    <3> QED BY <3>3 DEF Pointers
  <2> QED BY <2>2, <2>4
<1> QED BY <1>2, <1>3

(* Packets as they are assembled.                                          *)
LEMMA PacketBytes ==
    \A a, b, c \in Byte :
        /\ <<a>> \in Seq(Byte) /\ <<a, b>> \in Seq(Byte) /\ <<a, b, c>> \in Seq(Byte)
        /\ Len(<<a, b, c>>) = 3
        /\ Append(<<a>>, b) = <<a, b>> /\ Append(<<a, b>>, c) = <<a, b, c>>
<1> TAKE a, b, c \in Byte
<1>1. /\ <<a>> \in Seq(Byte) /\ <<a, b>> \in Seq(Byte) /\ <<a, b, c>> \in Seq(Byte)
      /\ Len(<<a>>) = 1 /\ Len(<<a, b>>) = 2 /\ Len(<<a, b, c>>) = 3
  OBVIOUS
<1>2. Append(<<a>>, b) = <<a, b>>
  <2>1. /\ Append(<<a>>, b) \in Seq(Byte) /\ Len(Append(<<a>>, b)) = 2
        /\ \A i \in 1..2 : Append(<<a>>, b)[i] = <<a, b>>[i]
    BY <1>1
  <2> QED BY <1>1, <2>1, SeqEqual
<1>3. Append(<<a, b>>, c) = <<a, b, c>>
  <2>1. /\ Append(<<a, b>>, c) \in Seq(Byte) /\ Len(Append(<<a, b>>, c)) = 3
        /\ \A i \in 1..3 : Append(<<a, b>>, c)[i] = <<a, b, c>>[i]
    BY <1>1
  <2> QED BY <1>1, <2>1, SeqEqual
<1> QED BY <1>1, <1>2, <1>3

(* A packet behind what is under way is its three bytes, one by one.       *)
LEMMA PacketBehind ==
    ASSUME NEW P \in Seq(Byte), NEW a \in Byte, NEW b \in Byte, NEW c \in Byte
    PROVE P \o <<a, b, c>> = Append(Append(Append(P, a), b), c)
<1>1. /\ Append(Append(Append(P, a), b), c) \in Seq(Byte) /\ P \o <<a, b, c>> \in Seq(Byte)
      /\ Len(Append(Append(Append(P, a), b), c)) = Len(P) + 3
      /\ Len(P \o <<a, b, c>>) = Len(P) + 3
  OBVIOUS
<1>2. \A i \in 1..(Len(P) + 3) :
          Append(Append(Append(P, a), b), c)[i] = (P \o <<a, b, c>>)[i]
  OBVIOUS
<1> QED BY <1>1, <1>2, SeqEqual

Users == [keys : Seq(KeyValues), x : Int, y : Int, buttons : Int, inputs : Nat]

(* The pointer as u has it, with no packet begun.                          *)
PointerOf(u) == [packet |-> <<>>, x |-> u.x, y |-> u.y, buttons |-> u.buttons]

(* A packet moves both alike.                                              *)
LEMMA MovedAlike ==
    ASSUME NEW m \in Pointers, NEW u \in Users, m.x = u.x, m.y = u.y, m.buttons = u.buttons,
           NEW p \in Moves
    PROVE /\ Moved(u, p) \in Users /\ Moved(u, p).keys = u.keys /\ Moved(u, p).inputs = u.inputs
          /\ [Moved(m, p) EXCEPT !.packet = <<>>] = PointerOf(Moved(u, p))
<1>1. p \in Seq(Byte) /\ Len(p) = 3
  <2>1. p[1] \in Byte /\ p[2] \in Byte /\ p[3] \in Byte /\ p = <<p[1], p[2], p[3]>>
    BY InputConstants
  <2>2. <<p[1], p[2], p[3]>> \in Seq(Byte) /\ Len(<<p[1], p[2], p[3]>>) = 3
    BY <2>1, PacketBytes
  <2> QED BY <2>1, <2>2, Zenon
<1>2. Moved(m, p) \in Pointers
  <2>1. Len(p) >= 3
    BY <1>1
  <2> QED BY <1>1, <2>1, MovedTyped
<1>3. CASE Bit(p[1], 64) \/ Bit(p[1], 128)
  <2>1. Moved(m, p) = m /\ Moved(u, p) = u
    BY <1>3 DEF Moved
  <2> QED BY <2>1 DEF Pointers, PointerOf
<1>4. CASE ~(Bit(p[1], 64) \/ Bit(p[1], 128))
  <2> DEFINE x == Clamp(m.x + Signed(p[2], Bit(p[1], 16)) * 256, Width * 256 - 1)
             y == Clamp(m.y - Signed(p[3], Bit(p[1], 32)) * 256, Height * 256 - 1)
             b == p[1] % 8
  <2>1. Moved(m, p) = [m EXCEPT !.buttons = b, !.x = x, !.y = y]
    BY <1>4 DEF Moved
  <2>2. Moved(u, p) = [u EXCEPT !.buttons = b, !.x = x, !.y = y]
    BY <1>4 DEF Moved
  <2> HIDE DEF x, y, b
  <2>3. Moved(m, p).x = x /\ Moved(m, p).y = y /\ Moved(m, p).buttons = b
    BY <2>1 DEF Pointers
  <2>4. x \in Int /\ y \in Int /\ b \in Int
    BY <2>3, <1>2 DEF Pointers
  <2>5. [Moved(m, p) EXCEPT !.packet = <<>>] = [packet |-> <<>>, x |-> x, y |-> y, buttons |-> b]
    <3> DEFINE w == Moved(m, p)
    <3>1. w \in Pointers /\ w.x = x /\ w.y = y /\ w.buttons = b
      BY <1>2, <2>3
    <3> HIDE DEF w
    <3>2. [w EXCEPT !.packet = <<>>] = [packet |-> <<>>, x |-> x, y |-> y, buttons |-> b]
      BY <3>1 DEF Pointers
    <3> QED BY <3>2 DEF w
  <2> QED BY <2>2, <2>4, <2>5 DEF Users, PointerOf
<1> QED BY <1>3, <1>4

(* The bytes of a packet lead to where the packet moves the pointer.       *)
LEMMA RunTakesPacket ==
    ASSUME NEW P \in Seq(Byte), NEW a, NEW u \in Users, NEW p \in Moves,
           LeadsTo(P, a, PointerOf(u), Pointers, PointerSteps)
    PROVE P \o p \in Seq(Byte)
          /\ LeadsTo(P \o p, a, PointerOf(Moved(u, p)), Pointers, PointerSteps)
<1> DEFINE e0 == PointerOf(u)
           e1 == [e0 EXCEPT !.packet = <<p[1]>>]
           e2 == [e0 EXCEPT !.packet = <<p[1], p[2]>>]
           e3 == PointerOf(Moved(u, p))
<1>1. p[1] \in Byte /\ p[2] \in Byte /\ p[3] \in Byte /\ p = <<p[1], p[2], p[3]>> /\ Bit(p[1], 8)
  BY InputConstants
<1>2. e0 \in Pointers /\ e0.packet = <<>> /\ e0.x = u.x /\ e0.y = u.y /\ e0.buttons = u.buttons
  BY DEF PointerOf, Users, Pointers
<1>3. <<p[1]>> \in Seq(Byte) /\ <<p[1], p[2]>> \in Seq(Byte)
  BY <1>1
<1> HIDE DEF e0
<1>4. e1 \in Pointers /\ e1.packet = <<p[1]>>
  BY <1>2, <1>3 DEF Pointers
<1>5. e2 \in Pointers /\ e2.packet = <<p[1], p[2]>> /\ e2.x = u.x /\ e2.y = u.y
      /\ e2.buttons = u.buttons
  BY <1>2, <1>3 DEF Pointers
<1>6. e1 = PointerAfter(e0, p[1])
  <2>1. Append(<<>>, p[1]) = <<p[1]>> /\ Len(<<p[1]>>) = 1
    BY <1>1, PacketBytes
  <2> QED BY <1>1, <1>2, <2>1 DEF PointerAfter
<1>7. e2 = PointerAfter(e1, p[2])
  <2>1. Append(<<p[1]>>, p[2]) = <<p[1], p[2]>> /\ Len(<<p[1], p[2]>>) = 2 /\ <<p[1]>> # <<>>
    <3>1. Append(<<p[1]>>, p[2]) = <<p[1], p[2]>>
      BY <1>1, PacketBytes, Zenon
    <3> QED BY <3>1
  <2>2. PointerAfter(e1, p[2]) = [e1 EXCEPT !.packet = <<p[1], p[2]>>]
    <3> DEFINE packet == Append(e1.packet, p[2])
    <3>1. packet = <<p[1], p[2]>> /\ e1.packet # <<>>
      BY <1>4, <2>1, Zenon
    <3>2. Len(packet) = 2
      BY <3>1, <2>1, Zenon
    <3>3. PointerAfter(e1, p[2]) = IF Len(packet) < 3 THEN [e1 EXCEPT !.packet = packet]
                                   ELSE [Moved(e1, packet) EXCEPT !.packet = <<>>]
      BY <3>1 DEF PointerAfter
    <3> HIDE DEF packet, e1
    <3>4. PointerAfter(e1, p[2]) = [e1 EXCEPT !.packet = packet]
      BY <3>2, <3>3
    <3> QED BY <3>1, <3>4, Zenon
  <2> QED BY <2>2, <1>2 DEF Pointers
<1>8. e3 = PointerAfter(e2, p[3])
  <2>1. Append(<<p[1], p[2]>>, p[3]) = <<p[1], p[2], p[3]>> /\ Len(<<p[1], p[2], p[3]>>) = 3
        /\ <<p[1], p[2]>> # <<>>
    <3>1. Append(<<p[1], p[2]>>, p[3]) = <<p[1], p[2], p[3]>>
      BY <1>1, PacketBytes, Zenon
    <3> QED BY <3>1
  <2>2. PointerAfter(e2, p[3]) = [Moved(e2, p) EXCEPT !.packet = <<>>]
    <3> DEFINE packet == Append(e2.packet, p[3])
    <3>1. packet = <<p[1], p[2], p[3]>> /\ e2.packet # <<>>
      BY <1>5, <2>1, Zenon
    <3>2. Len(packet) = 3 /\ packet = p
      BY <3>1, <2>1, <1>1, Zenon
    <3>3. PointerAfter(e2, p[3]) = IF Len(packet) < 3 THEN [e2 EXCEPT !.packet = packet]
                                   ELSE [Moved(e2, packet) EXCEPT !.packet = <<>>]
      BY <3>1 DEF PointerAfter
    <3> HIDE DEF packet, e2
    <3>4. PointerAfter(e2, p[3]) = [Moved(e2, packet) EXCEPT !.packet = <<>>]
      <4>1. ~(Len(packet) < 3)
        BY <3>2
      <4> QED BY <4>1, <3>3, Zenon
    <3> QED BY <3>2, <3>4, Zenon
  <2> HIDE DEF e2
  <2> QED BY <2>2, <1>5, MovedAlike
<1>9. e3 \in Pointers
  BY <1>8, <1>5, <1>1, PointerTyped
<1> HIDE DEF e1, e2, e3
<1>10. <<e0, p[1], e1>> \in PointerSteps /\ <<e1, p[2], e2>> \in PointerSteps
       /\ <<e2, p[3], e3>> \in PointerSteps
  BY <1>1, <1>2, <1>4, <1>5, <1>6, <1>7, <1>8, <1>9 DEF PointerSteps
<1> DEFINE P1 == Append(P, p[1])
           P2 == Append(P1, p[2])
           P3 == Append(P2, p[3])
<1>11. P1 \in Seq(Byte) /\ LeadsTo(P1, a, e1, Pointers, PointerSteps)
  BY <1>1, <1>4, <1>10, RunGoesOn DEF e0
<1> HIDE DEF P1
<1>12. P2 \in Seq(Byte) /\ LeadsTo(P2, a, e2, Pointers, PointerSteps)
  BY <1>1, <1>5, <1>10, <1>11, RunGoesOn
<1> HIDE DEF P2
<1>13. P3 \in Seq(Byte) /\ LeadsTo(P3, a, e3, Pointers, PointerSteps)
  BY <1>1, <1>9, <1>10, <1>12, RunGoesOn
<1>14. P \o <<p[1], p[2], p[3]>> = P3
  BY <1>1, PacketBehind DEF P1, P2
<1> QED BY <1>1, <1>13, <1>14 DEF e3

(* mouse_event_handler: the next state of the pointer, and a ring whose    *)
(* newest event is the pointer's.                                          *)
LEMMA MouseByteStep ==
    ASSUME mouse \in Pointers, port.byte \in Byte, mouse_event_handler, UNCHANGED got,
           mouse_queue \in RingOf(MOUSE_QUEUE_SIZE, Seq(Int)), NewestIsCurrent
    PROVE /\ mouse' = PointerAfter(mouse, port.byte) /\ mouse' \in Pointers
          /\ mouse_queue' \in RingOf(MOUSE_QUEUE_SIZE, Seq(Int))
          /\ NewestIsCurrent'
<1> DEFINE packet == IF mouse.packet = <<>> /\ ~Bit(port.byte, 8) THEN <<>>
                     ELSE Append(mouse.packet, port.byte)
           moved == Moved(mouse, packet)
           ignored == Bit(packet[1], 64) \/ Bit(packet[1], 128)
           q == mouse_queue
           size == MOUSE_QUEUE_SIZE
<1>1. mouse' = PointerAfter(mouse, port.byte)
  BY DEF mouse_event_handler, PointerAfter
<1>2. mouse' \in Pointers
  BY <1>1, PointerTyped
<1>3. CASE Len(packet) < 3
  <2>1. mouse' = [mouse EXCEPT !.packet = packet] /\ mouse_queue' = mouse_queue
    BY <1>3 DEF mouse_event_handler
  <2> HIDE DEF packet
  <2>2. MouseEventOf(mouse') = MouseEventOf(mouse)
    BY <2>1 DEF MouseEventOf, Pointers
  <2> QED BY <1>1, <1>2, <2>1, <2>2 DEF NewestIsCurrent, NothingLeft, Newest
<1>4. CASE ~(Len(packet) < 3)
  <2>1. mouse' = [moved EXCEPT !.packet = <<>>]
        /\ mouse_queue' = IF ignored THEN mouse_queue ELSE mouse_enqueue_event(moved)
    BY <1>4 DEF mouse_event_handler
  <2>2. packet \in Seq(Byte) /\ Len(packet) >= 3
    <3>1. packet \in Seq(Byte)
      BY DEF Pointers
    <3> HIDE DEF packet
    <3> QED BY <3>1, <1>4
  <2> HIDE DEF packet
  <2>3. moved \in Pointers /\ (ignored => moved = mouse)
    BY <2>2, MovedTyped
  <2> HIDE DEF moved, ignored
  <2>4. MouseEventOf(mouse') = MouseEventOf(moved)
    BY <2>1, <2>3 DEF MouseEventOf, Pointers
  <2>5. CASE ignored
    BY <2>1, <2>3, <2>4, <2>5, <1>1, <1>2 DEF NewestIsCurrent, NothingLeft, Newest
  <2>6. CASE ~ignored
    <3> DEFINE v == MouseEventOf(moved)
    <3>1. v \in Seq(Int)
      BY <2>3 DEF MouseEventOf, Pointers
    <3>2. size \in Nat \ {0} /\ size > 2
      BY InputConstants
    <3>3. q.head \in 0..(size - 1) /\ q.tail \in 0..(size - 1) /\ q \in RingOf(size, Seq(Int))
          /\ q.slot \in [0..(size - 1) -> Seq(Int)]
      BY DEF RingOf
    <3>4. mouse_queue' = mouse_enqueue_event(moved)
      BY <2>1, <2>6
    <3> HIDE DEF v, q, size
    <3>5. Next1(q.head, size) = IF q.head = size - 1 THEN 0 ELSE q.head + 1
      BY <3>2, <3>3, RingDistance
    <3>6. CASE Full(q, size)
      <4> DEFINE newest == (q.head + size - 1) % size
      <4>1. newest = Newest(q) /\ newest \in 0..(size - 1) /\ q.head # q.tail /\ newest # q.tail
        <5> DEFINE x == q.head + size - 1
                   h == q.head
        <5>1. x \in 0..(2 * size - 1) /\ h \in 0..(size - 1) /\ x = h + size - 1
          BY <3>2, <3>3
        <5>2. q.tail = IF h = size - 1 THEN 0 ELSE h + 1
          BY <3>5, <3>6 DEF Full
        <5>3. Newest(q) = IF h = 0 THEN size - 1 ELSE h - 1
          BY DEF Newest, size
        <5> HIDE DEF x, h
        <5>4. x % size = IF x < size THEN x ELSE x - size
          BY <5>1, <3>2, RingPlace
        <5>5. x % size = IF h = 0 THEN size - 1 ELSE h - 1
          BY <5>1, <5>4, <3>2
        <5>6. newest = Newest(q)
          BY <5>3, <5>5 DEF x
        <5>7. Newest(q) \in 0..(size - 1) /\ h # q.tail /\ Newest(q) # q.tail
          BY <5>1, <5>2, <5>3, <3>2
        <5> QED BY <5>6, <5>7 DEF h
      <4>2. mouse_queue' = [q EXCEPT !.slot[newest] = v]
        BY <3>4, <3>6, <4>1 DEF mouse_enqueue_event, q, size, v
      <4> HIDE DEF newest
      <4>3. mouse_queue' \in RingOf(size, Seq(Int))
            /\ mouse_queue'.head = q.head /\ mouse_queue'.tail = q.tail
            /\ mouse_queue'.slot[newest] = v
        BY <4>1, <4>2, <3>1, <3>3 DEF RingOf
      <4>4. NewestIsCurrent'
        BY <4>1, <4>3, <2>4 DEF NewestIsCurrent, NothingLeft, Newest, v
      <4> QED BY <1>1, <1>2, <4>3, <4>4 DEF size
    <3>7. CASE ~Full(q, size)
      <4>1. mouse_queue' = Pushed(q, size, v)
        BY <3>4, <3>7 DEF mouse_enqueue_event, q, size, v
      <4>2. /\ mouse_queue' \in RingOf(size, Seq(Int))
            /\ mouse_queue'.head # q.tail /\ mouse_queue'.tail = q.tail
            /\ mouse_queue'.slot[q.head] = v
        BY <4>1, <3>1, <3>2, <3>3, <3>7, RingPush
      <4>3. mouse_queue'.head = Next1(q.head, size)
        BY <4>1, <3>3 DEF Pushed, RingOf
      <4>4. Newest(mouse_queue') = q.head
        BY <4>3, <3>5, <3>3, <3>2 DEF Newest, size
      <4>5. NewestIsCurrent'
        BY <4>2, <4>4, <2>4 DEF NewestIsCurrent, NothingLeft, v, Newest
      <4> QED BY <1>1, <1>2, <4>2, <4>5 DEF size
    <3> QED BY <3>6, <3>7
  <2> QED BY <2>5, <2>6
<1> QED BY <1>3, <1>4

(* Shift has no part in what its own keys are worth.                       *)
LEMMA ValueOfStroke ==
    ASSUME NEW k \in Keys, NEW m \in SUBSET Flags
    PROVE KeyValue(k[1], k[2], Shift(m \cup Modifier(k[1], k[2]))) = KeyValue(k[1], k[2], Shift(m))
<1>1. k[1] \in BOOLEAN /\ k[2] \in 1..127
  BY InputConstants
<1>2. CASE k[2] \in {29, 42, 54, 56}
  BY <1>1, <1>2 DEF KeyValue, Navigation, Characters
<1>3. CASE k[2] \notin {29, 42, 54, 56}
  <2>1. Modifier(k[1], k[2]) = {}
    BY <1>1, <1>3 DEF Modifier
  <2>2. m \cup Modifier(k[1], k[2]) = m
    BY <2>1
  <2> QED BY <2>2
<1> QED BY <1>2, <1>3

(* The bytes of a stroke, one by one.                                      *)
LEMMA StrokeBytes ==
    ASSUME NEW P \in Seq(Byte), NEW k \in Keys, NEW break \in BOOLEAN,
           NEW b \in Byte, b = IF break THEN k[2] + 128 ELSE k[2]
    PROVE /\ k[1] => P \o Bytes(k, break) = Append(Append(P, E0), b)
          /\ ~k[1] => P \o Bytes(k, break) = Append(P, b)
          /\ P \o Bytes(k, break) \in Seq(Byte)
<1>1. k[2] \in 0..127 /\ k[1] \in BOOLEAN
  BY InputConstants
<1>2. E0 \in Byte
  BY DEF E0, Byte
<1>3. k[2] + (IF break THEN 128 ELSE 0) = b
  BY <1>1
<1> HIDE DEF E0
<1>4. CASE k[1]
  <2>1. Bytes(k, break) = <<E0>> \o <<b>>
    BY <1>3, <1>4 DEF Bytes
  <2>2. <<E0>> \o <<b>> = Append(<<E0>>, b)
    BY <1>2
  <2>3. Append(<<E0>>, b) = <<E0, b>>
    BY <1>2, PacketBytes, Zenon
  <2>4. P \o <<E0, b>> = Append(Append(P, E0), b)
    BY <1>2
  <2>5. Append(P, E0) \in Seq(Byte)
    BY <1>2
  <2> QED BY <2>1, <2>2, <2>3, <2>4, <2>5, <1>4
<1>5. CASE ~k[1]
  <2>1. Bytes(k, break) = <<>> \o <<b>>
    BY <1>3, <1>5 DEF Bytes
  <2>2. <<>> \o <<b>> = <<b>> /\ P \o <<b>> = Append(P, b)
    OBVIOUS
  <2> QED BY <2>1, <2>2, <1>5
<1> QED BY <1>1, <1>4, <1>5

(* A stroke is scanned as what it is.                                      *)
LEMMA RunTakesStroke ==
    ASSUME NEW P \in Seq(Byte), NEW a, NEW z \in Scans, ~z.ext, NEW T, NEW keys \in Seq(T),
           NEW k \in Keys, NEW break \in BOOLEAN,
           LeadsTo(P, a, z, Scans, ScanSteps(keys)),
           NEW y \in Scans, y.mods = ModifiersAfter(z.mods, k[1], break, k[2]), y.ext = FALSE,
           NEW v, v = IF break THEN NoKey ELSE KeyValue(k[1], k[2], Shift(y.mods)),
           y.n \in 0..Len(keys), IF v = NoKey THEN y.n = z.n ELSE y.n = z.n + 1 /\ keys[y.n] = v
    PROVE /\ P \o Bytes(k, break) \in Seq(Byte)
          /\ LeadsTo(P \o Bytes(k, break), a, y, Scans, ScanSteps(keys))
<1> DEFINE c == k[2]
           b == IF break THEN c + 128 ELSE c
           x == [mods |-> z.mods, ext |-> TRUE, n |-> z.n]
<1>1. c \in 0..127 /\ k[1] \in BOOLEAN /\ c # 96
  BY InputConstants
<1>2. b \in Byte /\ b = IF break THEN c + 128 ELSE c
  <2> HIDE DEF c
  <2>1. CASE break
    BY <1>1, <2>1 DEF Byte
  <2>2. CASE ~break
    BY <1>1, <2>2 DEF Byte
  <2> QED BY <2>1, <2>2
<1> HIDE DEF b
<1>3. /\ k[1] => P \o Bytes(k, break) = Append(Append(P, E0), b)
      /\ ~k[1] => P \o Bytes(k, break) = Append(P, b)
  BY SMTT(30), <1>2, StrokeBytes
<1> HIDE DEF c
<1>4. x \in Scans /\ x.mods = z.mods /\ x.ext = TRUE /\ x.n = z.n
  BY DEF Scans
<1> HIDE DEF x
<1>5. CASE k[1]
  <2>1. LeadsTo(Append(P, E0), a, x, Scans, ScanSteps(keys)) /\ Append(P, E0) \in Seq(Byte)
    BY <1>4, RunTakesE0
  <2>2. y.mods = ModifiersAfter(x.mods, x.ext, break, c)
    BY <1>4, <1>5 DEF c
  <2>3. v = IF break THEN NoKey ELSE KeyValue(x.ext, c, Shift(y.mods))
    BY <1>4, <1>5 DEF c
  <2>4. /\ LeadsTo(Append(Append(P, E0), b), a, y, Scans, ScanSteps(keys))
        /\ Append(Append(P, E0), b) \in Seq(Byte)
    <3>2. IF v = NoKey THEN y.n = x.n ELSE y.n = x.n + 1 /\ keys[y.n] = v
      BY <1>4
    <3>3. <<x, b, y>> \in ScanSteps(keys)
      <4>1. x.ext \/ ~break \/ c # 96
        BY <1>4
      <4>2. /\ ~break => <<x, c, y>> \in ScanSteps(keys)
            /\ break => <<x, c + 128, y>> \in ScanSteps(keys)
        BY ZenonT(30), <2>2, <2>3, <3>2, <4>1, <1>1, <1>4, CodeStep
      <4> QED BY <4>2, <1>2
    <3> DEFINE Q == Append(P, E0)
    <3>4. Q \in Seq(Byte) /\ LeadsTo(Q, a, x, Scans, ScanSteps(keys))
      BY <2>1
    <3> HIDE DEF Q
    <3>5. LeadsTo(Append(Q, b), a, y, Scans, ScanSteps(keys))
      BY <3>3, <3>4, <1>2, RunGoesOn
    <3>6. Append(Q, b) \in Seq(Byte)
      BY <3>4, <1>2
    <3> QED BY <3>5, <3>6 DEF Q
  <2> QED BY <2>4, <1>3, <1>5
<1>6. CASE ~k[1]
  <2>2. y.mods = ModifiersAfter(z.mods, z.ext, break, c)
    BY <1>1, <1>6 DEF c, Scans
  <2>3. v = IF break THEN NoKey ELSE KeyValue(z.ext, c, Shift(y.mods))
    BY <1>1, <1>6 DEF c, Scans
  <2>4. /\ LeadsTo(Append(P, b), a, y, Scans, ScanSteps(keys))
        /\ Append(P, b) \in Seq(Byte)
    <3>3. <<z, b, y>> \in ScanSteps(keys)
      <4>1. z.ext \/ ~break \/ c # 96
        BY <1>1
      <4>2. /\ ~break => <<z, c, y>> \in ScanSteps(keys)
            /\ break => <<z, c + 128, y>> \in ScanSteps(keys)
        BY ZenonT(30), <2>2, <2>3, <4>1, <1>1, CodeStep
      <4> QED BY <4>2, <1>2
    <3> QED BY <3>3, <1>2, RunGoesOn
  <2> QED BY <2>4, <1>3, <1>6
<1> QED BY <1>1, <1>5, <1>6

(* The fake break that a gray key sends under Shift changes nothing.       *)
LEMMA RunTakesFake ==
    ASSUME NEW P \in Seq(Byte), NEW a, NEW z \in Scans, ~z.ext, NEW T, NEW keys \in Seq(T),
           z.n <= Len(keys), LeadsTo(P, a, z, Scans, ScanSteps(keys))
    PROVE /\ P \o <<E0, 170>> \in Seq(Byte)
          /\ LeadsTo(P \o <<E0, 170>>, a, z, Scans, ScanSteps(keys))
<1> DEFINE x == [mods |-> z.mods, ext |-> TRUE, n |-> z.n]
           b == 170
<1>1. E0 \in Byte /\ b \in Byte /\ b % 128 = 42 /\ b >= 128 /\ b # E0
  BY DEF E0, Byte
<1>2. x \in Scans /\ x.mods = z.mods /\ x.ext = TRUE /\ x.n = z.n
  BY DEF Scans
<1> HIDE DEF x, b
<1>3. LeadsTo(Append(P, E0), a, x, Scans, ScanSteps(keys)) /\ Append(P, E0) \in Seq(Byte)
  BY <1>2, RunTakesE0
<1>4. <<x, b, z>> \in ScanSteps(keys)
  <2>1. z.n \in Nat /\ Len(keys) \in Nat /\ z.ext = FALSE
    BY DEF Scans
  <2>2. ScanStep(x, b, z, keys)
    BY <1>1, <1>2, <2>1 DEF ScanStep, ModifiersAfter
  <2> QED BY <2>2, <1>1, <1>2 DEF ScanSteps
<1>5. LeadsTo(Append(Append(P, E0), b), a, z, Scans, ScanSteps(keys))
  BY <1>1, <1>3, <1>4, RunGoesOn
<1>6. P \o <<E0, b>> = Append(Append(P, E0), b) /\ P \o <<E0, b>> \in Seq(Byte)
  BY <1>1
<1> QED BY <1>5, <1>6 DEF b

(* No byte is under way when the drivers start.                            *)
LEMMA InputInitInv == InputInit => InputInv
<1> SUFFICES ASSUME InputInit PROVE InputInv
  OBVIOUS
<1> DEFINE ks == INPUT_KEY_QUEUE_SIZE
           ms == MOUSE_QUEUE_SIZE
<1>1. ks \in Nat \ {0} /\ ms \in Nat \ {0}
  BY InputConstants
<1>2. Ring(ks) \in RingOf(ks, KeyValues) /\ Ring(ms) \in RingOf(ms, Seq(Int))
  BY <1>1, KeyValueTyped DEF Ring, RingOf, NoKey
<1>3. InputTypeOK
  <2>1. mouse \in Pointers
    BY DEF InputInit, Pointers
  <2>2. got \in [keys : Seq(KeyValues), mouse : Seq(Int)]
    BY DEF InputInit
  <2>3. user \in [keys : Seq(KeyValues), x : Int, y : Int, buttons : Int, inputs : Nat]
    BY DEF InputInit
  <2>4. dwm \in [pc : {"wait", "keys", "advance", "mouse"}, key : KeyValues]
    BY KeyValueTyped DEF InputInit
  <2>5. kbdq \in Seq(Byte) /\ auxq \in Seq(Byte)
    BY DEF InputInit
  <2> QED BY <1>2, <2>1, <2>2, <2>3, <2>4, <2>5 DEF InputInit, InputTypeOK
<1>4. Advancing /\ Signalled
  BY DEF InputInit, Advancing, Signalled, NothingLeft, Ring
<1>5. NewestIsCurrent
  <2>1. MouseEventOf(mouse) = <<0, 0, 0>>
    BY DEF InputInit, MouseEventOf
  <2> QED BY <2>1 DEF InputInit, NewestIsCurrent, NothingLeft, Ring
<1>6. KeyboardOK
  <2>1. Typed \in Scans /\ Scanned(0) = Typed /\ user.keys = <<>> /\ Len(user.keys) = 0
    BY DEF InputInit, Typed, Scanned, Scans, ModifiersOf
  <2>2. LeadsTo(kbdq, Typed, Typed, Scans, ScanSteps(user.keys))
    BY <2>1, RunOfNone DEF InputInit
  <2>3. Held(key_queue, ks) = <<>>
    <3>1. key_queue.head = 0 /\ key_queue.tail = 0
      BY DEF InputInit, Ring
    <3>2. (0 - 0) % ks = 0
      BY <1>1
    <3>3. 1..((key_queue.head - key_queue.tail) % ks) = {}
      BY <3>1, <3>2
    <3> QED BY <3>3 DEF Held
  <2>4. Within(got.keys \o Held(key_queue, ks), user.keys, 0)
    <3>1. got.keys \o Held(key_queue, ks) = <<>>
      BY <2>3 DEF InputInit
    <3> DEFINE f == [i \in 1..0 |-> i]
    <3>2. f \in [1..Len(<<>>) -> 1..0]
      OBVIOUS
    <3>3. /\ \A i, j \in 1..Len(<<>>) : i < j => f[i] < f[j]
          /\ \A i \in 1..Len(<<>>) : <<>>[i] = user.keys[f[i]]
      OBVIOUS
    <3> HIDE DEF f
    <3>4. Within(<<>>, user.keys, 0)
      BY <3>2, <3>3 DEF Within
    <3> QED BY <3>1, <3>4
  <2>5. ~(port # Nothing /\ ~port.aux)
    BY DEF InputInit
  <2> QED BY <2>1, <2>2, <2>4, <2>5 DEF KeyboardOK
<1>7. MouseOK
  <2>1. mouse \in Pointers /\ mouse = Meant
    BY DEF InputInit, Pointers, Meant
  <2>2. LeadsTo(auxq, mouse, Meant, Pointers, PointerSteps)
    BY <2>1, RunOfNone DEF InputInit
  <2>3. port.aux = FALSE
    BY DEF InputInit, Nothing
  <2> QED BY <2>1, <2>2, <2>3 DEF MouseOK
<1> QED BY <1>3, <1>4, <1>5, <1>6, <1>7 DEF InputInv

(* What the proofs take from the types.                                    *)
LEMMA InputTypes ==
    ASSUME InputTypeOK
    PROVE /\ modifiers \in SUBSET Flags /\ ModifiersOf(held) \in SUBSET Flags
          /\ user.keys \in Seq(KeyValues) /\ got.keys \in Seq(KeyValues) /\ user \in Users
          /\ Len(user.keys) \in Nat
          /\ Typed \in Scans
          /\ \A n \in Nat : Scanned(n) \in Scans
          /\ port.aux \in BOOLEAN /\ (port # Nothing => port.byte \in Byte)
          /\ port = Nothing => ~port.aux
<1>1. modifiers \in SUBSET Flags
  BY DEF InputTypeOK
<1>2. ModifiersOf(held) \in SUBSET Flags
  <2>1. \A l \in Keys : Modifier(l[1], l[2]) \subseteq Flags
    BY ModifierFlags, InputConstants
  <2> QED BY <2>1 DEF ModifiersOf, InputTypeOK
<1>3. /\ user.keys \in Seq(KeyValues) /\ got.keys \in Seq(KeyValues) /\ user \in Users
      /\ Len(user.keys) \in Nat
  BY DEF InputTypeOK, Users
<1>4. Typed \in Scans /\ \A n \in Nat : Scanned(n) \in Scans
  BY <1>1, <1>2, <1>3 DEF Typed, Scanned, Scans
<1>5. /\ port.aux \in BOOLEAN /\ (port # Nothing => port.byte \in Byte)
      /\ port = Nothing => ~port.aux
  <2>1. Nothing.aux = FALSE
    BY DEF Nothing
  <2>2. port = Nothing \/ port \in [aux : BOOLEAN, byte : Byte]
    BY DEF InputTypeOK
  <2> QED BY <2>1, <2>2
<1> QED BY <1>1, <1>2, <1>3, <1>4, <1>5

(* What is seen of the keyboard does not change.                           *)
LEMMA KeyboardStays ==
    ASSUME KeyboardOK, UNCHANGED <<kbdq, port, modifiers, held, user>>,
           got.keys' \o Held(key_queue, INPUT_KEY_QUEUE_SIZE)'
             = got.keys \o Held(key_queue, INPUT_KEY_QUEUE_SIZE)
    PROVE KeyboardOK'
  BY DEF KeyboardOK, Typed, Scanned, Held

(* What is seen of the mouse does not change.                              *)
LEMMA MouseStays ==
    ASSUME MouseOK, UNCHANGED <<auxq, mouse, port>>, Meant' = Meant
    PROVE MouseOK'
  BY DEF MouseOK

(* The user presses a key.                                                 *)
LEMMA PressStep ==
    ASSUME InputInv, NEW k \in Keys, Press(k)
    PROVE InputInv'
<1> DEFINE ks == INPUT_KEY_QUEUE_SIZE
           gray == k[1] /\ k[2] \in Navigation /\ Shift(ModifiersOf(held))
           fake == IF gray THEN <<E0, 170>> ELSE <<>>
           value == KeyValue(k[1], k[2], Shift(ModifiersOf(held)))
           keys == IF value = NoKey THEN user.keys ELSE Append(user.keys, value)
           m == ModifiersOf(held)
<1>1. InputTypeOK
  BY DEF InputInv
<1>2. /\ k \notin held /\ held' = held \cup {k} /\ kbdq' = kbdq \o fake \o Bytes(k, FALSE)
      /\ user' = [user EXCEPT !.inputs = @ + 1, !.keys = keys]
      /\ UNCHANGED <<auxq, port, irq, modifiers, key_queue, mouse, mouse_queue, dwm, input_event,
                     got, mangled>>
  BY DEF Press
<1>3. k[1] \in BOOLEAN /\ k[2] \in 0..127 /\ m \in SUBSET Flags /\ ModifiersOf(held') \in SUBSET Flags
      /\ ModifiersOf(held') = m \cup Modifier(k[1], k[2]) /\ ~(k[1] /\ k[2] \in {42, 54})
  <2>1. held \in SUBSET Keys /\ held' \in SUBSET Keys
    BY <1>1, <1>2 DEF InputTypeOK
  <2>2. k[1] \in BOOLEAN /\ k[2] \in 1..127 /\ ~(k[1] /\ k[2] \in {42, 54})
    BY InputConstants
  <2>3. m \in SUBSET Flags /\ ModifiersOf(held \cup {k}) = m \cup Modifier(k[1], k[2])
    BY <2>1, HeldModifiers
  <2>4. ModifiersOf(held') \in SUBSET Flags
    BY <2>1, HeldModifiers
  <2>5. k[2] \in 0..127
    BY <2>2
  <2> HIDE DEF m
  <2>6. ModifiersOf(held') = m \cup Modifier(k[1], k[2])
    BY <2>3, <1>2
  <2> QED BY <2>2, <2>3, <2>4, <2>5, <2>6
<1>4. value \in KeyValues /\ keys \in Seq(KeyValues)
  <2>1. value \in KeyValues
    BY <1>3, KeyValueTyped
  <2> HIDE DEF value
  <2> QED BY <2>1, <1>1, InputTypes
<1> HIDE DEF m
<1>5. user.keys \in Seq(KeyValues) /\ kbdq \in Seq(Byte) /\ Len(user.keys) \in Nat
  BY <1>1, InputTypes DEF InputTypeOK
<1> DEFINE n == IF value = NoKey THEN Len(user.keys) ELSE Len(user.keys) + 1
<1>6. Len(keys) = n /\ n \in Nat /\ Len(user.keys) <= n
      /\ (value # NoKey => keys[n] = value)
      /\ \A i \in 1..Len(user.keys) : keys[i] = user.keys[i]
  <2> HIDE DEF value
  <2>1. CASE value = NoKey
    BY <2>1, <1>5
  <2>2. CASE value # NoKey
    BY <2>2, <1>4, <1>5
  <2> QED BY <2>1, <2>2
<1>7. user'.keys = keys /\ user'.x = user.x /\ user'.y = user.y /\ user'.buttons = user.buttons
      /\ user' \in Users
  <2>1. user \in Users
    BY <1>1, InputTypes
  <2> HIDE DEF keys
  <2>2. user.inputs \in Nat /\ user \in [keys : Seq(KeyValues), x : Int, y : Int, buttons : Int, inputs : Nat]
    BY <2>1 DEF Users
  <2> DEFINE i == user.inputs + 1
  <2>3. i \in Nat /\ user' = [user EXCEPT !.inputs = i, !.keys = keys]
    BY <2>2, <1>2
  <2> HIDE DEF i
  <2> QED BY <2>2, <2>3, <1>4 DEF Users
<1> HIDE DEF value, keys, n
<1>8. \A P, a, z : LeadsTo(P, a, z, Scans, ScanSteps(user.keys))
                   => LeadsTo(P, a, z, Scans, ScanSteps(keys))
  <2>1. ScanSteps(user.keys) \subseteq ScanSteps(keys)
    BY <1>4, <1>5, RunOfMoreKeys DEF keys
  <2> QED BY <2>1, RunOfMore
<1>9. ScanSteps(user.keys) \subseteq ScanSteps(keys)
  BY <1>4, <1>5, RunOfMoreKeys DEF keys
<1> DEFINE P1 == kbdq \o fake
<1>10. P1 \in Seq(Byte)
       /\ \A a : LeadsTo(kbdq, a, Typed, Scans, ScanSteps(keys))
                 => LeadsTo(P1, a, Typed, Scans, ScanSteps(keys))
  <2>1. Typed \in Scans /\ ~Typed.ext /\ Typed.n <= Len(keys)
    BY <1>1, <1>6, InputTypes DEF Typed
  <2>2. CASE gray
    <3>1. P1 = kbdq \o <<E0, 170>>
      BY <2>2
    <3>2. P1 \in Seq(Byte)
      <4>1. E0 \in Byte /\ 170 \in Byte
        BY DEF E0, Byte
      <4>2. <<E0, 170>> \in Seq(Byte)
        BY <4>1, PacketBytes, Zenon
      <4> QED BY <3>1, <4>2, <1>5
    <3>3. ASSUME NEW a, LeadsTo(kbdq, a, Typed, Scans, ScanSteps(keys))
          PROVE LeadsTo(P1, a, Typed, Scans, ScanSteps(keys))
      <4>1. LeadsTo(kbdq \o <<E0, 170>>, a, Typed, Scans, ScanSteps(keys))
        BY <2>1, <3>3, <1>4, <1>5, RunTakesFake
      <4> QED BY <4>1, <3>1
    <3> QED BY <3>2, <3>3
  <2>3. CASE ~gray
    <3>1. P1 = kbdq
      BY <2>3, <1>5
    <3> QED BY <3>1, <1>5
  <2> QED BY <2>2, <2>3
<1> HIDE DEF P1
<1>11. kbdq' = P1 \o Bytes(k, FALSE)
  BY <1>2 DEF P1
<1>12. kbdq' \in Seq(Byte)
       /\ \A a : LeadsTo(P1, a, Typed, Scans, ScanSteps(keys))
                 => LeadsTo(kbdq', a, Typed', Scans, ScanSteps(keys))
  <2>1. Typed \in Scans /\ ~Typed.ext /\ Typed.mods = m /\ Typed.n = Len(user.keys)
    BY <1>1, InputTypes DEF Typed, m
  <2>2. Typed' \in Scans /\ Typed'.ext = FALSE /\ Typed'.n = n
        /\ Typed'.mods = ModifiersAfter(Typed.mods, k[1], FALSE, k[2])
    BY <1>3, <1>6, <1>7, <2>1 DEF Typed, Scans, ModifiersAfter, m
  <2>3. value = IF FALSE THEN NoKey ELSE KeyValue(k[1], k[2], Shift(Typed'.mods))
    BY <1>3, ValueOfStroke DEF value, Typed, m
  <2>4. IF value = NoKey THEN Typed'.n = Typed.n ELSE Typed'.n = Typed.n + 1 /\ keys[Typed'.n] = value
    BY <2>1, <2>2, <1>6 DEF n
  <2>5. Typed'.n \in 0..Len(keys)
    BY <2>2, <1>6
  <2>6. kbdq' \in Seq(Byte)
    <3> DEFINE b == k[2]
    <3>1. b \in Byte
      BY <1>3 DEF Byte
    <3>2. b = IF FALSE THEN k[2] + 128 ELSE k[2]
      OBVIOUS
    <3> HIDE DEF b
    <3>3. P1 \o Bytes(k, FALSE) \in Seq(Byte)
      BY <3>1, <3>2, <1>10, StrokeBytes
    <3> QED BY <3>3, <1>11
  <2>7. ASSUME NEW a, LeadsTo(P1, a, Typed, Scans, ScanSteps(keys))
        PROVE LeadsTo(kbdq', a, Typed', Scans, ScanSteps(keys))
    <3> DEFINE y == Typed'
               z == Typed
    <3>1. /\ y \in Scans /\ y.mods = ModifiersAfter(z.mods, k[1], FALSE, k[2]) /\ y.ext = FALSE
          /\ y.n \in 0..Len(keys) /\ z \in Scans /\ ~z.ext
          /\ value = IF FALSE THEN NoKey ELSE KeyValue(k[1], k[2], Shift(y.mods))
          /\ IF value = NoKey THEN y.n = z.n ELSE y.n = z.n + 1 /\ keys[y.n] = value
          /\ LeadsTo(P1, a, z, Scans, ScanSteps(keys))
      BY <2>1, <2>2, <2>3, <2>4, <2>5, <2>7
    <3> HIDE DEF y, z
    <3>2. LeadsTo(P1 \o Bytes(k, FALSE), a, y, Scans, ScanSteps(keys))
      BY <3>1, <1>4, <1>10, RunTakesStroke
    <3> QED BY <3>2, <1>11 DEF y
  <2> QED BY <2>6, <2>7
<1>13. ~mangled => KeyboardOK'
  <2> SUFFICES ASSUME ~mangled PROVE KeyboardOK'
    OBVIOUS
  <2>1. PICK i \in 0..Len(user.keys), s \in Scans :
          /\ LeadsTo(kbdq, s, Typed, Scans, ScanSteps(user.keys))
          /\ IF port # Nothing /\ ~port.aux
             THEN <<Scanned(i), port.byte, s>> \in ScanSteps(user.keys)
             ELSE s = Scanned(i)
          /\ Within(got.keys \o Held(key_queue, ks), user.keys, i)
    BY DEF InputInv, KeyboardOK
  <2>2. LeadsTo(kbdq', s, Typed', Scans, ScanSteps(keys))
    BY <2>1, <1>8, <1>10, <1>12
  <2>3. IF port' # Nothing /\ ~port'.aux
        THEN <<Scanned(i)', port'.byte, s>> \in ScanSteps(keys)
        ELSE s = Scanned(i)'
    BY <2>1, <1>2, <1>9 DEF Scanned
  <2>4. Within(got.keys \o Held(key_queue, ks), keys, i)
    <3>1. CASE value = NoKey
      BY <3>1, <2>1 DEF keys
    <3>2. CASE value # NoKey
      BY <3>2, <2>1, <1>4, <1>5, WithinGrown DEF keys
    <3> QED BY <3>1, <3>2
  <2>5. got.keys' \o Held(key_queue, ks)' = got.keys \o Held(key_queue, ks)
    BY <1>2 DEF Held
  <2>6. i \in 0..Len(keys)
    BY <1>5, <1>6
  <2> QED BY <2>2, <2>3, <2>4, <2>5, <2>6, <1>7 DEF KeyboardOK
<1>14. ~mangled => MouseOK'
  <2>1. Meant' = Meant
    BY <1>7 DEF Meant
  <2> QED BY <2>1, <1>2, MouseStays DEF InputInv
<1>15. InputTypeOK'
  <2>1. held' \subseteq Keys
    BY <1>1, <1>2 DEF InputTypeOK
  <2> QED BY <2>1, <1>1, <1>2, <1>7, <1>12 DEF InputTypeOK, Users
<1>16. Advancing' /\ Signalled' /\ NewestIsCurrent'
  BY <1>2 DEF InputInv, Advancing, Signalled, NewestIsCurrent, NothingLeft, Newest
<1> QED BY <1>2, <1>13, <1>14, <1>15, <1>16 DEF InputInv

(* The user lets go of a key.                                              *)
LEMMA LiftStep ==
    ASSUME InputInv, NEW k \in Keys, Lift(k)
    PROVE InputInv'
<1> DEFINE ks == INPUT_KEY_QUEUE_SIZE
           keys == user.keys
           m == ModifiersOf(held)
           b == k[2] + 128
<1>1. InputTypeOK
  BY DEF InputInv
<1>2. /\ k \in held /\ held' = held \ {k} /\ kbdq' = kbdq \o Bytes(k, TRUE)
      /\ user' = [user EXCEPT !.inputs = @ + 1]
      /\ UNCHANGED <<auxq, port, irq, modifiers, key_queue, mouse, mouse_queue, dwm, input_event,
                     got, mangled>>
  BY DEF Lift
<1>3. k[2] \in 0..127 /\ k[1] \in BOOLEAN /\ ~(k[1] /\ k[2] \in {42, 54})
  <2>1. k[2] \in 1..127 /\ k[1] \in BOOLEAN /\ ~(k[1] /\ k[2] \in {42, 54})
    BY InputConstants
  <2> QED BY <2>1
<1>4. m \in SUBSET Flags /\ ModifiersOf(held') \in SUBSET Flags
      /\ ModifiersOf(held') = m \ Modifier(k[1], k[2])
  <2>1. held \in SUBSET Keys /\ held' \in SUBSET Keys
    BY <1>1, <1>2 DEF InputTypeOK
  <2>2. m \in SUBSET Flags /\ ModifiersOf(held \ {k}) = m \ Modifier(k[1], k[2])
    BY <2>1, <1>2, HeldModifiers
  <2>3. ModifiersOf(held') \in SUBSET Flags
    BY <2>1, HeldModifiers
  <2> HIDE DEF m
  <2> QED BY <2>2, <2>3, <1>2
<1>5. keys \in Seq(KeyValues) /\ kbdq \in Seq(Byte) /\ Len(keys) \in Nat
  BY <1>1, InputTypes DEF InputTypeOK
<1>6. user'.keys = keys /\ user'.x = user.x /\ user'.y = user.y /\ user'.buttons = user.buttons
      /\ user' \in Users
  <2>1. user \in Users
    BY <1>1, InputTypes
  <2>2. user.inputs \in Nat /\ user \in [keys : Seq(KeyValues), x : Int, y : Int, buttons : Int, inputs : Nat]
    BY <2>1 DEF Users
  <2> DEFINE i == user.inputs + 1
  <2>3. i \in Nat /\ user' = [user EXCEPT !.inputs = i]
    BY <2>2, <1>2
  <2> HIDE DEF i
  <2> QED BY <2>2, <2>3 DEF Users
<1> HIDE DEF m
<1>7. b \in Byte /\ b = IF TRUE THEN k[2] + 128 ELSE k[2]
  <2> DEFINE c == k[2]
  <2>1. c \in 0..127
    BY <1>3
  <2> HIDE DEF c
  <2>2. c + 128 \in Byte
    BY <2>1, CodeBytes
  <2> QED BY <2>2 DEF c
<1> HIDE DEF b
<1>8. kbdq' \in Seq(Byte)
  BY <1>2, <1>5, <1>7, StrokeBytes
<1>9. ASSUME NEW a, LeadsTo(kbdq, a, Typed, Scans, ScanSteps(keys))
      PROVE LeadsTo(kbdq', a, Typed', Scans, ScanSteps(keys))
  <2>1. Typed \in Scans /\ ~Typed.ext /\ Typed.mods = m /\ Typed.n = Len(keys)
    BY <1>1, InputTypes DEF Typed, m
  <2>2. Typed' \in Scans /\ Typed'.ext = FALSE /\ Typed'.n = Len(keys)
        /\ Typed'.mods = ModifiersAfter(Typed.mods, k[1], TRUE, k[2])
    BY <1>3, <1>4, <1>5, <1>6, <2>1 DEF Typed, Scans, ModifiersAfter, m
  <2>3. Typed'.n \in 0..Len(keys)
    BY <2>2, <1>5
  <2> DEFINE y == Typed'
             z == Typed
             v == NoKey
  <2>4. /\ y \in Scans /\ y.mods = ModifiersAfter(z.mods, k[1], TRUE, k[2]) /\ y.ext = FALSE
        /\ y.n \in 0..Len(keys) /\ z \in Scans /\ ~z.ext
        /\ v = IF TRUE THEN NoKey ELSE KeyValue(k[1], k[2], Shift(y.mods))
        /\ IF v = NoKey THEN y.n = z.n ELSE y.n = z.n + 1 /\ keys[y.n] = v
        /\ LeadsTo(kbdq, a, z, Scans, ScanSteps(keys))
    BY <2>1, <2>2, <2>3, <1>9
  <2> HIDE DEF y, z, v
  <2>5. LeadsTo(kbdq \o Bytes(k, TRUE), a, y, Scans, ScanSteps(keys))
    BY <2>4, <1>5, RunTakesStroke
  <2> QED BY <2>5, <1>2 DEF y
<1>10. ~mangled => KeyboardOK'
  <2> SUFFICES ASSUME ~mangled PROVE KeyboardOK'
    OBVIOUS
  <2>1. PICK i \in 0..Len(user.keys), s \in Scans :
          /\ LeadsTo(kbdq, s, Typed, Scans, ScanSteps(user.keys))
          /\ IF port # Nothing /\ ~port.aux
             THEN <<Scanned(i), port.byte, s>> \in ScanSteps(user.keys)
             ELSE s = Scanned(i)
          /\ Within(got.keys \o Held(key_queue, ks), user.keys, i)
    BY DEF InputInv, KeyboardOK
  <2>2. LeadsTo(kbdq', s, Typed', Scans, ScanSteps(keys))
    BY <2>1, <1>9
  <2>3. IF port' # Nothing /\ ~port'.aux
        THEN <<Scanned(i)', port'.byte, s>> \in ScanSteps(keys)
        ELSE s = Scanned(i)'
    BY <2>1, <1>2 DEF Scanned
  <2>4. Within(got.keys' \o Held(key_queue, ks)', keys, i)
    BY <2>1, <1>2 DEF Held
  <2> QED BY <2>1, <2>2, <2>3, <2>4, <1>6 DEF KeyboardOK
<1>11. ~mangled => MouseOK'
  <2>1. Meant' = Meant
    BY <1>6 DEF Meant
  <2> QED BY <2>1, <1>2, MouseStays DEF InputInv
<1>12. InputTypeOK'
  <2>1. held' \subseteq Keys
    BY <1>1, <1>2 DEF InputTypeOK
  <2> QED BY <2>1, <1>1, <1>2, <1>6, <1>8 DEF InputTypeOK, Users
<1>13. Advancing' /\ Signalled' /\ NewestIsCurrent'
  BY <1>2 DEF InputInv, Advancing, Signalled, NewestIsCurrent, NothingLeft, Newest
<1> QED BY <1>2, <1>10, <1>11, <1>12, <1>13 DEF InputInv

(* The user moves the mouse.                                               *)
LEMMA MoveStep ==
    ASSUME InputInv, NEW p \in Moves, MoveMouse(p)
    PROVE InputInv'
<1>1. InputTypeOK
  BY DEF InputInv
<1>2. /\ auxq' = auxq \o p /\ user' = [Moved(user, p) EXCEPT !.inputs = @ + 1]
      /\ UNCHANGED <<held, kbdq, port, irq, modifiers, key_queue, mouse, mouse_queue, dwm,
                     input_event, got, mangled>>
  BY DEF MoveMouse
<1> DEFINE u == Moved(user, p)
<1>3. u \in Users /\ u.keys = user.keys /\ u.inputs = user.inputs
  <2> DEFINE e == PointerOf(user)
  <2>1. user \in Users
    BY <1>1, InputTypes
  <2>2. e \in Pointers /\ e.x = user.x /\ e.y = user.y /\ e.buttons = user.buttons
    BY <2>1 DEF Users, Pointers, PointerOf
  <2> HIDE DEF e
  <2> QED BY <2>1, <2>2, MovedAlike
<1> HIDE DEF u
<1>4. user' \in Users /\ user'.keys = user.keys
      /\ user'.x = u.x /\ user'.y = u.y /\ user'.buttons = u.buttons
  <2>1. u \in [keys : Seq(KeyValues), x : Int, y : Int, buttons : Int, inputs : Nat] /\ u.inputs \in Nat
    BY <1>3 DEF Users
  <2> DEFINE i == u.inputs + 1
  <2>2. i \in Nat /\ user' = [u EXCEPT !.inputs = i]
    BY <2>1, <1>2 DEF u
  <2> HIDE DEF i
  <2> QED BY <2>1, <2>2, <1>3 DEF Users
<1>5. Meant = PointerOf(user) /\ Meant' = PointerOf(u)
  BY <1>4 DEF Meant, PointerOf
<1>6. auxq' \in Seq(Byte)
  <2>1. p[1] \in Byte /\ p[2] \in Byte /\ p[3] \in Byte /\ p = <<p[1], p[2], p[3]>>
    BY InputConstants
  <2>2. <<p[1], p[2], p[3]>> \in Seq(Byte)
    BY <2>1, PacketBytes, Zenon
  <2>3. p \in Seq(Byte)
    BY <2>1, <2>2, Zenon
  <2> QED BY <2>3, <1>1, <1>2 DEF InputTypeOK
<1>7. ~mangled => MouseOK'
  <2> SUFFICES ASSUME ~mangled PROVE MouseOK'
    OBVIOUS
  <2>1. PICK s \in Pointers :
          /\ LeadsTo(auxq, s, Meant, Pointers, PointerSteps)
          /\ IF port.aux THEN <<mouse, port.byte, s>> \in PointerSteps ELSE s = mouse
    BY DEF InputInv, MouseOK
  <2>2. LeadsTo(auxq, s, PointerOf(user), Pointers, PointerSteps) /\ auxq \in Seq(Byte)
        /\ user \in Users
    BY <2>1, <1>1, <1>5, InputTypes DEF InputTypeOK
  <2>3. LeadsTo(auxq \o p, s, PointerOf(u), Pointers, PointerSteps)
    BY <2>2, RunTakesPacket DEF u
  <2> QED BY <2>1, <2>3, <1>2, <1>5 DEF MouseOK
<1>8. ~mangled => KeyboardOK'
  <2> SUFFICES ASSUME KeyboardOK PROVE KeyboardOK'
    BY DEF InputInv
  <2> QED BY <1>2, <1>4 DEF KeyboardOK, Typed, Scanned, Held
<1>9. InputTypeOK'
  BY <1>1, <1>2, <1>4, <1>6 DEF InputTypeOK, Users
<1>10. Advancing' /\ Signalled' /\ NewestIsCurrent'
  BY <1>2 DEF InputInv, Advancing, Signalled, NewestIsCurrent, NothingLeft, Newest
<1> QED BY <1>2, <1>7, <1>8, <1>9, <1>10 DEF InputInv

(* The controller takes a byte of the keyboard.                            *)
LEMMA DeliverKeyStep ==
    ASSUME InputInv, Deliver(FALSE)
    PROVE InputInv'
<1>1. InputTypeOK
  BY DEF InputInv
<1>2. /\ port = Nothing /\ kbdq # <<>> /\ port' = [aux |-> FALSE, byte |-> Head(kbdq)]
      /\ kbdq' = Tail(kbdq) /\ irq' = irq \cup {1}
      /\ UNCHANGED <<auxq, held, modifiers, key_queue, mouse, mouse_queue, dwm, input_event, got,
                     user, mangled>>
  BY DEF Deliver
<1>3. kbdq \in Seq(Byte) /\ Head(kbdq) \in Byte /\ kbdq' \in Seq(Byte)
  BY <1>1, <1>2 DEF InputTypeOK
<1>4. port' \in [aux : BOOLEAN, byte : Byte] /\ port' # Nothing /\ port'.aux = FALSE
      /\ port'.byte = Head(kbdq) /\ port.aux = FALSE
  <2>1. port' \in [aux : BOOLEAN, byte : Byte] /\ port'.aux = FALSE /\ port'.byte = Head(kbdq)
    BY <1>2, <1>3
  <2>2. Nothing.byte \notin Byte /\ Nothing.aux = FALSE
    BY DEF Nothing, Byte
  <2> QED BY <2>1, <2>2, <1>2, <1>3
<1>5. ~mangled => KeyboardOK'
  <2> SUFFICES ASSUME ~mangled PROVE KeyboardOK'
    OBVIOUS
  <2>1. PICK i \in 0..Len(user.keys), s \in Scans :
          /\ LeadsTo(kbdq, s, Typed, Scans, ScanSteps(user.keys))
          /\ s = Scanned(i)
          /\ Within(got.keys \o Held(key_queue, INPUT_KEY_QUEUE_SIZE), user.keys, i)
    BY <1>2 DEF InputInv, KeyboardOK
  <2>2. PICK y \in Scans : /\ <<s, Head(kbdq), y>> \in ScanSteps(user.keys)
                           /\ LeadsTo(Tail(kbdq), y, Typed, Scans, ScanSteps(user.keys))
    BY <2>1, <1>2, <1>3, RunStarts
  <2>3. Typed' = Typed /\ Scanned(i)' = Scanned(i)
    BY <1>2 DEF Typed, Scanned
  <2>4. Held(key_queue, INPUT_KEY_QUEUE_SIZE)' = Held(key_queue, INPUT_KEY_QUEUE_SIZE)
    BY <1>2 DEF Held
  <2>5. /\ LeadsTo(kbdq', y, Typed', Scans, ScanSteps(user'.keys))
        /\ <<Scanned(i)', port'.byte, y>> \in ScanSteps(user'.keys)
        /\ Within(got'.keys \o Held(key_queue, INPUT_KEY_QUEUE_SIZE)', user'.keys, i)
        /\ i \in 0..Len(user'.keys)
    BY <2>1, <2>2, <2>3, <2>4, <1>2, <1>4
  <2> QED BY <2>5, <1>4 DEF KeyboardOK
<1>6. ~mangled => MouseOK'
  BY <1>2, <1>4 DEF InputInv, MouseOK, Meant
<1>7. InputTypeOK'
  BY <1>1, <1>2, <1>3, <1>4 DEF InputTypeOK
<1>8. Advancing' /\ Signalled' /\ NewestIsCurrent'
  BY <1>2 DEF InputInv, Advancing, Signalled, NewestIsCurrent, NothingLeft, Newest
<1> QED BY <1>2, <1>5, <1>6, <1>7, <1>8 DEF InputInv

(* The controller takes a byte of the mouse.                               *)
LEMMA DeliverAuxStep ==
    ASSUME InputInv, Deliver(TRUE)
    PROVE InputInv'
<1>1. InputTypeOK
  BY DEF InputInv
<1>2. /\ port = Nothing /\ auxq # <<>> /\ port' = [aux |-> TRUE, byte |-> Head(auxq)]
      /\ auxq' = Tail(auxq) /\ irq' = irq \cup {12}
      /\ UNCHANGED <<kbdq, held, modifiers, key_queue, mouse, mouse_queue, dwm, input_event, got,
                     user, mangled>>
  BY DEF Deliver
<1>3. auxq \in Seq(Byte) /\ Head(auxq) \in Byte /\ auxq' \in Seq(Byte)
  BY <1>1, <1>2 DEF InputTypeOK
<1>4. port' \in [aux : BOOLEAN, byte : Byte] /\ port'.aux = TRUE /\ port'.byte = Head(auxq)
      /\ port.aux = FALSE
  BY <1>2, <1>3 DEF Nothing
<1>5. ~mangled => MouseOK'
  <2> SUFFICES ASSUME ~mangled PROVE MouseOK'
    OBVIOUS
  <2>1. LeadsTo(auxq, mouse, Meant, Pointers, PointerSteps)
    BY <1>4 DEF InputInv, MouseOK
  <2>2. PICK y \in Pointers : /\ <<mouse, Head(auxq), y>> \in PointerSteps
                              /\ LeadsTo(Tail(auxq), y, Meant, Pointers, PointerSteps)
    BY <2>1, <1>2, <1>3, RunStarts
  <2>3. Meant' = Meant
    BY <1>2 DEF Meant
  <2> QED BY <2>2, <2>3, <1>2, <1>4 DEF MouseOK
<1>6. ~mangled => KeyboardOK'
  <2> SUFFICES ASSUME KeyboardOK PROVE KeyboardOK'
    BY DEF InputInv
  <2> QED BY <1>2, <1>4 DEF KeyboardOK, Typed, Scanned, Held
<1>7. InputTypeOK'
  BY <1>1, <1>2, <1>3, <1>4 DEF InputTypeOK
<1>8. Advancing' /\ Signalled' /\ NewestIsCurrent'
  BY <1>2, <1>4 DEF InputInv, Advancing, Signalled, NewestIsCurrent, NothingLeft, Newest
<1> QED BY <1>2, <1>5, <1>6, <1>7, <1>8 DEF InputInv

(* The DWM wakes up.                                                       *)
LEMMA WakeStep ==
    ASSUME InputInv, Wake
    PROVE InputInv'
<1>1. InputTypeOK
  BY DEF InputInv
<1>2. /\ dwm.pc = "wait" /\ dwm' = [dwm EXCEPT !.pc = "keys"] /\ input_event' = FALSE
      /\ UNCHANGED <<hardware, port, irq, modifiers, key_queue, mouse, mouse_queue, got, user,
                     mangled>>
  BY DEF Wake
<1>3. UNCHANGED <<held, kbdq, auxq>>
  BY <1>2 DEF hardware
<1>4. dwm' \in [pc : {"wait", "keys", "advance", "mouse"}, key : KeyValues] /\ dwm'.pc = "keys"
  BY <1>1, <1>2 DEF InputTypeOK
<1>5. InputTypeOK'
  BY <1>1, <1>2, <1>3, <1>4 DEF InputTypeOK
<1>6. Advancing' /\ Signalled' /\ NewestIsCurrent'
  BY <1>2, <1>4 DEF InputInv, Advancing, Signalled, NewestIsCurrent, NothingLeft, Newest
<1>7. ~mangled => KeyboardOK' /\ MouseOK'
  BY <1>2, <1>3 DEF InputInv, KeyboardOK, Typed, Scanned, Held, MouseOK, Meant
<1> QED BY <1>2, <1>5, <1>6, <1>7 DEF InputInv

(* The DWM reads a key, or finds none.                                     *)
LEMMA PopReadStep ==
    ASSUME InputInv, PopRead
    PROVE InputInv'
<1>1. InputTypeOK
  BY DEF InputInv
<1>2. /\ dwm.pc = "keys"
      /\ dwm' = IF key_queue.tail = key_queue.head THEN [dwm EXCEPT !.pc = "mouse"]
                ELSE [pc |-> "advance", key |-> key_queue.slot[key_queue.tail]]
      /\ UNCHANGED <<hardware, port, irq, modifiers, key_queue, mouse, mouse_queue, input_event,
                     got, user, mangled>>
  BY DEF PopRead
<1>3. UNCHANGED <<held, kbdq, auxq>>
  BY <1>2 DEF hardware
<1>4. key_queue.slot[key_queue.tail] \in KeyValues
  BY <1>1 DEF InputTypeOK, RingOf
<1>5. dwm' \in [pc : {"wait", "keys", "advance", "mouse"}, key : KeyValues]
      /\ \/ dwm'.pc = "mouse" /\ NothingLeft(key_queue)
         \/ /\ dwm'.pc = "advance" /\ key_queue.head # key_queue.tail
            /\ dwm'.key = key_queue.slot[key_queue.tail]
  <2>1. CASE key_queue.tail = key_queue.head
    BY <2>1, <1>1, <1>2 DEF InputTypeOK, NothingLeft
  <2>2. CASE key_queue.tail # key_queue.head
    <3> DEFINE v == key_queue.slot[key_queue.tail]
    <3>1. dwm' = [pc |-> "advance", key |-> v] /\ v \in KeyValues
      BY <2>2, <1>2, <1>4
    <3> HIDE DEF v
    <3>2. dwm' \in [pc : {"wait", "keys", "advance", "mouse"}, key : KeyValues]
          /\ dwm'.pc = "advance" /\ dwm'.key = v
      BY <3>1
    <3> QED BY <3>2, <2>2 DEF v
  <2> QED BY <2>1, <2>2
<1>6. InputTypeOK'
  BY <1>1, <1>2, <1>3, <1>5 DEF InputTypeOK
<1>7. Advancing' /\ Signalled' /\ NewestIsCurrent'
  BY <1>2, <1>5 DEF InputInv, Advancing, Signalled, NewestIsCurrent, NothingLeft, Newest
<1>8. ~mangled => KeyboardOK' /\ MouseOK'
  BY <1>2, <1>3 DEF InputInv, KeyboardOK, Typed, Scanned, Held, MouseOK, Meant
<1> QED BY <1>2, <1>6, <1>7, <1>8 DEF InputInv

(* The DWM takes the key it read.                                          *)
LEMMA PopAdvanceStep ==
    ASSUME InputInv, PopAdvance
    PROVE InputInv'
<1> DEFINE ks == INPUT_KEY_QUEUE_SIZE
           q == key_queue
           p == [key_queue EXCEPT !.tail = Next1(@, ks)]
<1>1. InputTypeOK
  BY DEF InputInv
<1>2. /\ dwm.pc = "advance" /\ key_queue' = p
      /\ got' = [got EXCEPT !.keys = Append(@, dwm.key)] /\ dwm' = [pc |-> "keys", key |-> NoKey]
      /\ UNCHANGED <<hardware, port, irq, modifiers, mouse, mouse_queue, input_event, user, mangled>>
  BY DEF PopAdvance
<1>3. UNCHANGED <<held, kbdq, auxq>>
  BY <1>2 DEF hardware
<1>4. q.head # q.tail /\ dwm.key = q.slot[q.tail] /\ q \in RingOf(ks, KeyValues)
      /\ ks \in Nat \ {0}
  BY <1>1, <1>2, InputConstants DEF InputInv, Advancing, InputTypeOK
<1> HIDE DEF ks, q
<1>5. /\ p \in RingOf(ks, KeyValues)
      /\ Held(q, ks) \in Seq(KeyValues) /\ Held(q, ks) # <<>>
      /\ Head(Held(q, ks)) = dwm.key
      /\ Held(p, ks) = Tail(Held(q, ks))
  <2>1. p = [q EXCEPT !.tail = Next1(@, ks)]
    BY DEF q
  <2> HIDE DEF p
  <2> QED BY <2>1, <1>4, RingPop
<1>6. got' \in [keys : Seq(KeyValues), mouse : Seq(Int)] /\ got'.mouse = got.mouse
      /\ got'.keys = Append(got.keys, dwm.key)
  <2>1. got \in [keys : Seq(KeyValues), mouse : Seq(Int)] /\ dwm.key \in KeyValues
    BY <1>1 DEF InputTypeOK
  <2>2. Append(got.keys, dwm.key) \in Seq(KeyValues)
    BY <2>1
  <2> QED BY <2>1, <2>2, <1>2
<1>7. got'.keys \o Held(p, ks) = got.keys \o Held(q, ks)
  <2> DEFINE H == Held(q, ks)
  <2>1. got.keys \in Seq(KeyValues) /\ H \in Seq(KeyValues) /\ H # <<>>
    BY <1>5, <1>1 DEF InputTypeOK
  <2> HIDE DEF H
  <2>2. Append(got.keys, Head(H)) \o Tail(H) = got.keys \o H
    BY <2>1
  <2> QED BY <2>2, <1>5, <1>6 DEF H
<1>8. dwm' \in [pc : {"wait", "keys", "advance", "mouse"}, key : KeyValues] /\ dwm'.pc = "keys"
  BY <1>2, KeyValueTyped
<1>9. InputTypeOK'
  BY <1>1, <1>2, <1>3, <1>5, <1>6, <1>8 DEF InputTypeOK, ks
<1>10. Advancing' /\ Signalled' /\ NewestIsCurrent'
  BY <1>2, <1>6, <1>8 DEF InputInv, Advancing, Signalled, NewestIsCurrent, NothingLeft, Newest
<1>11. ~mangled => KeyboardOK'
  <2>1. got.keys' \o Held(key_queue, INPUT_KEY_QUEUE_SIZE)'
          = got.keys \o Held(key_queue, INPUT_KEY_QUEUE_SIZE)
    <3>1. Held(key_queue, INPUT_KEY_QUEUE_SIZE)' = Held(p, ks)
      BY <1>2 DEF ks, Held
    <3> QED BY <3>1, <1>7 DEF q, ks
  <2> QED BY <2>1, <1>2, <1>3, KeyboardStays DEF InputInv
<1>12. ~mangled => MouseOK'
  BY <1>2, <1>3 DEF InputInv, MouseOK, Meant
<1> QED BY <1>2, <1>9, <1>10, <1>11, <1>12 DEF InputInv

(* The DWM takes a mouse event, or finds none.                             *)
LEMMA DequeueStep ==
    ASSUME InputInv, mouse_dequeue_event
    PROVE InputInv'
<1> DEFINE ms == MOUSE_QUEUE_SIZE
           q == mouse_queue
<1>1. InputTypeOK
  BY DEF InputInv
<1>2. /\ dwm.pc = "mouse"
      /\ UNCHANGED <<hardware, port, irq, modifiers, key_queue, mouse, input_event, user, mangled>>
  BY DEF mouse_dequeue_event
<1>3. UNCHANGED <<held, kbdq, auxq>>
  BY <1>2 DEF hardware
<1>4. CASE q.head = q.tail
  <2>1. dwm' = [dwm EXCEPT !.pc = "wait"] /\ UNCHANGED <<mouse_queue, got>>
    BY <1>4 DEF mouse_dequeue_event
  <2>2. dwm' \in [pc : {"wait", "keys", "advance", "mouse"}, key : KeyValues] /\ dwm'.pc = "wait"
    BY <1>1, <2>1 DEF InputTypeOK
  <2>3. InputTypeOK'
    BY <1>1, <1>2, <1>3, <2>1, <2>2 DEF InputTypeOK
  <2>4. Advancing' /\ Signalled' /\ NewestIsCurrent'
    BY <1>2, <1>4, <2>1, <2>2 DEF InputInv, Advancing, Signalled, NewestIsCurrent, NothingLeft, Newest
  <2>5. ~mangled => KeyboardOK' /\ MouseOK'
    BY <1>2, <1>3, <2>1 DEF InputInv, KeyboardOK, Typed, Scanned, Held, MouseOK, Meant
  <2> QED BY <1>2, <2>3, <2>4, <2>5 DEF InputInv
<1>5. CASE q.head # q.tail
  <2> DEFINE p == [q EXCEPT !.tail = Next1(@, ms)]
             v == q.slot[q.tail]
  <2>1. dwm' = dwm /\ got' = [got EXCEPT !.mouse = v] /\ mouse_queue' = p
    BY <1>5 DEF mouse_dequeue_event
  <2>2. q \in RingOf(ms, Seq(Int)) /\ ms \in Nat \ {0}
    BY <1>1, InputConstants DEF InputTypeOK
  <2>3. q.head \in 0..(ms - 1) /\ q.tail \in 0..(ms - 1) /\ v \in Seq(Int)
    BY <2>2 DEF RingOf
  <2>4. p.head = q.head /\ p.slot = q.slot /\ p.tail = Next1(q.tail, ms)
    BY <2>2 DEF RingOf
  <2> HIDE DEF ms, q
  <2>5. p \in RingOf(ms, Seq(Int))
    BY <2>2, <1>5, RingPop
  <2>6. p.tail = IF q.tail = ms - 1 THEN 0 ELSE q.tail + 1
    BY <2>2, <2>3, <2>4, RingDistance
  <2>7. Newest(q) \in 0..(ms - 1) /\ Newest(p) = Newest(q)
        /\ (p.head = p.tail => Newest(q) = q.tail)
    <3>1. Newest(q) = IF q.head = 0 THEN ms - 1 ELSE q.head - 1
      BY DEF Newest, ms
    <3>2. Newest(p) = Newest(q)
      BY <2>4 DEF Newest
    <3> DEFINE h == q.head
               t == q.tail
    <3>3. h \in 0..(ms - 1) /\ t \in 0..(ms - 1)
      BY <2>3
    <3>4. p.head = p.tail => h = IF t = ms - 1 THEN 0 ELSE t + 1
      BY <2>4, <2>6
    <3>5. Newest(q) = IF h = 0 THEN ms - 1 ELSE h - 1
      BY <3>1
    <3> HIDE DEF h, t, p
    <3>6. Newest(q) \in 0..(ms - 1) /\ (p.head = p.tail => Newest(q) = t)
      BY <3>3, <3>4, <3>5, <2>2
    <3> QED BY <3>2, <3>6 DEF t
  <2> HIDE DEF p, v
  <2>8. got' \in [keys : Seq(KeyValues), mouse : Seq(Int)] /\ got'.mouse = v /\ got'.keys = got.keys
    BY <2>1, <2>3, <1>1 DEF InputTypeOK
  <2>9. InputTypeOK'
    BY <1>1, <1>2, <1>3, <2>1, <2>5, <2>8 DEF InputTypeOK, ms
  <2>10. NewestIsCurrent'
    <3>1. MouseEventOf(mouse) = q.slot[Newest(q)]
      BY <1>5 DEF InputInv, NewestIsCurrent, NothingLeft, q
    <3>2. CASE p.head = p.tail
      BY <3>1, <3>2, <2>7, <2>8, <2>1, <1>2 DEF NewestIsCurrent, NothingLeft, v
    <3>3. CASE p.head # p.tail
      BY <3>1, <3>3, <2>7, <2>4, <2>1, <1>2 DEF NewestIsCurrent, NothingLeft, Newest, p, q, ms
    <3> QED BY <3>2, <3>3
  <2>11. Advancing' /\ Signalled'
    BY <1>2, <2>1 DEF InputInv, Advancing, Signalled, NothingLeft
  <2>12. ~mangled => KeyboardOK' /\ MouseOK'
    BY <1>2, <1>3, <2>8 DEF InputInv, KeyboardOK, Typed, Scanned, Held, MouseOK, Meant
  <2> QED BY <1>2, <2>9, <2>10, <2>11, <2>12 DEF InputInv
<1> QED BY <1>4, <1>5

(* A value behind the second of two sequences is behind both.              *)
LEMMA BehindBoth ==
    ASSUME NEW B, NEW P \in Seq(B), NEW Q \in Seq(B), NEW v \in B
    PROVE P \o Q \in Seq(B) /\ P \o Append(Q, v) = Append(P \o Q, v)
<1> DEFINE l == P \o Append(Q, v)
           r == Append(P \o Q, v)
<1>1. P \o Q \in Seq(B) /\ Len(P \o Q) = Len(P) + Len(Q)
  OBVIOUS
<1>2. Append(Q, v) \in Seq(B) /\ Len(Append(Q, v)) = Len(Q) + 1
  OBVIOUS
<1>3. l \in Seq(B) /\ Len(l) = Len(P) + Len(Q) + 1
  BY <1>2
<1>4. r \in Seq(B) /\ Len(r) = Len(P) + Len(Q) + 1
  BY <1>1
<1>5. ASSUME NEW i \in 1..Len(l) PROVE l[i] = r[i]
  <2>1. CASE i <= Len(P)
    BY <2>1, <1>1, <1>2
  <2>2. CASE i > Len(P) /\ i <= Len(P) + Len(Q)
    BY <2>2, <1>1, <1>2
  <2>3. CASE i = Len(P) + Len(Q) + 1
    BY <2>3, <1>1, <1>2
  <2> QED BY <2>1, <2>2, <2>3, <1>3
<1> HIDE DEF l, r
<1>6. l = r
  BY <1>3, <1>4, <1>5, SeqEqual
<1> QED BY <1>1, <1>6 DEF l, r

(* The rest of kb_getc: a key that comes is pushed, or the ring is full    *)
(* and it is lost; what is queued stays a part of what was typed.          *)
LEMMA KeyArrives ==
    ASSUME InputTypeOK, Advancing, NEW e \in BOOLEAN, NEW b \in Byte, kb_getc(e, b),
           UNCHANGED <<got, user, dwm>>
    PROVE /\ modifiers' \subseteq Flags
          /\ key_queue' \in RingOf(INPUT_KEY_QUEUE_SIZE, KeyValues)
          /\ Advancing'
          /\ \A n \in 0..Len(user.keys), s \in Scans, t \in Scans :
               /\ s.mods = modifiers /\ s.ext = e /\ s.n = n
               /\ ScanStep(s, b, t, user.keys) /\ (e \/ b # E0)
               /\ Within(got.keys \o Held(key_queue, INPUT_KEY_QUEUE_SIZE), user.keys, n)
               => /\ t.n \in 0..Len(user.keys) /\ t = Scanned(t.n)'
                  /\ Within(got.keys \o Held(key_queue', INPUT_KEY_QUEUE_SIZE), user.keys, t.n)
<1> DEFINE ks == INPUT_KEY_QUEUE_SIZE
           q == key_queue
           scan == b % 128
           break == b >= 128
           fake == e /\ scan \in {42, 54}
           v == IF break THEN NoKey ELSE KeyValue(e, scan, Shift(modifiers'))
<1>1. scan \in 0..127 /\ break \in BOOLEAN
  BY ByteCode DEF Byte
<1>2. modifiers' = ModifiersAfter(modifiers, e, break, scan)
  BY DEF kb_getc, SetModifiers, ModifiersAfter
<1>3. modifiers \in SUBSET Flags /\ modifiers' \in SUBSET Flags
  <2>1. modifiers \in SUBSET Flags
    BY DEF InputTypeOK
  <2> HIDE DEF scan, break
  <2> QED BY <2>1, <1>1, <1>2, ModifierFlags DEF ModifiersAfter
<1>4. v \in KeyValues
  <2> HIDE DEF scan, break
  <2> QED BY <1>1, <1>3, KeyValueTyped
<1>5. fake => v = NoKey
  BY DEF KeyValue, Navigation
<1>6. key_queue' = input_key_push(v)
  <2>1. key_queue' = IF break \/ fake THEN q ELSE input_key_push(KeyValue(e, scan, Shift(modifiers')))
    BY DEF kb_getc
  <2>2. input_key_push(NoKey) = q
    BY DEF input_key_push
  <2> QED BY <2>1, <2>2, <1>5
<1>7. q \in RingOf(ks, KeyValues) /\ ks \in Nat \ {0}
  BY InputConstants DEF InputTypeOK
<1> HIDE DEF v, ks, q
<1>8. CASE v = NoKey \/ Full(q, ks)
  <2>1. key_queue' = q
    BY <1>6, <1>8 DEF input_key_push, q, ks
  <2>2. Advancing'
    BY <2>1 DEF Advancing, q
  <2>3. ASSUME NEW n \in 0..Len(user.keys), NEW s \in Scans, NEW t \in Scans,
               s.mods = modifiers, s.ext = e, s.n = n,
               ScanStep(s, b, t, user.keys), e \/ b # E0,
               Within(got.keys \o Held(q, ks), user.keys, n)
        PROVE /\ t.n \in 0..Len(user.keys) /\ t = Scanned(t.n)'
              /\ Within(got.keys \o Held(q, ks), user.keys, t.n)
    <3>1. /\ t.mods = modifiers' /\ t.ext = FALSE /\ t.n \in 0..Len(user.keys)
          /\ t.n = n \/ t.n = n + 1
      BY <2>3, <1>2 DEF ScanStep
    <3>2. t = Scanned(t.n)'
      BY <3>1 DEF Scanned, Scans
    <3>3. Within(got.keys \o Held(q, ks), user.keys, t.n)
      BY <3>1, <2>3, WithinMore
    <3> QED BY <3>1, <3>2, <3>3
  <2> QED BY <2>1, <2>2, <2>3, <1>3, <1>7 DEF q, ks
<1>9. CASE v # NoKey /\ ~Full(q, ks)
  <2>1. key_queue' = Pushed(q, ks, v)
    BY <1>6, <1>9 DEF input_key_push, q, ks
  <2>2. /\ key_queue' \in RingOf(ks, KeyValues)
        /\ key_queue'.head # q.tail /\ key_queue'.tail = q.tail
        /\ q.head # q.tail => key_queue'.slot[q.tail] = q.slot[q.tail]
        /\ Held(q, ks) \in Seq(KeyValues)
        /\ Held(key_queue', ks) = Append(Held(q, ks), v)
    BY <2>1, <1>4, <1>7, <1>9, RingPush
  <2>3. Advancing'
    BY <2>2 DEF Advancing, q
  <2>4. ASSUME NEW n \in 0..Len(user.keys), NEW s \in Scans, NEW t \in Scans,
               s.mods = modifiers, s.ext = e, s.n = n,
               ScanStep(s, b, t, user.keys), e \/ b # E0,
               Within(got.keys \o Held(q, ks), user.keys, n)
        PROVE /\ t.n \in 0..Len(user.keys) /\ t = Scanned(t.n)'
              /\ Within(got.keys \o Held(key_queue', ks), user.keys, t.n)
    <3>1. /\ t.mods = modifiers' /\ t.ext = FALSE /\ t.n \in 0..Len(user.keys)
          /\ t.n = n + 1 /\ user.keys[n + 1] = v
      BY <2>4, <1>2, <1>9 DEF ScanStep, v
    <3>2. t = Scanned(t.n)'
      BY <3>1 DEF Scanned, Scans
    <3> DEFINE H == Held(q, ks)
               w == got.keys \o H
    <3>3. got.keys \in Seq(KeyValues) /\ user.keys \in Seq(KeyValues) /\ H \in Seq(KeyValues)
      BY <2>2, InputTypes
    <3> HIDE DEF H
    <3>4. w \in Seq(KeyValues) /\ got.keys \o Append(H, v) = Append(w, v)
      <4>1. \A P, Q \in Seq(KeyValues) : \A x \in KeyValues :
                P \o Q \in Seq(KeyValues) /\ P \o Append(Q, x) = Append(P \o Q, x)
        BY BehindBoth
      <4> QED BY <4>1, <3>3, <1>4, Zenon
    <3>5. n \in Nat /\ n < Len(user.keys)
      BY <3>1, <3>3
    <3>6. Within(w, user.keys, n)
      BY <2>4 DEF H
    <3> HIDE DEF w
    <3>7. Within(Append(w, user.keys[n + 1]), user.keys, n + 1)
      BY <3>3, <3>4, <3>5, <3>6, WithinAppend
    <3> QED BY <3>1, <3>2, <3>4, <3>7, <2>2 DEF H
  <2> QED BY <2>2, <2>3, <2>4, <1>3 DEF q, ks
<1> QED BY <1>8, <1>9

(* What an interrupt leaves when it has emptied the port.                  *)
LEMMA PortEmptied ==
    ASSUME InputInv, port' = Nothing, irq' \subseteq irq, input_event' = TRUE, UNCHANGED dwm
    PROVE /\ irq' \subseteq {1, 12} /\ input_event' \in BOOLEAN
          /\ port' \in {Nothing} \cup [aux : BOOLEAN, byte : Byte] /\ ~port'.aux
          /\ Signalled'
<1>1. irq' \subseteq {1, 12} /\ input_event' \in BOOLEAN
  BY DEF InputInv, InputTypeOK
<1>2. port' \in {Nothing} \cup [aux : BOOLEAN, byte : Byte] /\ ~port'.aux
  BY DEF Nothing
<1>3. Signalled'
  BY DEF Signalled
<1> QED BY <1>1, <1>2, <1>3

(* The keyboard's byte is scanned, alone or with the one behind its E0.    *)
LEMMA ByteScanned ==
    ASSUME InputInv, UNCHANGED <<held, dwm, got, user, auxq, mouse, mouse_queue, mangled>>,
           port # Nothing, ~port.aux, port' = Nothing,
           irq' \subseteq irq, input_event' = TRUE,
           NEW e \in BOOLEAN, NEW b \in Byte, kb_getc(e, b),
           \/ ~e /\ b = port.byte /\ b # E0 /\ kbdq' = kbdq
           \/ e /\ port.byte = E0 /\ kbdq # <<>> /\ b = Head(kbdq) /\ kbdq' = Tail(kbdq)
    PROVE InputInv'
<1>1. InputTypeOK /\ Advancing
  BY DEF InputInv
<1>2. UNCHANGED <<got, user, dwm>>
  OBVIOUS
<1>3. /\ modifiers' \subseteq Flags
      /\ key_queue' \in RingOf(INPUT_KEY_QUEUE_SIZE, KeyValues)
      /\ Advancing'
      /\ \A n \in 0..Len(user.keys), s \in Scans, t \in Scans :
           /\ s.mods = modifiers /\ s.ext = e /\ s.n = n
           /\ ScanStep(s, b, t, user.keys) /\ (e \/ b # E0)
           /\ Within(got.keys \o Held(key_queue, INPUT_KEY_QUEUE_SIZE), user.keys, n)
           => /\ t.n \in 0..Len(user.keys) /\ t = Scanned(t.n)'
              /\ Within(got.keys \o Held(key_queue', INPUT_KEY_QUEUE_SIZE), user.keys, t.n)
  BY <1>1, <1>2, KeyArrives
<1>4. /\ irq' \subseteq {1, 12} /\ input_event' \in BOOLEAN
      /\ port' \in {Nothing} \cup [aux : BOOLEAN, byte : Byte] /\ ~port'.aux
      /\ Signalled'
  BY <1>2, PortEmptied
<1>5. kbdq \in Seq(Byte) /\ kbdq' \in Seq(Byte)
  <2>1. kbdq \in Seq(Byte)
    BY <1>1 DEF InputTypeOK
  <2>2. kbdq # <<>> => Tail(kbdq) \in Seq(Byte)
    BY <2>1
  <2> QED BY <2>1, <2>2
<1>6. InputTypeOK'
  BY <1>1, <1>3, <1>4, <1>5 DEF InputTypeOK
<1>7. NewestIsCurrent'
  BY DEF InputInv, NewestIsCurrent, NothingLeft, Newest
<1>8. ASSUME ~mangled PROVE MouseOK'
  BY <1>4, <1>8 DEF InputInv, MouseOK, Meant
<1>9. ASSUME ~mangled PROVE KeyboardOK'
  <2>1. PICK n \in 0..Len(user.keys), s \in Scans :
          /\ LeadsTo(kbdq, s, Typed, Scans, ScanSteps(user.keys))
          /\ <<Scanned(n), port.byte, s>> \in ScanSteps(user.keys)
          /\ Within(got.keys \o Held(key_queue, INPUT_KEY_QUEUE_SIZE), user.keys, n)
    BY <1>9 DEF InputInv, KeyboardOK
  <2>2. Scanned(n) \in Scans /\ ScanStep(Scanned(n), port.byte, s, user.keys)
    BY <2>1 DEF ScanSteps
  <2>3. Scanned(n).mods = modifiers /\ Scanned(n).ext = FALSE /\ Scanned(n).n = n
    BY DEF Scanned
  <2>4. \E r, t \in Scans : /\ r.mods = modifiers /\ r.ext = e /\ r.n = n
                            /\ ScanStep(r, b, t, user.keys) /\ (e \/ b # E0)
                            /\ LeadsTo(kbdq', t, Typed, Scans, ScanSteps(user.keys))
    <3>1. CASE ~e /\ b = port.byte /\ b # E0 /\ kbdq' = kbdq
      <4>1. e = FALSE
        BY <3>1
      <4> QED BY <3>1, <4>1, <2>1, <2>2, <2>3
    <3>2. CASE e /\ port.byte = E0 /\ kbdq # <<>> /\ b = Head(kbdq) /\ kbdq' = Tail(kbdq)
      <4>1. s.mods = modifiers /\ s.ext = TRUE /\ s.n = n
        BY <3>2, <2>2, <2>3 DEF ScanStep
      <4>2. PICK t \in Scans : /\ <<s, Head(kbdq), t>> \in ScanSteps(user.keys)
                               /\ LeadsTo(Tail(kbdq), t, Typed, Scans, ScanSteps(user.keys))
        BY <3>2, <2>1, <1>5, RunStarts
      <4>3. ScanStep(s, b, t, user.keys)
        BY <4>2, <3>2 DEF ScanSteps
      <4>4. e = TRUE
        BY <3>2
      <4> QED BY <4>1, <4>2, <4>3, <4>4, <3>2
    <3> QED BY <3>1, <3>2
  <2>5. PICK r, t \in Scans : /\ r.mods = modifiers /\ r.ext = e /\ r.n = n
                              /\ ScanStep(r, b, t, user.keys) /\ (e \/ b # E0)
                              /\ LeadsTo(kbdq', t, Typed, Scans, ScanSteps(user.keys))
    BY <2>4
  <2>6. /\ t.n \in 0..Len(user.keys) /\ t = Scanned(t.n)'
        /\ Within(got.keys \o Held(key_queue', INPUT_KEY_QUEUE_SIZE), user.keys, t.n)
    BY <2>1, <2>5, <1>3
  <2>7. Typed' = Typed
    BY DEF Typed
  <2>8. Held(key_queue, INPUT_KEY_QUEUE_SIZE)' = Held(key_queue', INPUT_KEY_QUEUE_SIZE)
    BY DEF Held
  <2> DEFINE m == t.n
  <2>9. /\ m \in 0..Len(user.keys)' /\ t \in Scans
        /\ LeadsTo(kbdq', t, Typed', Scans, ScanSteps(user.keys)')
        /\ t = Scanned(m)'
        /\ Within(got.keys' \o Held(key_queue, INPUT_KEY_QUEUE_SIZE)', user.keys', m)
    BY <2>5, <2>6, <2>7, <2>8 DEF ScanSteps
  <2> HIDE DEF m
  <2> QED BY <2>9 DEF KeyboardOK
<1> QED BY <1>3, <1>4, <1>6, <1>7, <1>8, <1>9 DEF InputInv

(* An interrupt of either device takes a byte of the mouse.                *)
LEMMA AuxByteTaken ==
    ASSUME InputInv, UNCHANGED <<held, kbdq, auxq, dwm, got, user, modifiers, key_queue, mangled>>,
           port # Nothing, port.aux, mouse_event_handler, port' = Nothing,
           irq' \subseteq irq, input_event' = TRUE
    PROVE InputInv'
<1>1. InputTypeOK /\ NewestIsCurrent
  BY DEF InputInv
<1>2. /\ irq' \subseteq {1, 12} /\ input_event' \in BOOLEAN
      /\ port' \in {Nothing} \cup [aux : BOOLEAN, byte : Byte] /\ ~port'.aux
      /\ Signalled'
  BY PortEmptied
<1>3. port.byte \in Byte /\ mouse \in Pointers
      /\ mouse_queue \in RingOf(MOUSE_QUEUE_SIZE, Seq(Int))
  BY <1>1, InputTypes DEF InputTypeOK
<1>4. /\ mouse' = PointerAfter(mouse, port.byte) /\ mouse' \in Pointers
      /\ mouse_queue' \in RingOf(MOUSE_QUEUE_SIZE, Seq(Int))
      /\ NewestIsCurrent'
  BY <1>1, <1>3, MouseByteStep
<1>5. InputTypeOK'
  BY <1>1, <1>2, <1>4 DEF InputTypeOK
<1>6. Advancing'
  BY DEF InputInv, Advancing
<1>7. ASSUME ~mangled PROVE KeyboardOK'
  BY <1>2, <1>7 DEF InputInv, KeyboardOK, Typed, Scanned, Held
<1>8. ASSUME ~mangled PROVE MouseOK'
  <2>1. PICK s \in Pointers : /\ LeadsTo(auxq, s, Meant, Pointers, PointerSteps)
                              /\ <<mouse, port.byte, s>> \in PointerSteps
    BY <1>8 DEF InputInv, MouseOK
  <2>2. s = mouse'
    BY <2>1, <1>4 DEF PointerSteps
  <2>3. Meant' = Meant
    BY DEF Meant
  <2> QED BY <2>1, <2>2, <2>3, <1>2 DEF MouseOK
<1> QED BY <1>2, <1>4, <1>5, <1>6, <1>7, <1>8 DEF InputInv

(* The interrupt of the keyboard finds the port empty, or gives up after   *)
(* an E0, or takes a byte of the mouse for the one behind it.              *)
LEMMA ScanGivenUp ==
    ASSUME InputInv, UNCHANGED <<held, kbdq, dwm, got, user, mouse, mouse_queue>>, port' = Nothing,
           irq' \subseteq irq, input_event' = TRUE,
           \/ port = Nothing /\ Idle /\ UNCHANGED <<auxq, mangled>>
           \/ mangled' = TRUE /\ Idle /\ UNCHANGED auxq
           \/ mangled' = TRUE /\ auxq # <<>> /\ kb_getc(TRUE, Head(auxq)) /\ auxq' = Tail(auxq)
    PROVE InputInv'
<1>1. InputTypeOK /\ Advancing
  BY DEF InputInv
<1>2. /\ irq' \subseteq {1, 12} /\ input_event' \in BOOLEAN
      /\ port' \in {Nothing} \cup [aux : BOOLEAN, byte : Byte] /\ ~port'.aux
      /\ Signalled'
  BY PortEmptied
<1>3. /\ modifiers' \subseteq Flags
      /\ key_queue' \in RingOf(INPUT_KEY_QUEUE_SIZE, KeyValues)
      /\ Advancing'
  <2>1. CASE Idle
    BY <2>1, <1>1 DEF Idle, InputTypeOK, Advancing
  <2>2. CASE auxq # <<>> /\ kb_getc(TRUE, Head(auxq))
    <3>1. Head(auxq) \in Byte
      BY <2>2, <1>1 DEF InputTypeOK
    <3>2. UNCHANGED <<got, user, dwm>>
      OBVIOUS
    <3> QED BY <2>2, <3>1, <3>2, <1>1, KeyArrives
  <2> QED BY <2>1, <2>2
<1>4. mangled' \in BOOLEAN /\ auxq' \in Seq(Byte)
  <2>1. mangled \in BOOLEAN /\ auxq \in Seq(Byte)
    BY <1>1 DEF InputTypeOK
  <2>2. auxq # <<>> => Tail(auxq) \in Seq(Byte)
    BY <2>1
  <2> QED BY <2>1, <2>2
<1>5. InputTypeOK'
  BY <1>1, <1>2, <1>3, <1>4 DEF InputTypeOK
<1>6. NewestIsCurrent'
  BY DEF InputInv, NewestIsCurrent, NothingLeft, Newest
<1>7. ASSUME ~mangled' PROVE KeyboardOK' /\ MouseOK'
  <2>1. port = Nothing /\ ~mangled /\ UNCHANGED <<auxq, modifiers, key_queue>>
    <3>1. mangled' # TRUE
      BY <1>7
    <3>2. port = Nothing /\ Idle /\ UNCHANGED <<auxq, mangled>>
      BY <3>1
    <3> QED BY <3>2, <1>7 DEF Idle
  <2>2. UNCHANGED port
    BY <2>1
  <2>3. KeyboardOK'
    BY <2>1, <2>2, KeyboardStays DEF InputInv, Held
  <2>4. MouseOK'
    BY <2>1, <2>2, MouseStays DEF InputInv, Meant
  <2> QED BY <2>3, <2>4
<1> QED BY <1>2, <1>3, <1>5, <1>6, <1>7 DEF InputInv

(* The keyboard's interrupt.                                               *)
LEMMA KeyboardStep ==
    ASSUME InputInv, keyboard_handler_c
    PROVE InputInv'
<1>1. irq' \subseteq irq /\ input_event' = TRUE /\ port' = Nothing /\ UNCHANGED <<held, dwm, got, user>>
  BY DEF keyboard_handler_c
<1>2. InputTypeOK /\ kbdq \in Seq(Byte) /\ (port # Nothing => port.byte \in Byte)
  BY InputTypes DEF InputInv, InputTypeOK
<1>3. port.byte = E0 => port # Nothing
  BY DEF Nothing, E0
<1>4. CASE port = Nothing /\ Idle /\ UNCHANGED <<kbdq, auxq, mouse, mouse_queue, mangled>>
  BY <1>1, <1>4, ScanGivenUp
<1>5. CASE port # Nothing /\ port.aux /\ mouse_event_handler /\ Idle
           /\ UNCHANGED <<kbdq, auxq, mangled>>
  <2>1. UNCHANGED <<modifiers, key_queue>>
    BY <1>5 DEF Idle
  <2> QED BY <1>1, <1>5, <2>1, AuxByteTaken
<1>6. CASE port # Nothing /\ ~port.aux /\ port.byte # E0 /\ kb_getc(FALSE, port.byte)
           /\ UNCHANGED <<kbdq, auxq, mouse, mouse_queue, mangled>>
  BY <1>1, <1>2, <1>6, ByteScanned
<1>7. CASE port.byte = E0 /\ ~port.aux /\ kbdq # <<>> /\ kb_getc(TRUE, Head(kbdq))
           /\ kbdq' = Tail(kbdq) /\ UNCHANGED <<auxq, mouse, mouse_queue, mangled>>
  <2>1. Head(kbdq) \in Byte
    BY <1>2, <1>7
  <2> QED BY <1>1, <1>3, <1>7, <2>1, ByteScanned
<1>8. CASE port.byte = E0 /\ ~port.aux /\ auxq # <<>> /\ kb_getc(TRUE, Head(auxq))
           /\ auxq' = Tail(auxq) /\ mangled' = TRUE /\ UNCHANGED <<kbdq, mouse, mouse_queue>>
  BY <1>1, <1>8, ScanGivenUp
<1>9. CASE port.byte = E0 /\ ~port.aux /\ Idle /\ mangled' = TRUE
           /\ UNCHANGED <<kbdq, auxq, mouse, mouse_queue>>
  BY <1>1, <1>9, ScanGivenUp
<1> QED BY <1>4, <1>5, <1>6, <1>7, <1>8, <1>9 DEF keyboard_handler_c

(* The mouse's interrupt.                                                  *)
LEMMA MouseHandlerStep ==
    ASSUME InputInv, mouse_handler_c
    PROVE InputInv'
<1>1. /\ irq' = irq \ {12} /\ input_event' = TRUE
      /\ UNCHANGED <<held, kbdq, auxq, modifiers, key_queue, dwm, got, user, mangled>>
  BY DEF mouse_handler_c, hardware
<1>2. CASE port # Nothing /\ port.aux /\ mouse_event_handler /\ port' = Nothing
  BY <1>1, <1>2, AuxByteTaken
<1>3. CASE UNCHANGED <<port, mouse, mouse_queue>>
  <2>1. InputTypeOK'
    BY <1>1, <1>3 DEF InputInv, InputTypeOK
  <2>2. Signalled'
    BY <1>1, <1>3 DEF InputInv, Signalled
  <2>3. Advancing' /\ NewestIsCurrent'
    BY <1>1, <1>3 DEF InputInv, Advancing, NewestIsCurrent, NothingLeft, Newest
  <2>4. KeyboardOK => KeyboardOK'
    BY <1>1, <1>3, KeyboardStays DEF Held
  <2>5. MouseOK => MouseOK'
    BY <1>1, <1>3, MouseStays DEF Meant
  <2> QED BY <2>1, <2>2, <2>3, <2>4, <2>5, <1>1 DEF InputInv
<1> QED BY <1>2, <1>3 DEF mouse_handler_c

(* Every step of keyboard, mouse, interrupts and DWM keeps the invariant.  *)
LEMMA InputNextInv == InputInv /\ [InputNext]_inputVars => InputInv'
<1> SUFFICES ASSUME InputInv, [InputNext]_inputVars PROVE InputInv'
  OBVIOUS
<1>1. CASE UNCHANGED inputVars
  <2>1. UNCHANGED <<held, kbdq, auxq, port, irq, modifiers, key_queue, mouse, mouse_queue, dwm,
                    input_event, got, user, mangled>>
    BY <1>1 DEF inputVars
  <2>2. InputTypeOK'
    BY <2>1 DEF InputInv, InputTypeOK
  <2>3. Signalled' /\ Advancing' /\ NewestIsCurrent'
    BY <2>1 DEF InputInv, Signalled, Advancing, NewestIsCurrent, NothingLeft, Newest
  <2>4. KeyboardOK => KeyboardOK'
    BY <2>1, KeyboardStays DEF Held
  <2>5. MouseOK => MouseOK'
    BY <2>1, MouseStays DEF Meant
  <2> QED BY <2>1, <2>2, <2>3, <2>4, <2>5 DEF InputInv
<1>2. ASSUME NEW k \in Keys, Press(k) PROVE InputInv'
  BY <1>2, PressStep
<1>3. ASSUME NEW k \in Keys, Lift(k) PROVE InputInv'
  BY <1>3, LiftStep
<1>4. ASSUME NEW p \in Moves, MoveMouse(p) PROVE InputInv'
  BY <1>4, MoveStep
<1>5. ASSUME NEW aux \in BOOLEAN, Deliver(aux) PROVE InputInv'
  BY <1>5, DeliverKeyStep, DeliverAuxStep
<1>6. CASE keyboard_handler_c
  BY <1>6, KeyboardStep
<1>7. CASE mouse_handler_c
  BY <1>7, MouseHandlerStep
<1>8. CASE Wake
  BY <1>8, WakeStep
<1>9. CASE PopRead
  BY <1>9, PopReadStep
<1>10. CASE PopAdvance
  BY <1>10, PopAdvanceStep
<1>11. CASE mouse_dequeue_event
  BY <1>11, DequeueStep
<1> QED
  BY <1>1, <1>2, <1>3, <1>4, <1>5, <1>6, <1>7, <1>8, <1>9, <1>10, <1>11 DEF InputNext

(* When no byte is under way, the flags are the keys' and the DWM has what *)
(* the mouse did.                                                          *)
LEMMA InputInvImplies == InputInv => InputArrives
<1> SUFFICES ASSUME InputInv PROVE InputArrives
  OBVIOUS
<1>1. InputTypeOK /\ Signalled /\ NewestIsCurrent
  BY DEF InputInv
<1>2. KeyboardIsTrue
  <2> SUFFICES ASSUME ~mangled
               PROVE /\ IsSubsequence(got.keys \o Queued, user.keys)
                     /\ (kbdq = <<>> /\ port.aux = (port # Nothing)) => modifiers = ModifiersOf(held)
    BY DEF KeyboardIsTrue
  <2>1. PICK n \in 0..Len(user.keys), s \in Scans :
          /\ LeadsTo(kbdq, s, Typed, Scans, ScanSteps(user.keys))
          /\ IF port # Nothing /\ ~port.aux
             THEN <<Scanned(n), port.byte, s>> \in ScanSteps(user.keys)
             ELSE s = Scanned(n)
          /\ Within(got.keys \o Held(key_queue, INPUT_KEY_QUEUE_SIZE), user.keys, n)
    BY DEF InputInv, KeyboardOK
  <2>2. Queued = Held(key_queue, INPUT_KEY_QUEUE_SIZE)
    BY DEF Queued, Held
  <2>3. IsSubsequence(got.keys \o Queued, user.keys)
    BY <2>1, <2>2, <1>1, InputTypes, WithinIsSubsequence
  <2>4. ASSUME kbdq = <<>>, port.aux = (port # Nothing) PROVE modifiers = ModifiersOf(held)
    <3>1. ~(port # Nothing /\ ~port.aux)
      BY <2>4
    <3>2. s = Scanned(n)
      BY <2>1, <3>1
    <3>3. s = Typed
      BY <2>1, <2>4, RunOfNone
    <3> QED BY <3>2, <3>3 DEF Scanned, Typed
  <2> QED BY <2>3, <2>4
<1>3. NothingStranded
  BY <1>1 DEF NothingStranded, Signalled, NothingLeft
<1>4. PointerStaysCurrent
  <2> SUFFICES ASSUME ~mangled, auxq = <<>>, ~port.aux, mouse_queue.head = mouse_queue.tail
               PROVE got.mouse = MouseEventOf(user)
    BY DEF PointerStaysCurrent
  <2>1. LeadsTo(<<>>, mouse, Meant, Pointers, PointerSteps)
    BY DEF InputInv, MouseOK
  <2>2. mouse \in Pointers
    BY <1>1 DEF InputTypeOK
  <2>3. mouse = Meant
    BY <2>1, <2>2, RunOfNone
  <2>4. got.mouse = MouseEventOf(mouse)
    BY <1>1 DEF NewestIsCurrent, NothingLeft
  <2> QED BY <2>3, <2>4 DEF MouseEventOf, Meant
<1> QED BY <1>2, <1>3, <1>4 DEF InputArrives, KeysArrive

(* thread_dwm_main receives what the user typed, in order and with the     *)
(* Shift of the moment, sees the pointer where the mouse put it, and never *)
(* sleeps on what waits in a ring, for any keys, packets and ring sizes.   *)
THEOREM InputReachesDwm == InputSpec => []InputArrives
<1>1. InputSpec => []InputInv
  BY InputInitInv, InputNextInv, PTL DEF InputSpec
<1> QED BY <1>1, InputInvImplies, PTL

-----------------------------------------------------------------------------
(* X4.  Frames never meet, the last one ends where bp is, and nothing is   *)
(* written below bp.                                                       *)

(* The four bytes of v as a pointer at address a and above.                *)
HoldsPtr(s, a, v) == \A j \in 0..3 : s[a + j] = <<v, j>>

Frame == [ep : Int, bp : Nat, sp : Nat]

(* A CALL has left the caller's bp at sp, and where to go on above it.     *)
HasFrame(s, f) == HoldsPtr(s, f.sp, f.bp) /\ HoldsPtr(s, f.sp + 4, f.ep)

IsStack(s) == s = [a \in 0..(StackSize - 1) |-> s[a]]

X4TypeOK ==
    /\ cpu = [reg |-> cpu.reg, ep |-> cpu.ep, bp |-> cpu.bp, sp |-> cpu.sp, state |-> cpu.state]
    /\ cpu.ep \in Int /\ cpu.bp \in Nat /\ cpu.sp \in 0..StackSize
    /\ IsStack(stack)
    /\ calls_open \in Seq(Frame)

(* Where the frame behind the k-th call begins.                            *)
BaseAt(k) == IF k = Len(calls_open) THEN cpu.bp ELSE calls_open[k + 1].bp

(* The frames lie one behind the other, the first at the bottom and the    *)
(* last below bp.                                                          *)
FramesOK ==
    /\ cpu.bp <= cpu.sp
    /\ IF calls_open = <<>> THEN cpu.bp = 0 ELSE calls_open[1].bp = 0
    /\ \A k \in 1..Len(calls_open) :
          /\ HasFrame(stack, calls_open[k])
          /\ BaseAt(k) = calls_open[k].sp + 8
          /\ calls_open[k].bp <= calls_open[k].sp
          /\ calls_open[k].sp + 8 <= cpu.bp
    /\ \A k, l \in 1..Len(calls_open) : k < l => calls_open[k].sp + 8 <= calls_open[l].bp

X4Inv == X4TypeOK /\ FramesOK

(* What was pushed is what is popped.                                      *)
LEMMA PtrPopped ==
    ASSUME NEW s, NEW a \in Nat, NEW v, HoldsPtr(s, a, v)
    PROVE stack_pop_ptr(s, a + 4) = v
<1>1. \A k \in 0..3 : (a + 4) - 4 + k = a + k
  OBVIOUS
<1>2. (a + 4) - 4 = a /\ a = a + 0
  OBVIOUS
<1>3. s[a] = <<v, 0>>
  <2>1. s[a + 0] = <<v, 0>>
    BY DEF HoldsPtr
  <2> QED BY <2>1, <1>2
<1>4. s[a][1] = v
  BY <1>3
<1>5. \A k \in 0..3 : s[(a + 4) - 4 + k] = <<s[(a + 4) - 4][1], k>>
  BY <1>1, <1>2, <1>4 DEF HoldsPtr
<1> QED BY <1>2, <1>4, <1>5 DEF stack_pop_ptr

(* What is written above the frames leaves them as they are.               *)
LEMMA FramesStay ==
    ASSUME NEW s, NEW t, NEW f \in Frame, HasFrame(s, f),
           \A a \in f.sp..(f.sp + 7) : t[a] = s[a]
    PROVE HasFrame(t, f)
<1>1. f.sp \in Nat
  BY DEF Frame
<1>2. \A j \in 0..3 : /\ f.sp + j \in f.sp..(f.sp + 7)
                      /\ (f.sp + 4) + j \in f.sp..(f.sp + 7)
  BY <1>1
<1> QED BY <1>2 DEF HasFrame, HoldsPtr

(* Steps that touch neither bp nor sp nor the stack, only ep, the          *)
(* registers and the flags.                                                *)
LEMMA FramesKept ==
    ASSUME X4Inv, UNCHANGED <<stack, calls_open>>, NEW r, NEW e \in Int, NEW s,
           cpu' = [reg |-> r, ep |-> e, bp |-> cpu.bp, sp |-> cpu.sp, state |-> s]
    PROVE X4Inv'
<1>0. /\ cpu' = [reg |-> cpu'.reg, ep |-> cpu'.ep, bp |-> cpu'.bp, sp |-> cpu'.sp,
                 state |-> cpu'.state]
      /\ cpu'.bp = cpu.bp /\ cpu'.sp = cpu.sp /\ cpu'.ep \in Int
  OBVIOUS
<1>1. X4TypeOK'
  BY <1>0 DEF X4Inv, X4TypeOK
<1>2. FramesOK'
  BY <1>0 DEF X4Inv, FramesOK, BaseAt
<1> QED BY <1>1, <1>2 DEF X4Inv

CpuOf(c, r, e, s) == [reg |-> r, ep |-> e, bp |-> c.bp, sp |-> c.sp, state |-> s]
GoesOnAt(c, e) == [c EXCEPT !.ep = e]

(* No opcode of the arithmetic touches bp or sp.                           *)
LEMMA AluStays ==
    ASSUME NEW i, i[1] \in AluOps, NEW c,
           c = CpuOf(c, c.reg, c.ep, c.state), NEW e
    PROVE \E r, s : GoesOnAt(Alu(i, c), e) = CpuOf(c, r, e, s)
<1> USE DEF CpuOf
<1> DEFINE R(r, s) == [reg |-> r, ep |-> c.ep, bp |-> c.bp, sp |-> c.sp, state |-> s]
<1>1. \A x, v : \E r, s : Set(c, x, v) = R(r, s)
  <2> SUFFICES ASSUME NEW x, NEW v PROVE \E r, s : Set(c, x, v) = R(r, s)
    OBVIOUS
  <2>1. [c EXCEPT !.reg[x] = v % BYTE] = R([c.reg EXCEPT ![x] = v % BYTE], c.state)
    OBVIOUS
  <2>2. \A r, s, z : [R(r, s) EXCEPT !.state = z] = R(r, z)
    OBVIOUS
  <2>3. \A r, s, z : \E y : Zero(R(r, s), z) = R(r, y)
    <3> SUFFICES ASSUME NEW r, NEW s, NEW z PROVE \E y : Zero(R(r, s), z) = R(r, y)
      OBVIOUS
    <3> DEFINE y == IF z = 0 THEN R(r, s).state \cup {"ZERO"} ELSE R(r, s).state \ {"ZERO"}
    <3>1. Zero(R(r, s), z) = [R(r, s) EXCEPT !.state = y]
      BY DEF Zero
    <3> HIDE DEF y
    <3> QED BY <3>1, <2>2
  <2> HIDE DEF R
  <2> QED BY <2>1, <2>3 DEF Set
<1>2. \A x, v : \E r, s : [c EXCEPT !.reg[x] = v] = R(r, s)
  <2> SUFFICES ASSUME NEW x, NEW v PROVE \E r, s : [c EXCEPT !.reg[x] = v] = R(r, s)
    OBVIOUS
  <2>1. [c EXCEPT !.reg[x] = v] = R([c.reg EXCEPT ![x] = v], c.state)
    OBVIOUS
  <2> QED BY <2>1
<1>3. \A z : \E r, s : [c EXCEPT !.state = z] = R(r, s)
  <2> SUFFICES ASSUME NEW z PROVE \E r, s : [c EXCEPT !.state = z] = R(r, s)
    OBVIOUS
  <2>1. [c EXCEPT !.state = z] = R(c.reg, z)
    OBVIOUS
  <2> QED BY <2>1
<1>4. \A x, y : \E r, s : update_compare_flags(c, x, y) = R(r, s)
  BY ZenonT(30), <1>3 DEF update_compare_flags
<1>5. \E r, s : Alu(i, c) = R(r, s)
  <2> HIDE DEF R
  <2>1. CASE i[1] \in {"NOP", "CLI", "STI"}
    <3>1. Alu(i, c) = [c EXCEPT !.state = IF i[1] = "STI" THEN @ \cup {"INTERRUPT"}
                                   ELSE IF i[1] = "CLI" THEN @ \ {"INTERRUPT"} ELSE @]
      BY <2>1 DEF Alu
    <3> QED BY <3>1, <1>3
  <2>2. CASE i[1] \in {"MOVR", "MOVB"}
    <3>1. i[1] = "MOVR" => Alu(i, c) = [c EXCEPT !.reg[i[2]] = c.reg[i[3]]]
      BY DEF Alu
    <3>2. i[1] = "MOVB" => Alu(i, c) = [c EXCEPT !.reg[i[2]] = i[3]]
      BY DEF Alu
    <3>3. \E v : Alu(i, c) = [c EXCEPT !.reg[i[2]] = v]
      BY <2>2, <3>1, <3>2, Zenon
    <3>4. PICK v : Alu(i, c) = [c EXCEPT !.reg[i[2]] = v]
      BY <3>3
    <3>5. [c EXCEPT !.reg[i[2]] = v] = R([c.reg EXCEPT ![i[2]] = v], c.state)
      BY DEF R
    <3> QED BY <3>4, <3>5, Zenon
  <2>3. CASE i[1] \in {"CMP", "CMPR"}
    <3>1. \E v : Alu(i, c) = update_compare_flags(c, c.reg[i[2]], v)
      BY <2>3 DEF Alu
    <3> QED BY <3>1, <1>4
  <2>4. CASE i[1] \in {"INC", "DEC", "ADD", "SUB", "MUL", "DIV", "AND", "OR", "XOR", "NOT"}
    <3>1. \E v : Alu(i, c) = Set(c, i[2], v)
      BY <2>4 DEF Alu
    <3> QED BY <3>1, <1>1
  <2> QED BY <2>1, <2>2, <2>3, <2>4 DEF AluOps
<1>6. PICK r, s : Alu(i, c) = R(r, s)
  BY <1>5
<1>7. [Alu(i, c) EXCEPT !.ep = e] = [reg |-> r, ep |-> e, bp |-> c.bp, sp |-> c.sp, state |-> s]
  BY <1>6
<1> QED BY <1>7 DEF GoesOnAt

(* Pushing a byte, or popping one that was pushed since the CALL.          *)
LEMMA TopMoves ==
    ASSUME X4Inv, UNCHANGED calls_open, cpu'.bp = cpu.bp, cpu'.sp \in 0..StackSize,
           cpu.bp <= cpu'.sp,
           cpu' = [reg |-> cpu'.reg, ep |-> cpu'.ep, bp |-> cpu'.bp, sp |-> cpu'.sp,
                   state |-> cpu'.state],
           cpu'.ep \in Int,
           IsStack(stack'),
           \A a \in 0..(cpu.bp - 1) : stack'[a] = stack[a]
    PROVE X4Inv'
<1>1. X4TypeOK'
  BY DEF X4Inv, X4TypeOK
<1>2. ASSUME NEW k \in 1..Len(calls_open) PROVE HasFrame(stack', calls_open[k])
  <2>1. calls_open[k] \in Frame /\ cpu.bp \in Nat
    BY DEF X4Inv, X4TypeOK
  <2>2. HasFrame(stack, calls_open[k]) /\ calls_open[k].sp + 8 <= cpu.bp
    BY DEF X4Inv, FramesOK
  <2>3. \A a \in calls_open[k].sp..(calls_open[k].sp + 7) : stack'[a] = stack[a]
    BY <2>1, <2>2 DEF Frame
  <2> QED BY <2>1, <2>2, <2>3, FramesStay
<1>3. FramesOK'
  <2>1. \A k : BaseAt(k)' = BaseAt(k)
    BY DEF BaseAt
  <2> QED BY <1>2, <2>1 DEF X4Inv, FramesOK
<1> QED BY <1>1, <1>3 DEF X4Inv

(* A pointer that was pushed is there, and nothing else has changed.       *)
LEMMA PtrPushed ==
    ASSUME NEW s, IsStack(s), NEW sp \in Nat, sp + 4 <= StackSize, NEW v
    PROVE /\ IsStack(stack_push_ptr(s, sp, v))
          /\ HoldsPtr(stack_push_ptr(s, sp, v), sp, v)
          /\ \A a \in 0..(StackSize - 1) :
                a \notin sp..(sp + 3) => stack_push_ptr(s, sp, v)[a] = s[a]
<1> DEFINE t == stack_push_ptr(s, sp, v)
<1>1. DOMAIN s = 0..(StackSize - 1) /\ StackSize \in Nat
  BY X4Assumption DEF IsStack
<1>2. t = [a \in 0..(StackSize - 1) |-> IF a \in sp..(sp + 3) THEN <<v, a - sp>> ELSE s[a]]
  BY <1>1 DEF stack_push_ptr
<1> HIDE DEF t
<1>3. \A j \in 0..3 : sp + j \in 0..(StackSize - 1) /\ sp + j \in sp..(sp + 3) /\ (sp + j) - sp = j
  BY <1>1
<1>4. \A j \in 0..3 : t[sp + j] = <<v, j>>
  BY <1>2, <1>3
<1>5. IsStack(t)
  BY <1>2 DEF IsStack
<1>6. \A a \in 0..(StackSize - 1) : a \notin sp..(sp + 3) => t[a] = s[a]
  BY <1>2
<1> QED BY <1>4, <1>5, <1>6 DEF HoldsPtr, t

(* CALL: a frame more, above the others.                                   *)
LEMMA CallStep ==
    ASSUME X4Inv, NEW target \in Int, cpu.sp + 8 <= StackSize, opcode_CALL(target),
           calls_open' = Append(calls_open, [ep |-> cpu.ep + 5, bp |-> cpu.bp, sp |-> cpu.sp])
    PROVE X4Inv'
<1> DEFINE f == [ep |-> cpu.ep + 5, bp |-> cpu.bp, sp |-> cpu.sp]
           n == Len(calls_open)
           one == stack_push_ptr(stack, cpu.sp, cpu.bp)
<1>1. /\ cpu = [reg |-> cpu.reg, ep |-> cpu.ep, bp |-> cpu.bp, sp |-> cpu.sp, state |-> cpu.state]
      /\ cpu.ep \in Int /\ cpu.bp \in Nat /\ cpu.sp \in 0..StackSize
      /\ IsStack(stack)
      /\ calls_open \in Seq(Frame) /\ StackSize \in Nat
      /\ cpu.bp <= cpu.sp
  BY X4Assumption DEF X4Inv, X4TypeOK, FramesOK
<1>b. cpu.sp \in Nat /\ cpu.bp \in Nat /\ cpu.bp <= cpu.sp /\ cpu.sp + 8 <= StackSize /\ StackSize \in Nat
  BY <1>1
<1>2. /\ cpu' = [reg |-> cpu.reg, ep |-> target, bp |-> cpu.sp + 8, sp |-> cpu.sp + 8,
                 state |-> cpu.state]
      /\ stack' = stack_push_ptr(one, cpu.sp + 4, cpu.ep + 5)
  BY <1>1 DEF opcode_CALL
<1>3. /\ IsStack(one)
      /\ HoldsPtr(one, cpu.sp, cpu.bp)
      /\ \A a \in 0..(StackSize - 1) : a \notin cpu.sp..(cpu.sp + 3) => one[a] = stack[a]
  <2>1. cpu.sp \in Nat /\ cpu.sp + 4 <= StackSize
    BY <1>1
  <2> QED BY <1>1, <2>1, PtrPushed
<1> HIDE DEF one
<1>4. /\ IsStack(stack')
      /\ HoldsPtr(stack', cpu.sp + 4, cpu.ep + 5)
      /\ \A a \in 0..(StackSize - 1) : a \notin (cpu.sp + 4)..(cpu.sp + 7) => stack'[a] = one[a]
  <2>1. cpu.sp + 4 \in Nat /\ (cpu.sp + 4) + 4 <= StackSize /\ (cpu.sp + 4) + 3 = cpu.sp + 7
    BY SMTT(30), <1>b
  <2> DEFINE t == stack_push_ptr(one, cpu.sp + 4, cpu.ep + 5)
  <2>2. /\ IsStack(t) /\ HoldsPtr(t, cpu.sp + 4, cpu.ep + 5)
        /\ \A a \in 0..(StackSize - 1) : a \notin (cpu.sp + 4)..((cpu.sp + 4) + 3) => t[a] = one[a]
    BY <1>3, <2>1, PtrPushed
  <2> HIDE DEF t
  <2>3. stack' = t
    BY <1>2 DEF t
  <2> QED BY <2>1, <2>2, <2>3
<1>5. HasFrame(stack', f)
  <2>1. HoldsPtr(stack', cpu.sp, cpu.bp)
    <3>1. \A j \in 0..3 : /\ cpu.sp + j \in 0..(StackSize - 1)
                          /\ cpu.sp + j \notin (cpu.sp + 4)..(cpu.sp + 7)
      BY SMTT(30), <1>b
    <3> QED BY <3>1, <1>3, <1>4 DEF HoldsPtr
  <2> QED BY <2>1, <1>4 DEF HasFrame
<1>6. f \in Frame /\ f.sp = cpu.sp /\ f.bp = cpu.bp
  BY <1>1 DEF Frame
<1> HIDE DEF f
<1>7. /\ n \in Nat /\ Len(calls_open') = n + 1 /\ calls_open' \in Seq(Frame)
      /\ calls_open'[n + 1] = f /\ calls_open' # <<>>
      /\ \A k \in 1..n : calls_open'[k] = calls_open[k] /\ calls_open[k] \in Frame
  BY SMTT(30), <1>1, <1>6 DEF f
<1>8. X4TypeOK'
  BY <1>1, <1>2, <1>4, <1>7 DEF X4TypeOK
<1>9. ASSUME NEW k \in 1..n PROVE HasFrame(stack', calls_open[k])
  <2>1. HasFrame(stack, calls_open[k]) /\ calls_open[k].sp + 8 <= cpu.bp /\ calls_open[k].sp \in Nat
    BY <1>7 DEF X4Inv, FramesOK, Frame
  <2>2. \A a \in calls_open[k].sp..(calls_open[k].sp + 7) :
          /\ a \in 0..(StackSize - 1) /\ a \notin cpu.sp..(cpu.sp + 3)
          /\ a \notin (cpu.sp + 4)..(cpu.sp + 7)
    <3> DEFINE x == calls_open[k].sp
               bp == cpu.bp
               sp == cpu.sp
    <3>1. /\ x \in Nat /\ x + 8 <= bp /\ bp \in Nat /\ sp \in Nat /\ bp <= sp
          /\ sp + 8 <= StackSize /\ StackSize \in Nat
      BY <2>1, <1>b
    <3> HIDE DEF x, bp, sp
    <3>2. \A a \in x..(x + 7) : /\ a \in 0..(StackSize - 1) /\ a \notin sp..(sp + 3)
                               /\ a \notin (sp + 4)..(sp + 7)
      BY <3>1
    <3> QED BY <3>2 DEF x, bp, sp
  <2>3. \A a \in calls_open[k].sp..(calls_open[k].sp + 7) : stack'[a] = stack[a]
    BY <2>2, <1>3, <1>4
  <2> QED BY <2>1, <2>3, <1>7, FramesStay
<1>10. cpu'.bp = cpu.sp + 8 /\ cpu'.sp = cpu.sp + 8
  BY <1>2
<1>11. calls_open'[1].bp = 0
  <2>1. CASE n = 0
    BY <2>1, <1>1, <1>6, <1>7 DEF X4Inv, FramesOK
  <2>2. CASE n # 0
    BY <2>2, <1>1, <1>7 DEF X4Inv, FramesOK
  <2> QED BY <2>1, <2>2
<1>12. ASSUME NEW k \in 1..(n + 1)
       PROVE /\ HasFrame(stack', calls_open'[k])
             /\ BaseAt(k)' = calls_open'[k].sp + 8
             /\ calls_open'[k].bp <= calls_open'[k].sp
             /\ calls_open'[k].sp + 8 <= cpu'.bp
  <2>1. CASE k = n + 1
    <3>1. BaseAt(k)' = cpu'.bp
      BY <2>1, <1>7 DEF BaseAt
    <3> QED BY <2>1, <3>1, <1>1, <1>5, <1>6, <1>7, <1>10
  <2>2. CASE k \in 1..n
    <3>1. calls_open'[k] = calls_open[k] /\ calls_open[k].sp \in Nat
      BY <2>2, <1>7 DEF Frame
    <3>2. /\ BaseAt(k) = calls_open[k].sp + 8 /\ calls_open[k].bp <= calls_open[k].sp
          /\ calls_open[k].sp + 8 <= cpu.bp
      BY <2>2 DEF X4Inv, FramesOK
    <3>3. BaseAt(k)' = BaseAt(k)
      <4>1. CASE k = n
        BY <4>1, <2>2, <1>6, <1>7 DEF BaseAt
      <4>2. CASE k # n
        <5>1. k + 1 \in 1..n /\ k # n + 1
          BY <4>2, <2>2, <1>7
        <5> QED BY <4>2, <5>1, <1>7 DEF BaseAt
      <4> QED BY <4>1, <4>2
    <3> QED BY SMTT(30), <2>2, <3>1, <3>2, <3>3, <1>1, <1>9, <1>10
  <2> QED BY <2>1, <2>2, <1>7
<1>13. ASSUME NEW k \in 1..(n + 1), NEW l \in 1..(n + 1), k < l
       PROVE calls_open'[k].sp + 8 <= calls_open'[l].bp
  <2>1. k \in 1..n /\ calls_open'[k] = calls_open[k]
    BY <1>7, <1>13
  <2>2. CASE l = n + 1
    BY <2>1, <2>2, <1>6, <1>7 DEF X4Inv, FramesOK
  <2>3. CASE l \in 1..n
    BY <2>1, <2>3, <1>7, <1>13 DEF X4Inv, FramesOK
  <2> QED BY <2>2, <2>3, <1>7
<1>14. FramesOK'
  <2>1. cpu'.bp <= cpu'.sp
    BY <1>1, <1>10
  <2>2. 1..Len(calls_open)' = 1..(n + 1)
    BY <1>7
  <2> HIDE DEF n
  <2> QED BY <2>1, <2>2, <1>7, <1>11, <1>12, <1>13 DEF FramesOK
<1> QED BY <1>8, <1>14 DEF X4Inv

(* RET: the frame below is the current one again.                          *)
LEMMA RetStep ==
    ASSUME X4Inv, calls_open # <<>>, opcode_RET,
           calls_open' = SubSeq(calls_open, 1, Len(calls_open) - 1)
    PROVE X4Inv'
<1> DEFINE n == Len(calls_open)
           f == calls_open[n]
<1>1. /\ cpu = [reg |-> cpu.reg, ep |-> cpu.ep, bp |-> cpu.bp, sp |-> cpu.sp, state |-> cpu.state]
      /\ cpu.ep \in Int /\ cpu.bp \in Nat /\ cpu.sp \in 0..StackSize
      /\ IsStack(stack)
      /\ calls_open \in Seq(Frame) /\ StackSize \in Nat
      /\ cpu.bp <= cpu.sp
  BY X4Assumption DEF X4Inv, X4TypeOK, FramesOK
<1>2. n \in Nat \ {0} /\ f \in Frame /\ n \in 1..n /\ 1 \in 1..n
  BY <1>1
<1>3. f.ep \in Int /\ f.bp \in Nat /\ f.sp \in Nat
  BY <1>2 DEF Frame
<1>4. /\ HasFrame(stack, f) /\ cpu.bp = f.sp + 8 /\ f.bp <= f.sp
      /\ calls_open[1].bp = 0
      /\ \A k \in 1..n : k < n => calls_open[k].sp + 8 <= f.bp
  BY <1>2 DEF X4Inv, FramesOK, BaseAt
<1>5. stack_pop_ptr(stack, cpu.bp) = f.ep /\ stack_pop_ptr(stack, cpu.bp - 4) = f.bp
  <2>1. cpu.bp = (f.sp + 4) + 4 /\ cpu.bp - 4 = f.sp + 4 /\ f.sp + 4 \in Nat
    BY <1>3, <1>4
  <2> HIDE DEF f
  <2>2. stack_pop_ptr(stack, (f.sp + 4) + 4) = f.ep
    BY <2>1, <1>4, PtrPopped DEF HasFrame
  <2>3. stack_pop_ptr(stack, f.sp + 4) = f.bp
    BY <1>3, <1>4, PtrPopped DEF HasFrame
  <2> QED BY <2>1, <2>2, <2>3
<1> HIDE DEF f
<1>6. cpu' = [reg |-> cpu.reg, ep |-> f.ep, bp |-> f.bp, sp |-> f.sp, state |-> cpu.state]
  <2>1. cpu.bp - 8 = f.sp
    BY <1>3, <1>4
  <2>2. cpu' = [cpu EXCEPT !.sp = cpu.bp - 8, !.ep = stack_pop_ptr(stack, cpu.bp),
                           !.bp = stack_pop_ptr(stack, cpu.bp - 4)]
    BY DEF opcode_RET
  <2> QED BY <1>1, <1>5, <2>1, <2>2
<1>7. stack' = stack
  BY DEF opcode_RET
<1>8. /\ calls_open' \in Seq(Frame) /\ Len(calls_open') = n - 1
      /\ \A k \in 1..(n - 1) : calls_open'[k] = calls_open[k] /\ calls_open[k] \in Frame
      /\ (calls_open' = <<>>) <=> (n = 1)
  <2>1. n - 1 \in 0..n
    BY <1>2
  <2>2. /\ calls_open' \in Seq(Frame) /\ Len(calls_open') = n - 1
        /\ \A k \in 1..(n - 1) : calls_open'[k] = calls_open[k]
    <3>1. calls_open \in Seq(Frame) /\ n - 1 \in 0..Len(calls_open)
      BY <2>1, <1>1
    <3>2. calls_open' = SubSeq(calls_open, 1, n - 1)
      OBVIOUS
    <3> HIDE DEF n
    <3>3. \A k \in 1..(n - 1) : 1 + k - 1 = k
      BY <1>2
    <3> QED BY <3>1, <3>2, <3>3, <1>2, SubSeqProperties
  <2>3. \A k \in 1..(n - 1) : calls_open[k] \in Frame
    BY <1>1, <1>2
  <2>4. (calls_open' = <<>>) <=> (Len(calls_open') = 0)
    BY <2>2, EmptySeq
  <2> QED BY <2>2, <2>3, <2>4, <1>2
<1>a. n = Len(calls_open)
  OBVIOUS
<1> HIDE DEF n
<1>9. X4TypeOK'
  <2>1. f.sp \in 0..StackSize
    BY <1>1, <1>3, <1>4
  <2> QED BY <1>1, <1>3, <1>6, <1>7, <1>8, <2>1 DEF X4TypeOK
<1>10. cpu'.bp = f.bp /\ cpu'.sp = f.sp
  BY <1>6
<1>11. ASSUME NEW k \in 1..(n - 1)
       PROVE /\ HasFrame(stack', calls_open'[k])
             /\ BaseAt(k)' = calls_open'[k].sp + 8
             /\ calls_open'[k].bp <= calls_open'[k].sp
             /\ calls_open'[k].sp + 8 <= cpu'.bp
  <2>1. k \in 1..n /\ k < n /\ calls_open'[k] = calls_open[k] /\ k # n /\ k + 1 \in 1..n
    BY <1>2, <1>8
  <2>2. BaseAt(k)' = BaseAt(k)
    <3>1. CASE k = n - 1
      BY <3>1, <2>1, <1>2, <1>8, <1>10, <1>a DEF BaseAt, f
    <3>2. CASE k # n - 1
      <4>1. k + 1 \in 1..(n - 1)
        BY <3>2, <1>2
      <4> QED BY <3>2, <4>1, <2>1, <1>8, <1>a DEF BaseAt
    <3> QED BY <3>1, <3>2
  <2> QED BY <2>1, <2>2, <1>4, <1>7, <1>10, <1>a DEF X4Inv, FramesOK
<1>12. CASE n = 1
  <2>1. f.bp = 0
    BY <1>12, <1>4 DEF f
  <2> QED BY <1>12, <2>1, <1>3, <1>4, <1>8, <1>9, <1>10 DEF X4Inv, FramesOK
<1>13. CASE n # 1
  <2>1. 1 \in 1..(n - 1)
    BY <1>13, <1>2
  <2>2. calls_open'[1].bp = 0 /\ calls_open' # <<>>
    BY <2>1, <1>4, <1>8, <1>13
  <2>3. ASSUME NEW k \in 1..(n - 1), NEW l \in 1..(n - 1), k < l
        PROVE calls_open'[k].sp + 8 <= calls_open'[l].bp
    <3>1. k \in 1..n /\ l \in 1..n
      BY <1>2
    <3> QED BY <3>1, <2>3, <1>8, <1>a DEF X4Inv, FramesOK
  <2>4. FramesOK'
    BY <2>2, <2>3, <1>3, <1>4, <1>8, <1>10, <1>11 DEF FramesOK
  <2> QED BY <2>4, <1>9 DEF X4Inv
<1> QED BY <1>12, <1>13

(* The code fetched so far is made of the instructions of the machine.     *)
CodeOK == \A a \in DOMAIN code : code[a] \in Instructions

(* What x4_emulate fetched once is there again.                            *)
LEMMA CodeStays == CodeOK /\ [X4Next]_x4Vars => CodeOK'
<1> SUFFICES ASSUME CodeOK, [X4Next]_x4Vars PROVE CodeOK'
  OBVIOUS
<1>1. CASE UNCHANGED code
  BY <1>1 DEF CodeOK
<1>2. CASE x4_emulate
  <2>1. PICK i \in Fetched :
          code' = [a \in DOMAIN code \cup {cpu.ep} |-> IF a = cpu.ep THEN i ELSE code[a]]
    BY <1>2 DEF x4_emulate
  <2>2. i \in Instructions
    BY DEF Fetched, CodeOK
  <2> QED BY <2>1, <2>2 DEF CodeOK
<1> QED BY <1>1, <1>2 DEF X4Next, Resume, Key, x4Vars

(* The stack is empty when a program starts.                               *)
LEMMA X4InitInv == X4Init => X4Inv
<1> SUFFICES ASSUME X4Init PROVE X4Inv
  OBVIOUS
<1>1. /\ cpu = [reg |-> [r \in Regs |-> 0], ep |-> 0, bp |-> 0, sp |-> 0, state |-> {}]
      /\ stack = [a \in 0..(StackSize - 1) |-> 0] /\ calls_open = <<>> /\ StackSize \in Nat
  BY X4Assumption DEF X4Init
<1>2. X4TypeOK
  BY <1>1 DEF X4TypeOK, IsStack
<1>3. FramesOK
  BY <1>1 DEF FramesOK
<1> QED BY <1>2, <1>3 DEF X4Inv

(* Every instruction keeps the frames, as long as it is not one that would *)
(* reach below them.                                                       *)
LEMMA X4NextInv == X4Inv /\ CodeOK /\ [X4Next]_x4Vars => X4Inv'
<1> SUFFICES ASSUME X4Inv, CodeOK, [X4Next]_x4Vars PROVE X4Inv'
  OBVIOUS
<1>1. /\ cpu = [reg |-> cpu.reg, ep |-> cpu.ep, bp |-> cpu.bp, sp |-> cpu.sp, state |-> cpu.state]
      /\ cpu.ep \in Int /\ cpu.bp \in Nat /\ cpu.sp \in 0..StackSize
      /\ IsStack(stack) /\ DOMAIN stack = 0..(StackSize - 1)
      /\ StackSize \in Nat /\ cpu.bp <= cpu.sp
  BY X4Assumption DEF X4Inv, X4TypeOK, FramesOK, IsStack
<1>2. CASE UNCHANGED <<cpu, stack, calls_open>>
  <2>1. cpu' = [reg |-> cpu.reg, ep |-> cpu.ep, bp |-> cpu.bp, sp |-> cpu.sp, state |-> cpu.state]
    BY <1>1, <1>2
  <2> QED BY <2>1, <1>2, <1>1, FramesKept
<1>3. ASSUME NEW i, i[1] \in AluOps,
             cpu' = [Alu(i, cpu) EXCEPT !.ep = cpu.ep + Length(i[1])],
             UNCHANGED <<stack, calls_open>>
      PROVE X4Inv'
  <2> DEFINE e == cpu.ep + Length(i[1])
  <2>1. e \in Int
    <3>1. Length(i[1]) \in Int
      BY <1>3 DEF Length, AluOps, Jumps
    <3> QED BY <1>1, <3>1
  <2> HIDE DEF e
  <2>2. cpu' = [Alu(i, cpu) EXCEPT !.ep = e]
    BY <1>3 DEF e
  <2>3. cpu = CpuOf(cpu, cpu.reg, cpu.ep, cpu.state)
    BY <1>1 DEF CpuOf
  <2>4. PICK r, s : GoesOnAt(Alu(i, cpu), e) = CpuOf(cpu, r, e, s)
    BY <1>3, <2>3, AluStays
  <2>5. cpu' = [reg |-> r, ep |-> e, bp |-> cpu.bp, sp |-> cpu.sp, state |-> s]
    BY <2>2, <2>4 DEF GoesOnAt, CpuOf
  <2> QED BY <1>3, <2>1, <2>5, FramesKept
<1>4. ASSUME NEW i \in Instructions, i[1] \in Jumps,
             cpu' = [cpu EXCEPT !.ep = IF Taken(i[1], cpu.state) THEN i[2] ELSE @ + 5],
             UNCHANGED <<stack, calls_open>>
      PROVE X4Inv'
  <2> DEFINE e == IF Taken(i[1], cpu.state) THEN i[2] ELSE cpu.ep + 5
  <2>1. e \in Int
    BY <1>1, <1>4, X4Assumption
  <2> HIDE DEF e
  <2>2. cpu' = [reg |-> cpu.reg, ep |-> e, bp |-> cpu.bp, sp |-> cpu.sp, state |-> cpu.state]
    BY <1>1, <1>4 DEF e
  <2> QED BY <1>4, <2>1, <2>2, FramesKept
<1>5. ASSUME NEW i \in Instructions, i[1] = "CALL", cpu.sp + 8 <= StackSize, opcode_CALL(i[2]),
             calls_open' = Append(calls_open,
                              [ep |-> cpu.ep + 5, bp |-> cpu.bp, sp |-> cpu.sp])
      PROVE X4Inv'
  <2>1. i[2] \in Int
    BY <1>5, X4Assumption
  <2> QED BY <1>5, <2>1, CallStep
<1>6. ASSUME calls_open # <<>>, opcode_RET,
             calls_open' = SubSeq(calls_open, 1, Len(calls_open) - 1)
      PROVE X4Inv'
  BY <1>6, RetStep
<1>7. ASSUME NEW r, opcode_PUSH(r), UNCHANGED calls_open PROVE X4Inv'
  <2>1. /\ cpu.sp < StackSize /\ stack' = [stack EXCEPT ![cpu.sp] = cpu.reg[r]]
        /\ cpu' = [reg |-> cpu.reg, ep |-> cpu.ep + 2, bp |-> cpu.bp, sp |-> cpu.sp + 1,
                   state |-> cpu.state]
    BY <1>1, <1>7 DEF opcode_PUSH
  <2>2. IsStack(stack') /\ \A a \in 0..(cpu.bp - 1) : stack'[a] = stack[a]
    <3> DEFINE v == cpu.reg[r]
               sp == cpu.sp
    <3>1. stack' = [stack EXCEPT ![sp] = v] /\ sp \in 0..(StackSize - 1) /\ cpu.bp <= sp
      BY <1>1, <2>1
    <3> HIDE DEF v, sp
    <3>2. IsStack(stack')
      BY <3>1, <1>1 DEF IsStack
    <3>3. \A a \in 0..(cpu.bp - 1) : a \in DOMAIN stack /\ a # sp
      BY <3>1, <1>1
    <3> QED BY <3>1, <3>2, <3>3
  <2>3. /\ cpu.ep + 2 \in Int /\ cpu.sp + 1 \in 0..StackSize /\ cpu.bp <= cpu.sp + 1
    BY <1>1, <2>1
  <2>4. /\ cpu'.bp = cpu.bp /\ cpu'.sp \in 0..StackSize /\ cpu.bp <= cpu'.sp /\ cpu'.ep \in Int
        /\ cpu' = [reg |-> cpu'.reg, ep |-> cpu'.ep, bp |-> cpu'.bp, sp |-> cpu'.sp,
                   state |-> cpu'.state]
    BY <2>1, <2>3
  <2> QED BY <1>7, <2>2, <2>4, TopMoves
<1>8. ASSUME NEW r, cpu.sp > cpu.bp, opcode_POP(r), UNCHANGED calls_open PROVE X4Inv'
  <2>1. /\ stack' = stack
        /\ cpu' = [reg |-> [cpu.reg EXCEPT ![r] = stack[cpu.sp - 1]], ep |-> cpu.ep + 2,
                   bp |-> cpu.bp, sp |-> cpu.sp - 1, state |-> cpu.state]
    BY <1>1, <1>8 DEF opcode_POP
  <2>2. /\ cpu.ep + 2 \in Int /\ cpu.sp - 1 \in 0..StackSize /\ cpu.bp <= cpu.sp - 1
    BY <1>1, <1>8
  <2>3. /\ cpu'.bp = cpu.bp /\ cpu'.sp \in 0..StackSize /\ cpu.bp <= cpu'.sp /\ cpu'.ep \in Int
        /\ cpu' = [reg |-> cpu'.reg, ep |-> cpu'.ep, bp |-> cpu'.bp, sp |-> cpu'.sp,
                   state |-> cpu'.state]
    BY <2>1, <2>2
  <2> QED BY <1>1, <1>8, <2>1, <2>3, TopMoves
<1>9. ASSUME NEW n, opcode_INT(n), UNCHANGED <<stack, calls_open>> PROVE X4Inv'
  <2>1. \E r, e, s : /\ e \in Int
                    /\ cpu' = [reg |-> r, ep |-> e, bp |-> cpu.bp, sp |-> cpu.sp, state |-> s]
    <3>1. cpu.ep + 1 \in Int /\ cpu.ep + 2 \in Int /\ Retried(cpu.ep) \in Int
      BY <1>1 DEF Retried
    <3>2. CASE cpu' = [cpu EXCEPT !.ep = @ + 1, !.state = @ \ {"DIRTY"}]
      <4>1. cpu' = [reg |-> cpu.reg, ep |-> cpu.ep + 1, bp |-> cpu.bp, sp |-> cpu.sp,
                    state |-> cpu.state \ {"DIRTY"}]
        BY <3>2, <1>1
      <4> QED BY <3>1, <4>1
    <3>3. CASE cpu' = [cpu EXCEPT !.ep = @ + 2, !.state = @ \cup {"DIRTY"}]
      <4>1. cpu' = [reg |-> cpu.reg, ep |-> cpu.ep + 2, bp |-> cpu.bp, sp |-> cpu.sp,
                    state |-> cpu.state \cup {"DIRTY"}]
        BY <3>3, <1>1
      <4> QED BY <3>1, <4>1
    <3>4. ASSUME NEW k, cpu' = [cpu EXCEPT !.reg["al"] = k.al,
                                    !.ep = IF k.yields THEN Retried(@) ELSE @ + 2,
                                    !.state = IF k.yields THEN @ \ {"DIRTY"} ELSE @]
          PROVE \E r, e, s : /\ e \in Int
                    /\ cpu' = [reg |-> r, ep |-> e, bp |-> cpu.bp, sp |-> cpu.sp, state |-> s]
      <4> DEFINE e == IF k.yields THEN Retried(cpu.ep) ELSE cpu.ep + 2
                 s == IF k.yields THEN cpu.state \ {"DIRTY"} ELSE cpu.state
                 r == [cpu.reg EXCEPT !["al"] = k.al]
      <4>1. cpu' = [reg |-> r, ep |-> e, bp |-> cpu.bp, sp |-> cpu.sp, state |-> s]
        BY <3>4, <1>1
      <4>2. e \in Int
        BY <3>1
      <4> HIDE DEF e, r, s
      <4> QED BY <4>1, <4>2
    <3> QED BY <1>9, <3>2, <3>3, <3>4 DEF opcode_INT
  <2>2. PICK r, e, s : /\ e \in Int
                       /\ cpu' = [reg |-> r, ep |-> e, bp |-> cpu.bp, sp |-> cpu.sp, state |-> s]
    BY <2>1
  <2> QED BY <1>9, <2>2, FramesKept
<1>10. CASE x4_emulate
  <2>1. \A i \in Fetched : i \in Instructions
    BY DEF Fetched, CodeOK
  <2> QED BY <1>10, <2>1, <1>3, <1>4, <1>5, <1>6, <1>7, <1>8, <1>9 DEF x4_emulate
<1> QED BY <1>2, <1>10 DEF X4Next, Resume, Key, x4Vars

(* The frames on the stack are those of the calls that are open.           *)
LEMMA X4InvImplies == X4Inv => CallsNest
<1> SUFFICES ASSUME X4Inv PROVE CallsNest
  OBVIOUS
<1>1. calls_open \in Seq(Frame) /\ cpu.bp <= cpu.sp
      /\ cpu.bp \in Nat /\ cpu.sp \in Nat
  BY DEF X4Inv, X4TypeOK, FramesOK
<1>2. Len(calls_open) = 0 => cpu.bp = 0
  BY <1>1 DEF X4Inv, FramesOK
<1>3. ASSUME NEW k \in 1..Len(calls_open)
      PROVE /\ BaseAt(k) = calls_open[k].sp + 8
            /\ stack_pop_ptr(stack, BaseAt(k)) = calls_open[k].ep
            /\ stack_pop_ptr(stack, BaseAt(k) - 4) = calls_open[k].bp
  <2> DEFINE f == calls_open[k]
  <2>1. BaseAt(k) = f.sp + 8 /\ HasFrame(stack, f) /\ f.sp \in Nat
    <3>1. f \in Frame
      BY <1>1
    <3>2. f.sp \in Nat
      BY <3>1 DEF Frame
    <3> QED BY <3>2 DEF X4Inv, FramesOK
  <2> HIDE DEF f
  <2>2. f.sp + 8 = (f.sp + 4) + 4 /\ (f.sp + 8) - 4 = f.sp + 4 /\ f.sp + 4 \in Nat
    BY <2>1
  <2>3. stack_pop_ptr(stack, (f.sp + 4) + 4) = f.ep
    BY <2>1, <2>2, PtrPopped DEF HasFrame
  <2>4. stack_pop_ptr(stack, f.sp + 4) = f.bp
    BY <2>1, PtrPopped DEF HasFrame
  <2>5. /\ BaseAt(k) = f.sp + 8 /\ stack_pop_ptr(stack, BaseAt(k)) = f.ep
        /\ stack_pop_ptr(stack, BaseAt(k) - 4) = f.bp
    BY <2>1, <2>2, <2>3, <2>4
  <2> QED BY <2>5 DEF f
<1> QED BY <1>1, <1>2, <1>3 DEF CallsNest, BaseAt

(* opcode_CALL and opcode_RET: whatever a routine leaves on the stack, its *)
(* RET goes back behind the CALL with the caller's frame, for any program, *)
(* stack size and depth of calls.                                          *)
THEOREM X4CallsNest == X4Spec => []CallsNest
<1>1. X4Init => CodeOK
  BY DEF X4Init, CodeOK
<1>2. X4Spec => [](X4Inv /\ CodeOK)
  BY <1>1, X4InitInv, X4NextInv, CodeStays, PTL DEF X4Spec
<1> QED BY <1>2, X4InvImplies, PTL


Event == [id : 1..sends, name : EventNames, execute : BOOLEAN, refresh : BOOLEAN,
          dead : BOOLEAN]

Action == [id : 0..sends, name : EventNames \cup {""}, refresh : BOOLEAN]

EventsTypeOK ==
    /\ sends \in Nat
    /\ event_list \in Seq(Event)
    /\ update \in [pc : {"wait", "act", "sweep"}, action : Action]
    /\ acted \in Seq(1..sends)
    /\ tasks \subseteq 1..sends

(* The list is in the order of sending, and only kernel_event_update marks *)
(* an event, which it sweeps before the next scan.                         *)
ListOK ==
    /\ \A i, j \in 1..Len(event_list) : i < j => event_list[i].id < event_list[j].id
    /\ update.pc = "wait" => \A i \in 1..Len(event_list) : ~event_list[i].dead

(* What kernel_event_update knows how to act on.                           *)
Asks(e) == (e.execute /\ e.name \in Programs) \/ (e.refresh /\ ~e.execute)

(* An alive event is still what was sent, and later than what was acted    *)
(* on; the local action is between the two.                                *)
ActionOK ==
    /\ \A i \in 1..Len(event_list) : ~event_list[i].dead =>
          /\ event_list[i].id \in tasks => Asks(event_list[i])
          /\ update.action.id < event_list[i].id
          /\ \A k \in 1..Len(acted) : acted[k] < event_list[i].id
    /\ \A k, l \in 1..Len(acted) : k < l => acted[k] < acted[l]
    /\ update.action.id # 0 => \A k \in 1..Len(acted) : acted[k] < update.action.id
    /\ update.pc # "act" => update.action.id = 0
    /\ update.action.id = 0 => update.action.name \notin Programs /\ ~update.action.refresh
    /\ update.action.id \in tasks => update.action.name \in Programs \/ update.action.refresh

TasksKept == tasks \subseteq Waiting \cup Range(acted) \cup removed \cup {update.action.id}

EventsInv == EventsTypeOK /\ ListOK /\ ActionOK /\ TasksKept

(* The empty list satisfies the invariant.                                 *)
LEMMA EventsInitInv == EventsInit => EventsInv
<1> SUFFICES ASSUME EventsInit PROVE EventsInv
    OBVIOUS
<1>1. /\ event_list = <<>> /\ Len(event_list) = 0 /\ acted = <<>> /\ Len(acted) = 0
      /\ tasks = {} /\ sends = 0
      /\ update = [pc |-> "wait", action |-> NoAction]
    BY DEF EventsInit
<1>2. NoAction \in Action /\ NoAction.id = 0 /\ NoAction.name = "" /\ NoAction.refresh = FALSE
  <2>1. NoAction.id = 0 /\ NoAction.name = "" /\ NoAction.refresh = FALSE
    BY DEF NoAction
  <2>2. 0 \in 0..sends
    BY <1>1
  <2> QED BY <2>1, <2>2 DEF NoAction, Action
<1>3. EventsTypeOK
  <2>1. event_list \in Seq(Event) /\ acted \in Seq(1..sends)
    BY <1>1
  <2>2. update \in [pc : {"wait", "act", "sweep"}, action : Action]
    BY <1>1, <1>2
  <2> QED BY <1>1, <2>1, <2>2 DEF EventsTypeOK
<1>4. ListOK /\ TasksKept
    BY <1>1 DEF ListOK, TasksKept
<1>5. update.pc = "wait" /\ update.action = NoAction
    BY <1>1
<1>6. ActionOK
  <2>1. 0 \notin tasks /\ "" \notin Programs
    BY <1>1, KernelEventsAssumption
  <2>2. /\ update.action.id = 0 /\ update.action.name = "" /\ update.action.refresh = FALSE
        /\ update.pc = "wait"
    BY <1>2, <1>5
  <2>3. 1..Len(event_list) = {} /\ 1..Len(acted) = {}
    BY <1>1
  <2>4. /\ update.action.id = 0 => update.action.name \notin Programs /\ ~update.action.refresh
        /\ update.action.id \in tasks => update.action.name \in Programs \/ update.action.refresh
    BY <2>1, <2>2
  <2> HIDE <1>1, <1>2, <1>5
  <2> QED BY <2>2, <2>3, <2>4 DEF ActionOK
<1> QED BY <1>3, <1>4, <1>6 DEF EventsInv

(* kernel_event_send appends an event younger than all others.             *)
LEMMA SendStep ==
    ASSUME EventsInv, NEW name \in EventNames, NEW execute \in BOOLEAN, NEW refresh \in BOOLEAN,
           kernel_event_send(name, execute, refresh)
    PROVE  EventsInv'
<1> DEFINE e == [id |-> sends + 1, name |-> name, execute |-> execute, refresh |-> refresh,
                 dead |-> FALSE]
<1>1. /\ sends' = sends + 1 /\ event_list' = Append(event_list, e)
      /\ tasks' = IF (execute /\ name \in Programs) \/ (refresh /\ ~execute)
                  THEN tasks \cup {sends + 1} ELSE tasks
      /\ UNCHANGED <<update, acted, removed>>
      /\ EventsTypeOK
    BY DEF kernel_event_send, EventsInv
<1>2. /\ sends \in Nat /\ sends + 1 \in 1..sends' /\ 1..sends \subseteq 1..sends'
      /\ 0..sends \subseteq 0..sends'
    BY <1>1 DEF EventsTypeOK
<1>3. e \in Event' /\ Event \subseteq Event' /\ Action \subseteq Action'
    BY <1>2 DEF Event, Action
<1>4. e.id = sends + 1 /\ e.execute = execute /\ e.refresh = refresh /\ e.name = name /\ ~e.dead
    OBVIOUS
<1> HIDE DEF e
<1>5. /\ Len(event_list') = Len(event_list) + 1 /\ Len(event_list) \in Nat
      /\ event_list'[Len(event_list) + 1] = e
      /\ \A i \in 1..Len(event_list) : event_list'[i] = event_list[i]
    BY <1>1 DEF EventsTypeOK
<1>6. \A i \in 1..Len(event_list') : i \in 1..Len(event_list) \/ event_list'[i] = e
    BY <1>5
<1>7. \A i \in 1..Len(event_list) : event_list[i] \in Event /\ event_list[i].id \in 1..sends
  <2>1. \A i \in 1..Len(event_list) : event_list[i] \in Event
    BY <1>1 DEF EventsTypeOK
  <2> QED BY <2>1 DEF Event
<1>8. \A k \in 1..Len(acted) : acted[k] \in 1..sends
    BY <1>1 DEF EventsTypeOK
<1>9. EventsTypeOK'
  <2>1. event_list \in Seq(Event')
    BY <1>1, <1>3 DEF EventsTypeOK
  <2>2. event_list' \in Seq(Event')
    BY <1>1, <1>3, <2>1
  <2>3. acted' \in Seq(1..sends')
    BY <1>1, <1>2 DEF EventsTypeOK
  <2>4. update' \in [pc : {"wait", "act", "sweep"}, action : Action']
    BY <1>1, <1>3 DEF EventsTypeOK
  <2>5. sends' \in Nat
    BY <1>1, <1>2
  <2>6. tasks' \subseteq 1..sends'
    <3>1. tasks \subseteq 1..sends
      BY <1>1 DEF EventsTypeOK
    <3>2. tasks \subseteq 1..sends' /\ tasks \cup {sends + 1} \subseteq 1..sends'
      BY <1>1, <1>2, <3>1
    <3> QED BY <1>1, <3>2
  <2> QED BY <2>2, <2>3, <2>4, <2>5, <2>6 DEF EventsTypeOK
<1>10. ListOK'
  <2>1. \A i, j \in 1..Len(event_list') : i < j => event_list'[i].id < event_list'[j].id
    <3>1. SUFFICES ASSUME NEW i \in 1..Len(event_list'), NEW j \in 1..Len(event_list'), i < j
                   PROVE  event_list'[i].id < event_list'[j].id
      OBVIOUS
    <3>2. i \in 1..Len(event_list)
      BY <1>5, <3>1
    <3>3. CASE j \in 1..Len(event_list)
      BY <1>5, <3>1, <3>2, <3>3 DEF EventsInv, ListOK
    <3>4. CASE event_list'[j] = e
      BY <1>2, <1>4, <1>5, <1>7, <3>2, <3>4
    <3> QED BY <1>6, <3>3, <3>4
  <2>2. update.pc = "wait" => \A i \in 1..Len(event_list') : ~event_list'[i].dead
    BY <1>4, <1>5, <1>6 DEF EventsInv, ListOK
  <2> QED BY <1>1, <2>1, <2>2 DEF ListOK
<1>11. update.action.id \in 0..sends
    BY <1>1 DEF EventsTypeOK, Action
<1>12. ActionOK'
  <2>1. ASSUME NEW i \in 1..Len(event_list'), ~event_list'[i].dead
        PROVE  /\ event_list'[i].id \in tasks' => Asks(event_list'[i])
               /\ update.action.id < event_list'[i].id
               /\ \A k \in 1..Len(acted) : acted[k] < event_list'[i].id
    <3>1. CASE i \in 1..Len(event_list)
      <4>1. event_list[i].id \in tasks' => event_list[i].id \in tasks
        BY <1>1, <1>2, <1>7, <3>1
      <4> QED BY <1>5, <2>1, <3>1, <4>1 DEF EventsInv, ActionOK
    <3>2. CASE event_list'[i] = e
      <4>1. sends + 1 \notin tasks
        BY <1>1, <1>2 DEF EventsTypeOK
      <4>2. e.id \in tasks' => Asks(e)
        BY <1>1, <1>4, <4>1 DEF Asks
      <4> QED BY <1>2, <1>4, <1>8, <1>11, <3>2, <4>2
    <3> QED BY <1>6, <3>1, <3>2
  <2>2. update.action.id \in tasks' => update.action.id \in tasks
    BY <1>1, <1>2, <1>11
  <2> QED BY <1>1, <2>1, <2>2 DEF EventsInv, ActionOK, Asks
<1>13. TasksKept'
  <2>1. Waiting \cup {sends + 1} \subseteq Waiting'
    <3>1. Len(event_list) + 1 \in 1..Len(event_list')
      BY <1>5
    <3>2. sends + 1 \in Waiting'
      BY <1>4, <1>5, <3>1 DEF Waiting
    <3>3. 1..Len(event_list) \subseteq 1..Len(event_list')
      BY <1>5
    <3>4. Waiting \subseteq Waiting'
      BY <1>5, <3>3 DEF Waiting
    <3> QED BY <3>2, <3>4
  <2> QED BY <1>1, <2>1 DEF EventsInv, TasksKept
<1> QED BY <1>9, <1>10, <1>12, <1>13 DEF EventsInv

-----------------------------------------------------------------------------
(* What is left of a list when its member n is taken out.                  *)
LEMMA RemoveAtOK ==
    ASSUME NEW S, NEW s \in Seq(S), NEW n \in 1..Len(s)
    PROVE  /\ RemoveAt(s, n) \in Seq(S)
           /\ Len(s) \in Nat /\ Len(RemoveAt(s, n)) = Len(s) - 1
           /\ \A i \in 1..(Len(s) - 1) : RemoveAt(s, n)[i] = IF i < n THEN s[i] ELSE s[i + 1]
<1> DEFINE front == SubSeq(s, 1, n - 1)
           back == SubSeq(s, n + 1, Len(s))
<1>1. Len(s) \in Nat /\ n \in Nat /\ n >= 1 /\ n <= Len(s)
    OBVIOUS
<1>2. \A i \in 1..Len(s) : s[i] \in S
    OBVIOUS
<1>3. /\ front \in Seq(S) /\ Len(front) = n - 1
      /\ \A i \in 1..(n - 1) : front[i] = s[i]
    BY <1>1, <1>2
<1>4. /\ back \in Seq(S) /\ Len(back) = Len(s) - n
      /\ \A i \in 1..(Len(s) - n) : back[i] = s[n + i]
    BY <1>1, <1>2
<1>5. RemoveAt(s, n) = front \o back
    BY DEF RemoveAt
<1> HIDE DEF front, back
<1>6. /\ front \o back \in Seq(S)
      /\ Len(front \o back) = Len(front) + Len(back)
      /\ \A i \in 1..(Len(front) + Len(back)) :
            (front \o back)[i] = IF i <= Len(front) THEN front[i] ELSE back[i - Len(front)]
    BY <1>3, <1>4, ConcatProperties
<1>7. Len(front \o back) = Len(s) - 1
    BY <1>1, <1>3, <1>4, <1>6
<1>8. ASSUME NEW i \in 1..(Len(s) - 1)
      PROVE  (front \o back)[i] = IF i < n THEN s[i] ELSE s[i + 1]
  <2>1. i \in 1..(Len(front) + Len(back)) /\ i \in Int
    BY <1>1, <1>3, <1>4
  <2>2. CASE i <= n - 1
    BY <1>1, <1>3, <1>6, <2>1, <2>2
  <2>3. CASE ~(i <= n - 1)
    <3>1. (front \o back)[i] = back[i - (n - 1)]
      BY <1>3, <1>6, <2>1, <2>3
    <3>2. i - (n - 1) \in 1..(Len(s) - n) /\ n + (i - (n - 1)) = i + 1
      BY <1>1, <2>3
    <3>3. back[i - (n - 1)] = s[i + 1]
      BY <1>4, <3>2
    <3> QED BY <1>1, <2>1, <2>3, <3>1, <3>3
  <2> QED BY <2>2, <2>3
<1> QED BY <1>1, <1>5, <1>6, <1>7, <1>8

(* kernel_event_remove marks events dead, which asks nothing of the list.  *)
LEMMA RemoveStep ==
    ASSUME EventsInv, NEW name \in EventNames, kernel_event_remove(name)
    PROVE  EventsInv'
<1>1. PICK n \in 1..Len(event_list) :
          /\ event_list' = RemoveAt(event_list, n)
          /\ removed' = removed \cup {event_list[n].id}
    BY DEF kernel_event_remove
<1>2. /\ UNCHANGED <<update, sends, acted, tasks>> /\ EventsTypeOK
    BY DEF kernel_event_remove, EventsInv
<1>3. event_list \in Seq(Event)
    BY <1>2 DEF EventsTypeOK
<1> DEFINE was(i) == IF i < n THEN i ELSE i + 1
<1>4. /\ event_list' \in Seq(Event) /\ Len(event_list) \in Nat
      /\ Len(event_list') = Len(event_list) - 1
      /\ \A i \in 1..(Len(event_list) - 1) :
            event_list'[i] = IF i < n THEN event_list[i] ELSE event_list[i + 1]
    BY <1>1, <1>3, RemoveAtOK
<1>5. \A i \in 1..Len(event_list') : was(i) \in 1..Len(event_list)
                                   /\ event_list'[i] = event_list[was(i)]
    BY <1>4
<1>6. \A i, j \in 1..Len(event_list') : i < j => was(i) < was(j)
    BY <1>4
<1>7. \A i \in 1..Len(event_list) : i # n => \E j \in 1..Len(event_list') : was(j) = i
  <2>1. SUFFICES ASSUME NEW i \in 1..Len(event_list), i # n
                 PROVE  \E j \in 1..Len(event_list') : was(j) = i
    OBVIOUS
  <2>2. CASE i < n
    <3>1. i \in 1..Len(event_list') /\ was(i) = i
      BY <1>4, <2>2
    <3> QED BY <3>1
  <2>3. CASE i > n
    <3>1. i - 1 \in 1..Len(event_list') /\ was(i - 1) = i
      BY <1>4, <2>3
    <3> QED BY <3>1
  <2> QED BY <1>4, <2>1, <2>2, <2>3
<1> HIDE DEF was
<1>8. EventsTypeOK'
    BY <1>2, <1>4 DEF EventsTypeOK, Event, Action
<1>9. ListOK'
    BY <1>2, <1>5, <1>6 DEF EventsInv, ListOK
<1>10. ActionOK'
  <2>1. ASSUME NEW i \in 1..Len(event_list'), ~event_list'[i].dead
        PROVE  /\ event_list'[i].id \in tasks => Asks(event_list'[i])
               /\ update.action.id < event_list'[i].id
               /\ \A k \in 1..Len(acted) : acted[k] < event_list'[i].id
    BY <1>5, <2>1 DEF EventsInv, ActionOK
  <2> QED BY <1>2, <2>1 DEF EventsInv, ActionOK, Asks
<1>11. TasksKept'
  <2>1. Waiting \subseteq Waiting' \cup {event_list[n].id}
    <3>1. SUFFICES ASSUME NEW i \in 1..Len(event_list), ~event_list[i].dead, i # n
                   PROVE  event_list[i].id \in Waiting'
      BY DEF Waiting
    <3>2. PICK j \in 1..Len(event_list') : was(j) = i
      BY <1>7, <3>1
    <3> QED BY <1>5, <3>1, <3>2 DEF Waiting
  <2> QED BY <1>1, <1>2, <2>1 DEF EventsInv, TasksKept
<1> QED BY <1>8, <1>9, <1>10, <1>11 DEF EventsInv

(* The action runs with the mutex released, and is not run again.          *)
LEMMA ActStep ==
    ASSUME EventsInv, Act
    PROVE  EventsInv'
<1>1. /\ update.pc = "act" /\ update' = [pc |-> "sweep", action |-> NoAction]
      /\ acted' = IF update.action.name \in Programs \/ update.action.refresh
                  THEN Append(acted, update.action.id) ELSE acted
      /\ UNCHANGED <<event_list, sends, removed, tasks>>
      /\ EventsTypeOK /\ ActionOK
    BY DEF Act, EventsInv
<1>2. NoAction.id = 0 /\ NoAction.name = "" /\ NoAction.refresh = FALSE
    BY DEF NoAction
<1>3. sends \in Nat /\ acted \in Seq(1..sends) /\ Len(acted) \in Nat
    BY <1>1 DEF EventsTypeOK
<1>4. update.action.id \in 0..sends
    BY <1>1 DEF EventsTypeOK, Action
<1>5. NoAction \in Action
  <2>1. 0 \in 0..sends
    BY <1>3
  <2> QED BY <2>1 DEF NoAction, Action
<1>6. ASSUME update.action.name \in Programs \/ update.action.refresh
      PROVE  /\ acted' \in Seq(1..sends)
             /\ \A k, l \in 1..Len(acted') : k < l => acted'[k] < acted'[l]
             /\ \A i \in 1..Len(event_list) : ~event_list[i].dead =>
                   \A k \in 1..Len(acted') : acted'[k] < event_list[i].id
             /\ Range(acted') = Range(acted) \cup {update.action.id}
  <2>1. update.action.id \in 1..sends
    BY <1>1, <1>3, <1>4, <1>6 DEF ActionOK
  <2>2. acted' = Append(acted, update.action.id)
    BY <1>1, <1>6
  <2>3. acted' \in Seq(1..sends)
    BY <1>3, <2>1, <2>2
  <2>4. /\ Len(acted') = Len(acted) + 1
        /\ acted'[Len(acted) + 1] = update.action.id
        /\ \A k \in 1..Len(acted) : acted'[k] = acted[k]
    BY <1>3, <2>2
  <2>5. \A k \in 1..Len(acted') : k \in 1..Len(acted) \/ k = Len(acted) + 1
    BY <1>3, <2>4
  <2>6. \A k \in 1..Len(acted) : acted[k] < update.action.id
    BY <1>1, <2>1 DEF ActionOK
  <2>7. \A k \in 1..Len(acted) : acted[k] \in 1..sends
    BY <1>3
  <2>8. \A k, l \in 1..Len(acted') : k < l => acted'[k] < acted'[l]
    <3>1. SUFFICES ASSUME NEW k \in 1..Len(acted'), NEW l \in 1..Len(acted'), k < l
                   PROVE  acted'[k] < acted'[l]
      OBVIOUS
    <3>2. k \in 1..Len(acted)
      BY <1>3, <2>4, <3>1
    <3>3. CASE l \in 1..Len(acted)
      BY <1>1, <2>4, <3>1, <3>2, <3>3 DEF ActionOK
    <3>4. CASE l = Len(acted) + 1
      BY <2>4, <2>6, <3>2, <3>4
    <3> QED BY <2>5, <3>3, <3>4
  <2>9. \A i \in 1..Len(event_list) : ~event_list[i].dead =>
            \A k \in 1..Len(acted') : acted'[k] < event_list[i].id
    BY <1>1, <2>4, <2>5 DEF ActionOK
  <2>10. Range(acted') = Range(acted) \cup {update.action.id}
    BY SMTT(30), <1>3, <2>4, <2>5 DEF Range
  <2> QED BY <2>3, <2>8, <2>9, <2>10
<1>7. /\ acted' \in Seq(1..sends)
      /\ \A k, l \in 1..Len(acted') : k < l => acted'[k] < acted'[l]
      /\ \A i \in 1..Len(event_list) : ~event_list[i].dead =>
            \A k \in 1..Len(acted') : acted'[k] < event_list[i].id
      /\ Range(acted) \subseteq Range(acted')
      /\ update.action.id \in tasks => update.action.id \in Range(acted')
  <2>1. CASE ~(update.action.name \in Programs \/ update.action.refresh)
    <3>1. acted' = acted /\ update.action.id \notin tasks
      BY <1>1, <2>1 DEF ActionOK
    <3> QED BY <1>1, <1>3, <3>1 DEF ActionOK
  <2> QED BY <1>6, <2>1
<1>8. /\ update'.pc = "sweep" /\ update'.action = NoAction
      /\ update' \in [pc : {"wait", "act", "sweep"}, action : Action]
    BY <1>1, <1>5
<1>9. EventsTypeOK'
    BY <1>1, <1>7, <1>8 DEF EventsTypeOK, Event, Action
<1>10. ListOK'
    BY <1>1, <1>8 DEF EventsInv, ListOK
<1>11. /\ \A id \in 1..sends : 0 < id
       /\ 0 \notin tasks /\ "" \notin Programs
  <2>1. \A id \in 1..sends : 0 < id
    OBVIOUS
  <2>2. tasks \subseteq 1..sends
    BY <1>1 DEF EventsTypeOK
  <2>3. 0 \notin tasks
    BY <2>1, <2>2
  <2> QED BY <2>1, <2>3, KernelEventsAssumption
<1>12. ActionOK'
  <2>1. ASSUME NEW i \in 1..Len(event_list), ~event_list[i].dead
        PROVE  /\ event_list[i].id \in tasks => Asks(event_list[i])
               /\ NoAction.id < event_list[i].id
    <3>1. event_list[i] \in Event
      BY <1>1 DEF EventsTypeOK
    <3>2. event_list[i].id \in 1..sends
      BY <3>1 DEF Event
    <3>3. NoAction.id < event_list[i].id
      BY <1>2, <1>11, <3>2
    <3>4. event_list[i].id \in tasks => Asks(event_list[i])
      BY <1>1, <2>1 DEF ActionOK
    <3> QED BY <3>3, <3>4
  <2> QED BY <1>1, <1>2, <1>7, <1>8, <1>11, <2>1 DEF ActionOK, Asks
<1>13. TasksKept'
  <2>1. Waiting' = Waiting
    BY <1>1 DEF Waiting
  <2> QED BY <1>1, <1>7, <2>1 DEF EventsInv, TasksKept
<1> QED BY <1>9, <1>10, <1>12, <1>13 DEF EventsInv

(* The scan stops inside the list, at the first task if there is one.      *)
LEMMA StopOK ==
    ASSUME EventsTypeOK
    PROVE  /\ Len(event_list) \in Nat
           /\ event_list # <<>> => Stop \in 1..Len(event_list)
           /\ \A j \in 1..(Stop - 1) : ~IsTask(event_list[j])
<1>1. event_list \in Seq(Event) /\ Len(event_list) \in Nat
    BY DEF EventsTypeOK
<1>2. event_list # <<>> => Len(event_list) \in 1..Len(event_list)
    BY <1>1
<1>3. CASE \E i \in 1..Len(event_list) : IsTask(event_list[i])
  <2> DEFINE T == {i \in 1..Len(event_list) : IsTask(event_list[i])}
  <2>1. T \subseteq Nat /\ T # {}
    BY <1>1, <1>3
  <2>2. PICK i \in T : \A j \in T : i <= j
    BY <2>1, NatMin
  <2>3. \A j \in 1..(i - 1) : j \notin T /\ j \in 1..Len(event_list)
    BY <1>1, <2>2
  <2>4. \E k \in 1..Len(event_list) :
            IsTask(event_list[k]) /\ \A j \in 1..(k - 1) : ~IsTask(event_list[j])
    BY <2>2, <2>3
  <2>5. /\ Stop \in 1..Len(event_list)
        /\ \A j \in 1..(Stop - 1) : ~IsTask(event_list[j])
    BY <1>3, <2>4 DEF Stop
  <2> QED BY <1>1, <2>5
<1>4. CASE ~\E i \in 1..Len(event_list) : IsTask(event_list[i])
  <2>1. Stop = Len(event_list)
    BY <1>4 DEF Stop
  <2>2. \A j \in 1..(Stop - 1) : j \in 1..Len(event_list)
    BY <1>1, <2>1
  <2> QED BY <1>1, <1>2, <1>4, <2>1, <2>2
<1> QED BY <1>3, <1>4

(* A marked event is the same event, dead.                                 *)
LEMMA MarkedOK ==
    ASSUME NEW e \in Event
    PROVE  /\ Marked(e) \in Event /\ Marked(e).id = e.id
           /\ Marked(e).dead = TRUE
<1>1. e.id \in 1..sends /\ e.name \in EventNames /\ e.refresh \in BOOLEAN
    BY DEF Event
<1> DEFINE r == IF e.execute THEN e.refresh ELSE FALSE
<1>2. r \in BOOLEAN
    BY <1>1
<1>3. Marked(e) = [e EXCEPT !.dead = TRUE, !.execute = FALSE, !.refresh = r]
    BY DEF Marked
<1> HIDE DEF r
<1>4. Marked(e) \in Event
    BY <1>2, <1>3 DEF Event
<1>5. Marked(e).id = e.id /\ Marked(e).dead = TRUE
    BY <1>3 DEF Event
<1> QED BY <1>4, <1>5

(* The first pass takes the action of the oldest live event.               *)
LEMMA EventScanStep ==
    ASSUME EventsInv, Scan
    PROVE  EventsInv'
<1> DEFINE n == Len(event_list)
<1>1. /\ update.pc = "wait" /\ update'.pc = "act"
      /\ event_list' = [i \in 1..n |->
                          IF i <= Stop THEN Marked(event_list[i]) ELSE event_list[i]]
      /\ update' = [pc |-> "act", action |-> update'.action]
      /\ update'.action =
            IF event_list = <<>> \/ ~IsTask(event_list[Stop]) THEN NoAction
            ELSE LET e == event_list[Stop]
                 IN  [id |-> e.id, name |-> IF e.execute THEN e.name ELSE "",
                      refresh |-> ~e.execute]
      /\ UNCHANGED <<sends, acted, removed, tasks>>
    BY DEF Scan
<1>2. EventsTypeOK /\ ListOK /\ ActionOK /\ TasksKept
    BY DEF EventsInv
<1>3. event_list \in Seq(Event) /\ n \in Nat /\ sends \in Nat
    BY <1>2 DEF EventsTypeOK
<1>4. \A i \in 1..n : event_list[i] \in Event
    BY <1>3
<1>5. /\ event_list # <<>> => Stop \in 1..n
      /\ \A j \in 1..(Stop - 1) : ~IsTask(event_list[j])
    BY <1>2, StopOK
<1>6. /\ \A id \in 1..sends : 0 < id /\ id # 0
      /\ 0 \notin tasks /\ "" \notin Programs
  <2>1. \A id \in 1..sends : 0 < id /\ id # 0
    OBVIOUS
  <2>2. tasks \subseteq 1..sends
    BY <1>2 DEF EventsTypeOK
  <2>3. 0 \notin tasks
    BY <2>1, <2>2
  <2> QED BY <2>1, <2>3, KernelEventsAssumption
<1>7. \A i \in 1..n : /\ event_list'[i] \in Event /\ event_list'[i].id = event_list[i].id
                      /\ i <= Stop => event_list'[i].dead = TRUE
                      /\ ~(i <= Stop) => event_list'[i] = event_list[i]
    BY <1>1, <1>4, MarkedOK
<1>8. event_list' \in Seq(Event) /\ Len(event_list') = n
  <2>1. event_list' \in [1..n -> Event]
    BY <1>1, <1>7
  <2> QED BY <1>3, <2>1
<1>9. /\ update.action.id = 0
      /\ NoAction.id = 0 /\ NoAction.name = "" /\ NoAction.refresh = FALSE
    BY <1>1, <1>2 DEF ActionOK, NoAction
(* What is picked is the event at Stop, which nobody had marked.           *)
<1>10. \/ update'.action = NoAction /\ (event_list = <<>> \/ ~IsTask(event_list[Stop]))
       \/ /\ Stop \in 1..n /\ IsTask(event_list[Stop]) /\ ~event_list[Stop].dead
          /\ update'.action.id = event_list[Stop].id
          /\ update'.action.name = IF event_list[Stop].execute THEN event_list[Stop].name ELSE ""
          /\ update'.action.refresh = (~event_list[Stop].execute)
          /\ update'.action = [id |-> event_list[Stop].id,
                               name |-> IF event_list[Stop].execute
                                        THEN event_list[Stop].name ELSE "",
                               refresh |-> ~event_list[Stop].execute]
  <2>1. CASE event_list = <<>> \/ ~IsTask(event_list[Stop])
    BY <1>1, <2>1
  <2>2. CASE ~(event_list = <<>> \/ ~IsTask(event_list[Stop]))
    <3>1. Stop \in 1..n /\ ~event_list[Stop].dead
      BY <1>1, <1>2, <1>5, <2>2 DEF ListOK
    <3>2. update'.action = [id |-> event_list[Stop].id,
                            name |-> IF event_list[Stop].execute
                                     THEN event_list[Stop].name ELSE "",
                            refresh |-> ~event_list[Stop].execute]
      BY <1>1, <2>2
    <3>3. PICK a : a = update'.action
      OBVIOUS
    <3>4. /\ a.id = event_list[Stop].id
          /\ a.name = IF event_list[Stop].execute THEN event_list[Stop].name ELSE ""
          /\ a.refresh = (~event_list[Stop].execute)
      <4>1. a = [id |-> event_list[Stop].id,
                 name |-> IF event_list[Stop].execute THEN event_list[Stop].name ELSE "",
                 refresh |-> ~event_list[Stop].execute]
        BY <3>2, <3>3
      <4> QED BY ONLY <4>1
    <3>5. /\ update'.action.id = event_list[Stop].id
          /\ update'.action.name = IF event_list[Stop].execute
                                   THEN event_list[Stop].name ELSE ""
          /\ update'.action.refresh = (~event_list[Stop].execute)
      BY <3>3, <3>4, Zenon
    <3>6. IsTask(event_list[Stop])
      BY <2>2
    <3> QED BY <3>1, <3>2, <3>5, <3>6
  <2> QED BY <2>1, <2>2
<1>11. update'.action \in Action
  <2>1. NoAction \in Action
    <3>1. 0 \in 0..sends
      BY <1>3
    <3> QED BY <3>1 DEF NoAction, Action
  <2>2. ASSUME Stop \in 1..n
        PROVE  /\ event_list[Stop].id \in 0..sends /\ (~event_list[Stop].execute) \in BOOLEAN
               /\ event_list[Stop].name \in EventNames
    <3>1. event_list[Stop].id \in 1..sends /\ event_list[Stop].name \in EventNames
      BY <1>4, <2>2 DEF Event
    <3>2. 1..sends \subseteq 0..sends
      BY <1>3
    <3>3. (~event_list[Stop].execute) \in BOOLEAN
      OBVIOUS
    <3> QED BY <3>1, <3>2, <3>3
  <2> QED BY <1>10, <2>1, <2>2 DEF Action
<1> HIDE DEF n
<1>12. EventsTypeOK'
  <2>1. update' \in [pc : {"wait", "act", "sweep"}, action : Action]
    BY <1>1, <1>11
  <2> QED BY <1>1, <1>2, <1>8, <2>1 DEF EventsTypeOK, Event, Action
<1>13. ListOK'
    BY <1>1, <1>2, <1>7, <1>8 DEF ListOK, n
<1>14. \A i \in 1..n : ~event_list'[i].dead =>
            /\ ~(i <= Stop) /\ event_list'[i] = event_list[i] /\ ~event_list[i].dead
    BY <1>7
<1>15. ActionOK'
  <2>1. ASSUME NEW i \in 1..n, ~event_list'[i].dead
        PROVE  /\ event_list'[i].id \in tasks => Asks(event_list'[i])
               /\ update'.action.id < event_list'[i].id
               /\ \A k \in 1..Len(acted) : acted[k] < event_list'[i].id
    <3>1. /\ ~(i <= Stop) /\ event_list'[i] = event_list[i] /\ ~event_list[i].dead
          /\ event_list[i].id \in 1..sends
      BY <1>4, <1>14, <2>1 DEF Event
    <3>2. Stop \in 1..n => event_list[Stop].id < event_list[i].id
      <4>1. Stop \in 1..n => Stop < i
        BY <1>3, <3>1
      <4> QED BY <1>2, <4>1 DEF ListOK, n
    <3>3. update'.action.id < event_list[i].id
      BY <1>6, <1>9, <1>10, <3>1, <3>2
    <3> QED BY <1>2, <3>1, <3>3 DEF ActionOK, n
  <2>2. update'.action.id # 0 => \A k \in 1..Len(acted) : acted[k] < update'.action.id
    BY <1>2, <1>9, <1>10 DEF ActionOK, n
  <2>3. update'.action.id = 0 => update'.action.name \notin Programs /\ ~update'.action.refresh
    <3>1. Stop \in 1..n => event_list[Stop].id # 0
      <4>1. Stop \in 1..n => event_list[Stop].id \in 1..sends
        BY <1>4 DEF Event
      <4> QED BY <1>6, <4>1
    <3> QED BY <1>6, <1>9, <1>10, <3>1
  <2>4. update'.action.id \in tasks =>
            update'.action.name \in Programs \/ update'.action.refresh
    BY <1>2, <1>6, <1>9, <1>10 DEF ActionOK, Asks, n
  <2>5. /\ update'.pc # "act" => update'.action.id = 0
        /\ \A k, l \in 1..Len(acted) : k < l => acted[k] < acted[l]
    BY <1>1, <1>2 DEF ActionOK
  <2> QED BY <1>1, <1>8, <2>1, <2>2, <2>3, <2>4, <2>5 DEF ActionOK, Asks
<1>16. TasksKept'
  <2>1. ASSUME NEW i \in 1..n, ~event_list[i].dead, event_list[i].id \in tasks
        PROVE  event_list[i].id \in Waiting' \cup {update'.action.id}
    <3>1. Asks(event_list[i]) /\ IsTask(event_list[i])
      BY <1>2, <2>1 DEF ActionOK, Asks, IsTask, n
    <3>2. event_list # <<>> /\ Stop \in 1..n
      BY <1>3, <1>5 DEF n
    <3>3. CASE ~(i <= Stop)
      BY <1>7, <1>8, <2>1, <3>3 DEF Waiting
    <3>4. CASE i = Stop
      BY <1>10, <3>1, <3>2, <3>4
    <3>5. CASE i <= Stop /\ i # Stop
      <4>1. i \in 1..(Stop - 1)
        BY <1>3, <3>2, <3>5
      <4> QED BY <1>5, <3>1, <4>1
    <3> QED BY <3>3, <3>4, <3>5
  <2>2. tasks \cap Waiting \subseteq Waiting' \cup {update'.action.id}
    BY <2>1 DEF Waiting, n
  <2> QED BY <1>1, <1>2, <1>6, <1>9, <2>2 DEF TasksKept
<1> QED BY <1>12, <1>13, <1>15, <1>16 DEF EventsInv

-----------------------------------------------------------------------------
(* The sweep unlinks dead events only.                                     *)
LEMMA SweepStep ==
    ASSUME EventsInv, Sweep
    PROVE  EventsInv'
<1> DEFINE gone == {e \in Range(event_list) : e.dead}
<1>1. /\ update.pc = "sweep" /\ event_list' = WithoutAll(event_list, gone)
      /\ update' = [update EXCEPT !.pc = "wait"]
      /\ UNCHANGED <<sends, acted, removed, tasks>>
      /\ EventsTypeOK /\ ListOK /\ ActionOK /\ TasksKept
    BY DEF Sweep, Swept, EventsInv
<1>2. /\ update'.pc = "wait" /\ update'.action = update.action /\ update.action.id = 0
      /\ update' \in [pc : {"wait", "act", "sweep"}, action : Action]
    BY <1>1 DEF EventsTypeOK, ActionOK
<1>3. event_list \in Seq(Event)
    BY <1>1 DEF EventsTypeOK
<1>4. \A i \in 1..Len(event_list) : event_list[i] \in gone <=> event_list[i].dead
    BY <1>3 DEF Range
<1>5. IsWithout(Event, event_list, gone, Len(event_list), event_list')
    BY <1>1, <1>3, WithoutAllOK
<1> HIDE DEF gone
<1>6. event_list' \in Seq(Event)
    BY <1>5 DEF IsWithout
<1>7. PICK pos \in [1..Len(event_list') -> 1..Len(event_list)] :
          /\ \A k \in 1..Len(event_list') :
                event_list'[k] = event_list[pos[k]] /\ event_list'[k] \notin gone
          /\ \A k, l \in 1..Len(event_list') : k < l => pos[k] < pos[l]
          /\ \A i \in 1..Len(event_list) :
                event_list[i] \notin gone => \E k \in 1..Len(event_list') : pos[k] = i
    BY <1>5 DEF IsWithout
<1>8. \A k \in 1..Len(event_list') : /\ pos[k] \in 1..Len(event_list)
                                     /\ event_list'[k] = event_list[pos[k]]
                                     /\ ~event_list'[k].dead
    BY <1>4, <1>7
<1>9. EventsTypeOK'
    BY <1>1, <1>2, <1>6 DEF EventsTypeOK, Event, Action
<1>10. ListOK'
    BY <1>1, <1>7, <1>8 DEF ListOK
<1>11. ActionOK'
  <2>1. ASSUME NEW i \in 1..Len(event_list')
        PROVE  /\ event_list'[i].id \in tasks => Asks(event_list'[i])
               /\ update.action.id < event_list'[i].id
               /\ \A k \in 1..Len(acted) : acted[k] < event_list'[i].id
    BY <1>1, <1>8 DEF ActionOK
  <2> QED BY <1>1, <1>2, <2>1 DEF ActionOK, Asks
<1>12. TasksKept'
  <2>1. Waiting \subseteq Waiting'
    <3>1. SUFFICES ASSUME NEW i \in 1..Len(event_list), ~event_list[i].dead
                   PROVE  event_list[i].id \in Waiting'
      BY DEF Waiting
    <3>2. PICK k \in 1..Len(event_list') : pos[k] = i
      BY <1>4, <1>7, <3>1
    <3> QED BY <1>8, <3>2 DEF Waiting
  <2> QED BY <1>1, <1>2, <2>1 DEF TasksKept
<1> QED BY <1>9, <1>10, <1>11, <1>12 DEF EventsInv

-----------------------------------------------------------------------------
(* Every step of the event queue preserves the invariant.                  *)
LEMMA EventsNextInv == EventsInv /\ [EventsNext]_eventVars => EventsInv'
<1> SUFFICES ASSUME EventsInv, [EventsNext]_eventVars PROVE EventsInv'
    OBVIOUS
<1>1. CASE \E name \in EventNames, execute, refresh \in BOOLEAN :
              kernel_event_send(name, execute, refresh)
    BY <1>1, SendStep
<1>2. CASE \E name \in EventNames : kernel_event_remove(name)
    BY <1>2, RemoveStep
<1>3. CASE Scan
    BY <1>3, EventScanStep
<1>4. CASE Act
    BY <1>4, ActStep
<1>5. CASE Sweep
    BY <1>5, SweepStep
<1>6. CASE UNCHANGED eventVars
    BY <1>6 DEF eventVars, EventsInv, EventsTypeOK, ListOK, ActionOK, TasksKept, Waiting,
                Event, Action, Asks
<1> QED BY <1>1, <1>2, <1>3, <1>4, <1>5, <1>6 DEF EventsNext

(* The invariant of the event queue holds throughout: kernel_event_send,   *)
(* kernel_event_remove and the three parts of kernel_event_update keep it. *)
THEOREM EventsInvariant == EventsSpec => []EventsInv
<1>1. EventsInit => EventsInv
    BY EventsInitInv
<1>2. EventsInv /\ [EventsNext]_eventVars => EventsInv'
    BY EventsNextInv
<1> QED BY <1>1, <1>2, PTL DEF EventsSpec

(* The invariant says it of every event in the list and of the action.     *)
LEMMA EventsInvRunOnce == EventsInv => TasksRunOnce
<1> SUFFICES ASSUME EventsInv PROVE TasksRunOnce
    OBVIOUS
<1>1. acted \in Seq(1..sends) /\ sends \in Nat /\ ActionOK /\ TasksKept
    BY DEF EventsInv, EventsTypeOK
<1>2. \A k \in 1..Len(acted) : acted[k] \in Nat
    BY <1>1
<1>3. \A k \in 1..Len(acted) : acted[k] \notin Waiting
  <2>1. SUFFICES ASSUME NEW k \in 1..Len(acted), NEW i \in 1..Len(event_list),
                        ~event_list[i].dead, acted[k] = event_list[i].id
                 PROVE  FALSE
    BY DEF Waiting
  <2>2. acted[k] < acted[k]
    BY <1>1, <2>1 DEF ActionOK
  <2> QED BY <1>2, <2>2
<1> QED BY <1>1, <1>3 DEF ActionOK, TasksKept, TasksRunOnce

(* kernel_event_update runs the action of an event at most once and in the *)
(* order of sending, and loses no task, though the list may be sent to and *)
(* removed from at each of the two places where it has released the mutex. *)
THEOREM EventsTasksRunOnce == EventsSpec => []TasksRunOnce
BY EventsInvRunOnce, EventsInvariant, PTL

=============================================================================
