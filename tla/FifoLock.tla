------------------------------ MODULE FifoLock ------------------------------
(***************************************************************************)
(* What a kernel mutex promises to the threads that use it, without the    *)
(* wait nodes, thread states and hand-off by which mutex.c keeps the       *)
(* promise: the threads that want a mutex stand in one line, the head of   *)
(* the line holds it, nobody overtakes, and only the holder leaves.        *)
(***************************************************************************)
EXTENDS Naturals, Sequences

CONSTANTS Threads, Mutexes

\* line[m] is the holder of m followed by the threads waiting for it.
VARIABLE line

Init == line = [m \in Mutexes |-> <<>>]

(* A thread asks for the mutex: at the head if it is free, else behind     *)
(* everybody already there.                                                *)
Join(t, m) ==
    /\ \A i \in 1..Len(line[m]) : line[m][i] # t
    /\ line' = [line EXCEPT ![m] = Append(@, t)]

(* The holder gives the mutex up and the next in line holds it at once.    *)
Leave(t, m) ==
    /\ line[m] # <<>>
    /\ Head(line[m]) = t
    /\ line' = [line EXCEPT ![m] = Tail(@)]

Next == \E t \in Threads, m \in Mutexes : Join(t, m) \/ Leave(t, m)

Spec == Init /\ [][Next]_line
=============================================================================
