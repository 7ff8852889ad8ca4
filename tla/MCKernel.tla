------------------------------ MODULE MCKernel ------------------------------
(***************************************************************************)
(* The components of the kernel that share no state: process table, input, *)
(* memory, kernel heap, kernel nodes, VFS and its lock, and the X4         *)
(* emulator.  A behaviour belongs to one of them; the others stay as they  *)
(* were initialised, since no order of their steps could matter to it.     *)
(***************************************************************************)
EXTENDS Process, Input, VFSLock, X4, Memory, KHeap, Knode, VFSCopy

VARIABLE part   \* the component whose behaviour it is

MCKeys == {<<FALSE, 29>>, <<TRUE, 29>>, <<FALSE, 42>>, <<FALSE, 30>>, <<TRUE, 83>>, <<FALSE, 56>>}

MCMoves == {<<9, 1, 0>>, <<24, 255, 8>>}

MCObjectSizes == <<2, 3>>

MCPaths == {<<"mnt", "hd", "a">>, <<"mnt", "hd", "b">>, <<"mnt", "hd", "a", "b">>,
            <<"mnt", "hd", "..", "a">>}

MCCopies == {<< <<"mnt", "hd", "a">>, <<"mnt", "hd", "b">> >>}

MCInstructions ==
    {<<"CALL", 5>>, <<"CALL", 0>>, <<"RET">>, <<"PUSH", "al">>, <<"POP", "bl">>, <<"INC", "al">>,
     <<"CMP", "al", 1>>, <<"JE", 0>>, <<"JNZ", 5>>, <<"INT", "16h">>, <<"INT", "20h">>,
     <<"INT", "10h">>}

Parts == {"process", "input", "lock", "x4", "memory", "kheap", "knode", "vfs"}

Init ==
    /\ part \in Parts
    /\ ProcessInit /\ InputInit /\ LockInit /\ X4Init /\ MemInit /\ KHeapInit /\ KnodeInit
    /\ CopyInit
    /\ part # "kheap" => platform = "x86"

Stays(p, vs) == IF part = p THEN TRUE ELSE UNCHANGED vs

RestStays ==
    /\ UNCHANGED part
    /\ Stays("process", processVars) /\ Stays("input", inputVars)
    /\ Stays("lock", lockVars) /\ Stays("x4", x4Vars)
    /\ Stays("memory", memVars) /\ Stays("kheap", heapVars)
    /\ Stays("knode", knodeVars) /\ Stays("vfs", copyVars)

Next ==
    \/ part = "process" /\ RestStays /\ ProcessNext
    \/ part = "input" /\ RestStays /\ InputNext
    \/ part = "lock" /\ RestStays /\ LockNext
    \/ part = "x4" /\ RestStays /\ X4Next
    \/ part = "memory" /\ RestStays /\ MemNext
    \/ part = "kheap" /\ RestStays /\ KHeapNext
    \/ part = "knode" /\ RestStays /\ KnodeNext
    \/ part = "vfs" /\ RestStays /\ CopyNext

Spec == Init /\ [][Next]_<<part, processVars, inputVars, lockVars, x4Vars, memVars, heapVars,
                           knodeVars, copyVars>>
=============================================================================
