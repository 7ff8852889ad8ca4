------------------------------- MODULE VFSLock -------------------------------
(***************************************************************************)
(* The recursive lock of the VFS (vfs_lock.c): a mutex with an owner and a *)
(* depth that are read without holding it.  Every access of the two        *)
(* variables is a step.                                                    *)
(***************************************************************************)
EXTENDS Integers, FiniteSets

CONSTANTS
    VfsThreads,     \* threads that call the VFS
    MaxNesting,     \* bound: nested vfs_lock calls of a thread
    NoThread        \* NULL

ASSUME VFSLockAssumption == NoThread \notin VfsThreads /\ MaxNesting \in Nat

VARIABLES
    vfs_mutex,      \* the thread that holds it, or NoThread
    vfs_owner,
    vfs_depth,
    pc,             \* per thread: where it is in vfs_lock or vfs_unlock
    nesting         \* per thread: vfs_lock calls it has not undone

lockVars == <<vfs_mutex, vfs_owner, vfs_depth, pc, nesting>>

LockInit ==
    /\ vfs_mutex = NoThread /\ vfs_owner = NoThread /\ vfs_depth = 0
    /\ pc = [t \in VfsThreads |-> "out"]
    /\ nesting = [t \in VfsThreads |-> 0]

Move(t, from, to) == pc[t] = from /\ pc' = [pc EXCEPT ![t] = to]
Inside(t) == IF nesting[t] > 0 THEN "in" ELSE "out"

(* vfs_lock reads the depth, then the owner.                               *)
ReadDepth(t) ==
    /\ pc[t] = Inside(t) /\ nesting[t] < MaxNesting
    /\ pc' = [pc EXCEPT ![t] = IF vfs_depth # 0 THEN "owner" ELSE "mutex"]
    /\ UNCHANGED <<vfs_mutex, vfs_owner, vfs_depth, nesting>>

AnyOwner(t) ==      \* variant: a lock that is held counts as one's own
    /\ Move(t, "owner", "again")
    /\ UNCHANGED <<vfs_mutex, vfs_owner, vfs_depth, nesting>>

ReadOwner(t) ==
    /\ Move(t, "owner", IF vfs_owner = t THEN "again" ELSE "mutex")
    /\ UNCHANGED <<vfs_mutex, vfs_owner, vfs_depth, nesting>>

LockAgain(t) ==
    /\ Move(t, "again", "in")
    /\ vfs_depth' = vfs_depth + 1
    /\ nesting' = [nesting EXCEPT ![t] = @ + 1]
    /\ UNCHANGED <<vfs_mutex, vfs_owner>>

TakeMutex(t) ==
    /\ vfs_mutex = NoThread /\ Move(t, "mutex", "own")
    /\ vfs_mutex' = t
    /\ UNCHANGED <<vfs_owner, vfs_depth, nesting>>

SetOwner(t) ==
    /\ Move(t, "own", "depth") /\ vfs_owner' = t
    /\ UNCHANGED <<vfs_mutex, vfs_depth, nesting>>

SetDepth(t) ==
    /\ Move(t, "depth", "in") /\ vfs_depth' = 1
    /\ nesting' = [nesting EXCEPT ![t] = 1]
    /\ UNCHANGED <<vfs_mutex, vfs_owner>>

(* vfs_unlock by the owner, who alone writes the two variables.            *)
LowerDepth(t) ==
    /\ nesting[t] > 0 /\ Move(t, "in", IF vfs_depth = 1 THEN "clear" ELSE "in")
    /\ vfs_owner = t /\ vfs_depth # 0
    /\ vfs_depth' = vfs_depth - 1
    /\ nesting' = [nesting EXCEPT ![t] = @ - 1]
    /\ UNCHANGED <<vfs_mutex, vfs_owner>>

ClearOwner(t) ==
    /\ Move(t, "clear", "release") /\ vfs_owner' = NoThread
    /\ UNCHANGED <<vfs_mutex, vfs_depth, nesting>>

ReleaseMutex(t) ==
    /\ Move(t, "release", "out") /\ vfs_mutex' = NoThread
    /\ UNCHANGED <<vfs_owner, vfs_depth, nesting>>

LockNext ==
    \E t \in VfsThreads :
        \/ ReadDepth(t) \/ ReadOwner(t) \/ LockAgain(t) \/ TakeMutex(t) \/ SetOwner(t)
        \/ SetDepth(t) \/ LowerDepth(t) \/ ClearOwner(t) \/ ReleaseMutex(t)

LockSpec == LockInit /\ [][LockNext]_lockVars
-----------------------------------------------------------------------------
(* "A thread that does not hold the lock can never read itself as the      *)
(* owner", although it reads without the mutex; a thread that has locked   *)
(* holds the mutex alone, and the depth counts its calls.                  *)
RecursionIsSound ==
    /\ \A t \in VfsThreads :
          /\ pc[t] = "again" => vfs_mutex = t /\ nesting[t] > 0
          /\ nesting[t] > 0 => vfs_mutex = t /\ vfs_owner = t /\ vfs_depth = nesting[t]
          /\ pc[t] = "mutex" => nesting[t] = 0
=============================================================================
