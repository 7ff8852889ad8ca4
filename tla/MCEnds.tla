------------------------------- MODULE MCEnds -------------------------------
(***************************************************************************)
(* What must end and what must last.  The walks of the file system end, on *)
(* a disk that power losses have damaged too; the kernel's event queue is  *)
(* served; and the caches and drivers below the file system keep what they *)
(* accepted, through failing commands and power losses.  The three share   *)
(* no state in these models: a behaviour belongs to one of them, and the   *)
(* fairness of another asks nothing of it.                                 *)
(***************************************************************************)
EXTENDS BaseFS, KernelEvents, Storage

VARIABLE part   \* "files", "events" or "sectors"

all == <<part, vars, eventVars, storageVars>>

(* Two bitmap frames in different sectors, one of which also holds other   *)
(* data, as the partition block does.                                      *)
MCFrames == {<<1, 1>>, <<2, 1>>}

EndsInit ==
    /\ part \in {"files", "events", "sectors"}
    /\ Init /\ EventsInit /\ StorageInit
    /\ part # "sectors" => device_type = "ATA"

Files == part = "files" /\ UNCHANGED <<part, eventVars, storageVars>>

Queue == part = "events" /\ UNCHANGED <<part, vars, storageVars>>

Drive == part = "sectors" /\ UNCHANGED <<part, vars, eventVars>>

EndsNext ==
    \/ Files /\ Next
    \/ Queue /\ EventsNext
    \/ Drive /\ StorageNext

EndsSpec ==
    /\ EndsInit /\ [][EndsNext]_all
    /\ WF_all(Files /\ Continue)
    /\ WF_all(Queue /\ (Scan \/ Act \/ Sweep))

(* Whatever is started ends: each operation of the file system returns,    *)
(* on a damaged disk too, and each event sent is handled or removed.       *)
EverythingEnds == OperationsEnd /\ EventsAreHandled
=============================================================================
