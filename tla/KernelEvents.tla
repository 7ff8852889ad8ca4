----------------------------- MODULE KernelEvents -----------------------------
(***************************************************************************)
(* The kernel event queue (events.c, list.h) and the thread that drains it *)
(* (thread_kernel_main).                                                   *)
(*                                                                         *)
(* kernel_event_update marks under event_mutex, acts without it, and       *)
(* sweeps under it again: three steps, between which any thread may send   *)
(* or remove.  A locked section is one step.                               *)
(***************************************************************************)
EXTENDS Integers, Sequences, SequencesExt, Lists

CONSTANTS
    EventNames,     \* names of events; some name programs
    Programs,       \* the names kernel_event_update knows how to run
    MaxSends        \* bound: kernel_event_send calls in a behaviour

ASSUME KernelEventsAssumption ==
    Programs \subseteq EventNames /\ "" \notin Programs /\ MaxSends \in Nat

VARIABLES
    event_list,     \* [id, name, execute, refresh, dead], oldest first
    update,         \* pc of kernel_event_update and its local action
    sends,          \* bound used up; numbers the events
    acted,          \* ghost: ids whose action was run, in order
    removed,        \* ghost: ids taken out by kernel_event_remove
    tasks           \* ghost: ids of the events sent that ask for an action

eventVars == <<event_list, update, sends, acted, removed, tasks>>

NoAction == [id |-> 0, name |-> "", refresh |-> FALSE]

EventsInit ==
    /\ event_list = <<>>
    /\ update = [pc |-> "wait", action |-> NoAction]
    /\ sends = 0 /\ acted = <<>> /\ removed = {} /\ tasks = {}

(* A failed malloc leaves the list as it is and is a stuttering step.      *)
kernel_event_send(name, execute, refresh) ==
    /\ sends < MaxSends
    /\ sends' = sends + 1
    /\ event_list' = Append(event_list, [id |-> sends + 1, name |-> name, execute |-> execute,
                                         refresh |-> refresh, dead |-> FALSE])
    /\ tasks' = IF (execute /\ name \in Programs) \/ (refresh /\ ~execute)
                THEN tasks \cup {sends + 1} ELSE tasks
    /\ UNCHANGED <<update, acted, removed>>

(* The first event of that name, dead or alive.                            *)
kernel_event_remove(name) ==
    /\ \E i \in 1..Len(event_list) :
         /\ event_list[i].name = name
         /\ \A j \in 1..(i - 1) : event_list[j].name # name
         /\ event_list' = RemoveAt(event_list, i)
         /\ removed' = removed \cup {event_list[i].id}
    /\ UNCHANGED <<update, sends, acted, tasks>>

-----------------------------------------------------------------------------
IsTask(e) == e.execute \/ e.refresh

(* Where the scan stops: the first task, or the end of the list.           *)
Stop == IF \E i \in 1..Len(event_list) : IsTask(event_list[i])
        THEN CHOOSE i \in 1..Len(event_list) :
                IsTask(event_list[i]) /\ \A j \in 1..(i - 1) : ~IsTask(event_list[j])
        ELSE Len(event_list)

StaysAlive(e) ==  \* variant: the event is not marked
    e

(* The flag that stopped the scan is cleared; what was passed is dead.     *)
Marked(e) ==
    [e EXCEPT !.dead = TRUE, !.execute = FALSE,
              !.refresh = IF e.execute THEN e.refresh ELSE FALSE]

Scan ==
    /\ update.pc = "wait"
    /\ event_list' = [i \in 1..Len(event_list) |->
                        IF i <= Stop THEN Marked(event_list[i]) ELSE event_list[i]]
    /\ update' = [pc |-> "act", action |->
                    IF event_list = <<>> \/ ~IsTask(event_list[Stop]) THEN NoAction
                    ELSE LET e == event_list[Stop]
                         IN  [id |-> e.id, name |-> IF e.execute THEN e.name ELSE "",
                              refresh |-> ~e.execute]]
    /\ UNCHANGED <<sends, acted, removed, tasks>>

(* explorer_main, notepad_main or a refresh message to the focused window. *)
Act ==
    /\ update.pc = "act"
    /\ acted' = IF update.action.name \in Programs \/ update.action.refresh
                THEN Append(acted, update.action.id) ELSE acted
    /\ update' = [pc |-> "sweep", action |-> NoAction]
    /\ UNCHANGED <<event_list, sends, removed, tasks>>

SweepAll(l) == <<>>     \* variant: the list is emptied

Swept(l) == WithoutAll(l, {e \in Range(l) : e.dead})

Sweep ==
    /\ update.pc = "sweep"
    /\ event_list' = Swept(event_list)
    /\ update' = [update EXCEPT !.pc = "wait"]
    /\ UNCHANGED <<sends, acted, removed, tasks>>

EventsNext ==
    \/ \E n \in EventNames, execute, refresh \in BOOLEAN : kernel_event_send(n, execute, refresh)
    \/ \E n \in EventNames : kernel_event_remove(n)
    \/ Scan \/ Act \/ Sweep

EventsSpec == EventsInit /\ [][EventsNext]_eventVars

(* The kernel thread polls every KERNEL_EVENT_POLL_MS whether or not it is *)
(* signalled, and ends an update that it began.                            *)
EventsFair == WF_eventVars(Scan \/ Act \/ Sweep)
-----------------------------------------------------------------------------
Waiting == {event_list[i].id : i \in {j \in 1..Len(event_list) : ~event_list[j].dead}}

(* An action is run at most once for an event, in the order in which the   *)
(* events were sent, and no task disappears without its action: whatever   *)
(* is sent or removed while the action runs with the mutex released.       *)
TasksRunOnce ==
    /\ \A i, j \in 1..Len(acted) : i < j => acted[i] < acted[j]
    /\ \A i \in 1..Len(acted) : acted[i] \notin Waiting
    /\ tasks \subseteq Waiting \cup Range(acted) \cup removed \cup {update.action.id}

(* Every event sent is handled or removed in the end, behind however many  *)
(* others it was queued.                                                   *)
EventsAreHandled ==
    \A n \in 1..MaxSends : (n \in Waiting) ~> (n \notin Waiting)
=============================================================================
