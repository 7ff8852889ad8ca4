----------------------------- MODULE ThreadLife -----------------------------
(***************************************************************************)
(* The life of a thread control block as the rest of the kernel sees it,   *)
(* without priorities, quanta or clocks: which states follow which, that   *)
(* only a READY thread is put on the CPU, that the idle thread runs only   *)
(* when no thread can, and that a block is freed only after its thread has *)
(* died and left the CPU.                                                  *)
(***************************************************************************)
CONSTANTS Threads, Idle

VARIABLES state, current

Init ==
    /\ current \in Threads
    /\ state = [t \in Threads |-> IF t = current THEN "RUNNING" ELSE "FREE"]

(* What a scheduler entry may do to thread t: the outgoing thread keeps    *)
(* the CPU, becomes READY, or waits for something; a sleeper may be woken; *)
(* a dead thread that is off the CPU may be freed.                         *)
MayBecome(t, s) ==
    \/ s = state[t] /\ state[t] # "RUNNING"
    \/ state[t] = "RUNNING" /\ s \in {"READY", "RUNNING", "SLEEPING", "BLOCKED"}
    \/ state[t] = "SLEEPING" /\ s = "READY"
    \/ state[t] = "READY" /\ s = "RUNNING"
    \/ state[t] = "SLEEPING" /\ s = "RUNNING"
    \/ state[t] = "DEAD" /\ s = "FREE" /\ current # t

Enter ==
    /\ \A t \in Threads : MayBecome(t, state'[t])
    /\ \/ current' \in Threads /\ state'[current'] = "RUNNING"
       \/ current' = Idle /\ \A t \in Threads : state'[t] # "READY"
    /\ \A t \in Threads : state'[t] = "RUNNING" => current' = t

Change(t, from, to) ==
    /\ state[t] \in from
    /\ state' = [state EXCEPT ![t] = to]
    /\ UNCHANGED current

Create(t) == Change(t, {"FREE"}, "READY")
Wake(t) == Change(t, {"SLEEPING", "BLOCKED"}, "READY")
Die(t) == Change(t, {"READY", "RUNNING", "SLEEPING", "BLOCKED"}, "DEAD")

Next == Enter \/ \E t \in Threads : Create(t) \/ Wake(t) \/ Die(t)

Spec == Init /\ [][Next]_<<state, current>>
=============================================================================
