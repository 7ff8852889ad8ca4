-------------------------------- MODULE Input --------------------------------
(***************************************************************************)
(* Keyboard and mouse, from the PS/2 controller to the DWM thread          *)
(* (drivers/keyboard.c, mouse.c, ps2.c, boot/x86/interrupt.c and the loop  *)
(* of thread_dwm_main).                                                    *)
(*                                                                         *)
(* An interrupt handler runs with interrupts off and is one step.  Bytes   *)
(* are the integers the ports deliver.  The keyboard, the mouse and the    *)
(* controller's one-byte output buffer are external.                       *)
(***************************************************************************)
EXTENDS Integers, Sequences

CONSTANTS
    Keys,                   \* <<extended, scan code>> of the keys there are
    INPUT_KEY_QUEUE_SIZE,
    MOUSE_QUEUE_SIZE,
    Moves,                  \* the packets the mouse may send
    Width, Height,          \* of the display
    MaxInputs               \* bound: strokes and mouse packets in a behaviour

E0 == 224
Bit(byte, b) == (byte \div b) % 2 = 1

(* E0 is the break code of no key, only a fake shift is an extended shift, *)
(* and the first byte of a packet has the bit that marks it.               *)
ASSUME InputAssumption ==
    /\ Keys \subseteq (BOOLEAN \X ((1..127) \ {E0 - 128})) \ {<<TRUE, 42>>, <<TRUE, 54>>}
    /\ \A p \in Moves : p \in (0..255) \X (0..255) \X (0..255) /\ Bit(p[1], 8)
    /\ {INPUT_KEY_QUEUE_SIZE, MOUSE_QUEUE_SIZE, Width, Height} \subseteq Nat
    /\ INPUT_KEY_QUEUE_SIZE > 1 /\ MOUSE_QUEUE_SIZE > 2
    /\ Width > 0 /\ Height > 0

VARIABLES
    held, kbdq,     \* external: keys held, bytes the keyboard has not sent
    auxq,           \* external: bytes the mouse has not sent
    port,           \* external: the output buffer, with its status bit 5
    irq,            \* external: interrupts the PIC has pending
    modifiers,      \* the *_down flags that are set
    VirtualKeyMap,  \* scan codes that are down
    key_queue,      \* slots, head, tail
    mouse,          \* packet being assembled, fixed point position, buttons
    mouse_queue,    \* slots, head, tail
    dwm,            \* pc of thread_dwm_main and the slot it has read
    input_event,    \* the latch of input_event
    restarted,      \* system_restart was called
    got,            \* ghost: keys and the last mouse event the DWM received
    user,           \* ghost: keys and packets as the user meant them
    mangled         \* ghost: an E0 sequence was torn apart

inputVars == <<held, kbdq, auxq, port, irq, modifiers, VirtualKeyMap, key_queue, mouse,
               mouse_queue, dwm, input_event, restarted, got, user, mangled>>
hardware == <<held, kbdq, auxq>>

Nothing == [aux |-> FALSE, byte |-> -1]
NoKey == <<>>           \* kb_getc returns 0

Ring(size) == [slot |-> [i \in 0..(size - 1) |-> NoKey], head |-> 0, tail |-> 0]

InputInit ==
    /\ held = {} /\ kbdq = <<>> /\ auxq = <<>> /\ port = Nothing /\ irq = {}
    /\ modifiers = {} /\ VirtualKeyMap = {}
    /\ key_queue = Ring(INPUT_KEY_QUEUE_SIZE)
    /\ mouse = [packet |-> <<>>, x |-> 0, y |-> 0, buttons |-> 0]
    /\ mouse_queue = Ring(MOUSE_QUEUE_SIZE)
    /\ dwm = [pc |-> "wait", key |-> NoKey]
    /\ input_event = FALSE /\ restarted = FALSE /\ mangled = FALSE
    /\ got = [keys |-> <<>>, mouse |-> <<0, 0, 0>>]
    /\ user = [keys |-> <<>>, x |-> 0, y |-> 0, buttons |-> 0, inputs |-> 0]

-----------------------------------------------------------------------------
(* What a key yields: a character, shifted or not, a navigation key, or    *)
(* nothing.                                                                *)
Navigation == {71, 72, 73, 75, 77, 79, 80, 81, 83}
Characters == (1..57) \ {29, 42, 54, 56}
KeyValue(extended, code, shift) ==
    IF extended
    THEN IF code \in Navigation THEN <<"nav", code>> ELSE NoKey
    ELSE IF code \in Characters /\ ~(shift /\ code = 1) THEN <<"char", code, shift>> ELSE NoKey

Modifier(extended, code) ==
    CASE code = 29 -> IF extended THEN {"rctrl"} ELSE {"lctrl"}
      [] code = 56 -> IF extended THEN {"ralt"} ELSE {"lalt"}
      [] code = 42 -> {"lshift"}
      [] code = 54 -> {"rshift"}
      [] OTHER -> {}

ModifiersOf(keys) == UNION {Modifier(k[1], k[2]) : k \in keys}
Shift(m) == m \cap {"lshift", "rshift"} # {}
Ctrl(m) == m \cap {"lctrl", "rctrl"} # {}
Alt(m) == m \cap {"lalt", "ralt"} # {}

Bytes(k, break) ==
    (IF k[1] THEN <<E0>> ELSE <<>>) \o <<k[2] + (IF break THEN 128 ELSE 0)>>

(* External.  With Shift held, a gray key is wrapped in fake shifts.       *)
Press(k) ==
    /\ k \notin held /\ user.inputs < MaxInputs /\ ~restarted
    /\ held' = held \cup {k}
    /\ LET fake == IF k[1] /\ k[2] \in Navigation /\ Shift(ModifiersOf(held))
                   THEN <<E0, 170>> ELSE <<>>
           value == KeyValue(k[1], k[2], Shift(ModifiersOf(held)))
       IN  /\ kbdq' = kbdq \o fake \o Bytes(k, FALSE)
           /\ user' = [user EXCEPT !.inputs = @ + 1,
                          !.keys = IF value = NoKey THEN @ ELSE Append(@, value)]
    /\ UNCHANGED <<auxq, port, irq, modifiers, VirtualKeyMap, key_queue, mouse, mouse_queue,
                   dwm, input_event, restarted, got, mangled>>

Lift(k) ==
    /\ k \in held /\ user.inputs < MaxInputs /\ ~restarted
    /\ held' = held \ {k}
    /\ kbdq' = kbdq \o Bytes(k, TRUE)
    /\ user' = [user EXCEPT !.inputs = @ + 1]
    /\ UNCHANGED <<auxq, port, irq, modifiers, VirtualKeyMap, key_queue, mouse, mouse_queue,
                   dwm, input_event, restarted, got, mangled>>

Clamp(v, max) == IF v < 0 THEN 0 ELSE IF v > max THEN max ELSE v
Signed(byte, negative) == IF negative THEN byte - 256 ELSE byte

(* The pointer after a packet, in 1/256 pixels, from state m.              *)
Moved(m, p) ==
    IF Bit(p[1], 64) \/ Bit(p[1], 128) THEN m       \* overflow: ignored
    ELSE [m EXCEPT
            !.buttons = p[1] % 8,
            !.x = Clamp(@ + Signed(p[2], Bit(p[1], 16)) * 256, Width * 256 - 1),
            !.y = Clamp(@ - Signed(p[3], Bit(p[1], 32)) * 256, Height * 256 - 1)]

(* External.                                                               *)
MoveMouse(p) ==
    /\ user.inputs < MaxInputs /\ ~restarted
    /\ auxq' = auxq \o p
    /\ user' = [Moved(user, p) EXCEPT !.inputs = @ + 1]
    /\ UNCHANGED <<held, kbdq, port, irq, modifiers, VirtualKeyMap, key_queue, mouse,
                   mouse_queue, dwm, input_event, restarted, got, mangled>>

(* External: the controller takes the next byte of either device.          *)
Deliver(aux) ==
    /\ port = Nothing /\ (IF aux THEN auxq ELSE kbdq) # <<>> /\ ~restarted
    /\ port' = [aux |-> aux, byte |-> Head(IF aux THEN auxq ELSE kbdq)]
    /\ kbdq' = IF aux THEN kbdq ELSE Tail(kbdq)
    /\ auxq' = IF aux THEN Tail(auxq) ELSE auxq
    /\ irq' = irq \cup {IF aux THEN 12 ELSE 1}
    /\ UNCHANGED <<held, modifiers, VirtualKeyMap, key_queue, mouse, mouse_queue, dwm,
                   input_event, restarted, got, user, mangled>>

-----------------------------------------------------------------------------
Next1(i, size) == (i + 1) % size
Pushed(q, size, v) == [q EXCEPT !.slot[q.head] = v, !.head = Next1(@, size)]
Full(q, size) == Next1(q.head, size) = q.tail

input_key_push(v) ==
    IF v = NoKey \/ Full(key_queue, INPUT_KEY_QUEUE_SIZE) THEN key_queue
    ELSE Pushed(key_queue, INPUT_KEY_QUEUE_SIZE, v)

MouseEventOf(m) == <<m.x \div 256, m.y \div 256, m.buttons>>

DropWhenFull(m) ==  \* variant: a full queue drops the event
    IF Full(mouse_queue, MOUSE_QUEUE_SIZE) THEN mouse_queue
    ELSE Pushed(mouse_queue, MOUSE_QUEUE_SIZE, MouseEventOf(m))

(* A full queue folds the event into the newest one, unless that is the    *)
(* one being read.                                                         *)
mouse_enqueue_event(m) ==
    LET newest == (mouse_queue.head + MOUSE_QUEUE_SIZE - 1) % MOUSE_QUEUE_SIZE
    IN  IF Full(mouse_queue, MOUSE_QUEUE_SIZE)
        THEN IF newest = mouse_queue.tail THEN mouse_queue
             ELSE [mouse_queue EXCEPT !.slot[newest] = MouseEventOf(m)]
        ELSE Pushed(mouse_queue, MOUSE_QUEUE_SIZE, MouseEventOf(m))

(* One byte of the mouse: realignment, assembly, and at the third byte the *)
(* new position and an event.                                              *)
mouse_event_handler ==
    LET packet == IF mouse.packet = <<>> /\ ~Bit(port.byte, 8) THEN <<>>
                  ELSE Append(mouse.packet, port.byte)
        moved == Moved(mouse, packet)
        ignored == Bit(packet[1], 64) \/ Bit(packet[1], 128)
    IN  IF Len(packet) < 3
        THEN mouse' = [mouse EXCEPT !.packet = packet] /\ UNCHANGED mouse_queue
        ELSE /\ mouse' = [moved EXCEPT !.packet = <<>>]
             /\ mouse_queue' = IF ignored THEN mouse_queue ELSE mouse_enqueue_event(moved)

OneFlagPerKey(break, extended, code) ==     \* variant: fake shifts count
    IF break THEN modifiers \ Modifier(extended, code)
    ELSE modifiers \cup Modifier(extended, code)

SetModifiers(break, extended, code) ==
    IF extended /\ code \in {42, 54} THEN modifiers
    ELSE IF break THEN modifiers \ Modifier(extended, code)
    ELSE modifiers \cup Modifier(extended, code)

(* The rest of kb_getc, once the bytes of a scan code have been read.      *)
kb_getc(extended, byte) ==
    LET code == byte % 128
        break == byte >= 128
        fake == extended /\ code \in {42, 54}
        mods == SetModifiers(break, extended, code)
    IN  /\ modifiers' = mods
        /\ VirtualKeyMap' = IF fake THEN VirtualKeyMap
                            ELSE IF break THEN VirtualKeyMap \ {code}
                            ELSE VirtualKeyMap \cup {code}
        /\ restarted' = (code = 83 /\ ~break /\ Ctrl(mods) /\ Alt(mods))
        /\ key_queue' = IF break \/ fake THEN key_queue
                        ELSE input_key_push(KeyValue(extended, code, Shift(mods)))

Idle == UNCHANGED <<modifiers, VirtualKeyMap, restarted, key_queue>>

(* keyboard_handler_c.  After E0 the handler spins for the second byte and *)
(* takes it from whichever device it comes, or gives up; the interrupt of  *)
(* that byte may then find the port empty, or a byte of the mouse.         *)
keyboard_handler_c ==
    /\ 1 \in irq /\ ~restarted
    /\ irq' \in {irq \ {1}} \cup (IF port.byte = E0 THEN {irq} ELSE {})
    /\ input_event' = TRUE
    /\ port' = Nothing
    /\ \/ /\ port = Nothing /\ Idle
          /\ UNCHANGED <<kbdq, auxq, mouse, mouse_queue, mangled>>
       \/ /\ port # Nothing /\ port.aux /\ mouse_event_handler /\ Idle
          /\ UNCHANGED <<kbdq, auxq, mangled>>
       \/ /\ port # Nothing /\ ~port.aux /\ port.byte # E0 /\ kb_getc(FALSE, port.byte)
          /\ UNCHANGED <<kbdq, auxq, mouse, mouse_queue, mangled>>
       \/ /\ port.byte = E0 /\ ~port.aux /\ kbdq # <<>> /\ kb_getc(TRUE, Head(kbdq))
          /\ kbdq' = Tail(kbdq)
          /\ UNCHANGED <<auxq, mouse, mouse_queue, mangled>>
       \/ /\ port.byte = E0 /\ ~port.aux /\ auxq # <<>> /\ kb_getc(TRUE, Head(auxq))
          /\ auxq' = Tail(auxq) /\ mangled' = TRUE
          /\ UNCHANGED <<kbdq, mouse, mouse_queue>>
       \/ /\ port.byte = E0 /\ ~port.aux /\ Idle
          /\ mangled' = TRUE
          /\ UNCHANGED <<kbdq, auxq, mouse, mouse_queue>>
    /\ UNCHANGED <<held, dwm, got, user>>

(* mouse_handler_c: a byte that is not the mouse's stays where it is.      *)
mouse_handler_c ==
    /\ 12 \in irq /\ ~restarted
    /\ irq' = irq \ {12}
    /\ input_event' = TRUE
    /\ \/ /\ port # Nothing /\ port.aux /\ mouse_event_handler
          /\ port' = Nothing
       \/ /\ port = Nothing \/ ~port.aux
          /\ UNCHANGED <<port, mouse, mouse_queue>>
    /\ UNCHANGED <<hardware, modifiers, VirtualKeyMap, key_queue, dwm, restarted, got, user,
                   mangled>>

-----------------------------------------------------------------------------
(* thread_dwm_main.  event_wait returns on a signal or after DWM_FRAME_MS. *)
Wake ==
    /\ dwm.pc = "wait" /\ ~restarted
    /\ input_event' = FALSE
    /\ dwm' = [dwm EXCEPT !.pc = "keys"]
    /\ UNCHANGED <<hardware, port, irq, modifiers, VirtualKeyMap, key_queue, mouse,
                   mouse_queue, restarted, got, user, mangled>>

(* input_key_pop: an interrupt may come between the read and the advance.  *)
PopRead ==
    /\ dwm.pc = "keys" /\ ~restarted
    /\ dwm' = IF key_queue.tail = key_queue.head THEN [dwm EXCEPT !.pc = "mouse"]
              ELSE [pc |-> "advance", key |-> key_queue.slot[key_queue.tail]]
    /\ UNCHANGED <<hardware, port, irq, modifiers, VirtualKeyMap, key_queue, mouse,
                   mouse_queue, input_event, restarted, got, user, mangled>>

PopAdvance ==
    /\ dwm.pc = "advance" /\ ~restarted
    /\ key_queue' = [key_queue EXCEPT !.tail = Next1(@, INPUT_KEY_QUEUE_SIZE)]
    /\ got' = [got EXCEPT !.keys = Append(@, dwm.key)]
    /\ dwm' = [pc |-> "keys", key |-> NoKey]
    /\ UNCHANGED <<hardware, port, irq, modifiers, VirtualKeyMap, mouse, mouse_queue,
                   input_event, restarted, user, mangled>>

mouse_dequeue_event ==
    /\ dwm.pc = "mouse" /\ ~restarted
    /\ \/ /\ mouse_queue.head = mouse_queue.tail
          /\ dwm' = [dwm EXCEPT !.pc = "wait"]
          /\ UNCHANGED <<mouse_queue, got>>
       \/ /\ mouse_queue.head # mouse_queue.tail
          /\ got' = [got EXCEPT !.mouse = mouse_queue.slot[mouse_queue.tail]]
          /\ mouse_queue' = [mouse_queue EXCEPT !.tail = Next1(@, MOUSE_QUEUE_SIZE)]
          /\ UNCHANGED dwm
    /\ UNCHANGED <<hardware, port, irq, modifiers, VirtualKeyMap, key_queue, mouse,
                   input_event, restarted, user, mangled>>

InputNext ==
    \/ \E k \in Keys : Press(k) \/ Lift(k)
    \/ \E p \in Moves : MoveMouse(p)
    \/ \E aux \in BOOLEAN : Deliver(aux)
    \/ keyboard_handler_c \/ mouse_handler_c
    \/ Wake \/ PopRead \/ PopAdvance \/ mouse_dequeue_event

InputSpec == InputInit /\ [][InputNext]_inputVars
-----------------------------------------------------------------------------
(* What is in the key ring, oldest first.                                  *)
Queued ==
    LET n == (key_queue.head - key_queue.tail) % INPUT_KEY_QUEUE_SIZE
    IN  [i \in 1..n |-> key_queue.slot[(key_queue.tail + i - 1) % INPUT_KEY_QUEUE_SIZE]]

IsSubsequence(s, t) ==
    \E f \in [1..Len(s) -> 1..Len(t)] :
        /\ \A i, j \in 1..Len(s) : i < j => f[i] < f[j]
        /\ \A i \in 1..Len(s) : s[i] = t[f[i]]

(* The keys the DWM receives are keys the user pressed, in that order and  *)
(* with the Shift state of that moment, and the modifier flags end up as   *)
(* the keys that are held, whatever fake shifts, second modifier keys and  *)
(* mouse bytes come between, unless an E0 sequence was torn.               *)
KeyboardIsTrue ==
    ~mangled =>
        /\ IsSubsequence(got.keys \o Queued, user.keys)
        /\ (kbdq = <<>> /\ port.aux = (port # Nothing)) => modifiers = ModifiersOf(held)

(* "Fold the new state into the newest queued event so position and        *)
(* buttons stay current": when everything has been read, the DWM has the   *)
(* position and the buttons of the user's mouse.                           *)
PointerStaysCurrent ==
    ~mangled /\ auxq = <<>> /\ ~port.aux /\ mouse_queue.head = mouse_queue.tail
        => got.mouse = MouseEventOf(user)

(* Nothing the user typed waits in a ring with the DWM asleep and no       *)
(* signal on its way.                                                      *)
NothingStranded ==
    /\ dwm.pc = "wait" =>
          \/ input_event
          \/ key_queue.head = key_queue.tail /\ mouse_queue.head = mouse_queue.tail
    /\ port # Nothing => irq # {} \/ port.aux

(* What is typed arrives, as it was typed.                                 *)
KeysArrive == KeyboardIsTrue /\ NothingStranded

(* What the user does with keyboard and mouse reaches the DWM, and nothing *)
(* else does.                                                              *)
InputArrives == KeysArrive /\ PointerStaysCurrent
=============================================================================
