---------------------------------- MODULE X4 ----------------------------------
(***************************************************************************)
(* The X4 emulator (emulation/x4: x4.c, opcodes.h, services.c).            *)
(*                                                                         *)
(* A program is not fixed beforehand: the instruction at an address is     *)
(* chosen when it is first fetched, so that a behaviour is a run of any    *)
(* program over the instructions given.  An instruction is its mnemonic    *)
(* and its operands, and takes the bytes it takes in memory.  A pointer    *)
(* takes four bytes of the stack, the least significant first: a stack     *)
(* slot holds <<pointer, which of its bytes>> or a byte.                   *)
(***************************************************************************)
EXTENDS Integers, Sequences

CONSTANTS
    Instructions,   \* what programs are made of
    CodeSize,       \* bound: bytes of a program
    BYTE,           \* a register holds 0 .. BYTE - 1
    StackSize,      \* bytes of the stack segment
    MaxSteps        \* bound: instructions executed in a behaviour

Jumps == {"JMP", "JE", "JNE", "JG", "JL", "JZ", "JNZ"}

ASSUME X4Assumption ==
    /\ {BYTE, StackSize, CodeSize, MaxSteps} \subseteq Nat
    /\ BYTE > 1 /\ StackSize > 8
    /\ \A i \in Instructions : i[1] \in Jumps \cup {"CALL"} => i[2] \in Nat

VARIABLES
    code,       \* address -> instruction, as far as it was fetched
    cpu,        \* registers, ep, bp, sp, state
    stack,      \* the stack segment
    kbd,        \* the keyboard's current character, and last_character
    x4,         \* running, yielded, ended; steps
    calls_open  \* ghost: ep, bp and sp that the RETs to come must restore

x4Vars == <<code, cpu, stack, kbd, x4, calls_open>>

Regs == {"al", "ah", "bl"}

X4Init ==
    /\ code = [a \in {} |-> <<>>]
    /\ cpu = [reg |-> [r \in Regs |-> 0], ep |-> 0, bp |-> 0, sp |-> 0, state |-> {}]
    /\ stack = [a \in 0..(StackSize - 1) |-> 0]
    /\ kbd = [current |-> 0, last |-> 0]
    /\ x4 = [pc |-> "running", steps |-> 0]
    /\ calls_open = <<>>

(* How far x4_emulate and the opcode move ep in all.                       *)
Length(op) ==
    CASE op \in {"MOVMR", "MOVMW", "MOVA"} -> 6
      [] op \in Jumps \cup {"CALL"} -> 5
      [] op \in {"MUL", "DIV"} -> 4
      [] op \in {"MOVR", "MOVB", "ADD", "SUB", "AND", "OR", "XOR", "CMP", "CMPR"} -> 3
      [] op \in {"INC", "DEC", "NOT", "PUSH", "POP", "INT"} -> 2
      [] op \in {"RET", "NOP", "CLI", "STI"} -> 1

CodeSpan(a, i) == a..(a + Length(i[1]) - 1)
CodeFits(a, i) ==
    /\ CodeSpan(a, i) \subseteq 0..(CodeSize - 1)
    /\ \A b \in DOMAIN code : CodeSpan(b, code[b]) \cap CodeSpan(a, i) = {}

-----------------------------------------------------------------------------
(* The bits that two bytes have in common.                                 *)
Common[a, b \in Nat] ==
    IF a = 0 THEN 0 ELSE 2 * Common[a \div 2, b \div 2] + (a % 2) * (b % 2)

Zero(c, v) == [c EXCEPT !.state = IF v = 0 THEN @ \cup {"ZERO"} ELSE @ \ {"ZERO"}]
Set(c, r, v) == Zero([c EXCEPT !.reg[r] = v % BYTE], v % BYTE)

update_compare_flags(c, left, right) ==
    [c EXCEPT !.state = (@ \ {"EQUAL", "GREATER", "LESS", "ZERO"}) \cup
        (IF left = right THEN {"EQUAL", "ZERO"}
         ELSE IF left > right THEN {"GREATER"} ELSE {"LESS"})]

(* The opcodes that work on registers and flags; DIV by zero is not run.   *)
Alu(i, c) ==
    LET r == c.reg
        op == i[1]
    IN  CASE op \in {"NOP", "CLI", "STI"} ->
               [c EXCEPT !.state = IF op = "STI" THEN @ \cup {"INTERRUPT"}
                                   ELSE IF op = "CLI" THEN @ \ {"INTERRUPT"} ELSE @]
          [] op = "MOVR" -> [c EXCEPT !.reg[i[2]] = r[i[3]]]
          [] op = "MOVB" -> [c EXCEPT !.reg[i[2]] = i[3]]
          [] op = "INC" -> Set(c, i[2], r[i[2]] + 1)
          [] op = "DEC" -> Set(c, i[2], r[i[2]] + BYTE - 1)
          [] op = "ADD" -> Set(c, i[2], r[i[2]] + r[i[3]])
          [] op = "SUB" -> Set(c, i[2], r[i[2]] + BYTE - r[i[3]])
          [] op = "MUL" -> Set(c, i[2], r[i[3]] * r[i[4]])
          [] op = "DIV" -> Set(c, i[2], r[i[3]] \div r[i[4]])
          [] op = "AND" -> Set(c, i[2], Common[r[i[2]], r[i[3]]])
          [] op = "OR" -> Set(c, i[2], r[i[2]] + r[i[3]] - Common[r[i[2]], r[i[3]]])
          [] op = "XOR" -> Set(c, i[2], r[i[2]] + r[i[3]] - 2 * Common[r[i[2]], r[i[3]]])
          [] op = "NOT" -> Set(c, i[2], BYTE - 1 - r[i[2]])
          [] op = "CMP" -> update_compare_flags(c, r[i[2]], i[3])
          [] op = "CMPR" -> update_compare_flags(c, r[i[2]], r[i[3]])

AluOps == {"NOP", "CLI", "STI", "MOVR", "MOVB", "INC", "DEC", "ADD", "SUB", "MUL", "DIV",
           "AND", "OR", "XOR", "NOT", "CMP", "CMPR"}
Defined(i, c) == i[1] = "DIV" => c.reg[i[4]] # 0

Taken(op, state) ==
    \/ op = "JMP"
    \/ op = "JE" /\ "EQUAL" \in state
    \/ op = "JNE" /\ "EQUAL" \notin state
    \/ op = "JG" /\ "GREATER" \in state
    \/ op = "JL" /\ "LESS" \in state
    \/ op = "JZ" /\ "ZERO" \in state
    \/ op = "JNZ" /\ "ZERO" \notin state

-----------------------------------------------------------------------------
(* The stack grows upwards: sp is the first free byte.                     *)
stack_push_ptr(s, sp, address) ==
    [a \in DOMAIN s |-> IF a \in sp..(sp + 3) THEN <<address, a - sp>> ELSE s[a]]

(* What the four bytes below sp make up, if they are bytes of one pointer. *)
stack_pop_ptr(s, sp) ==
    IF \A k \in 0..3 : s[sp - 4 + k] = <<s[sp - 4][1], k>> THEN s[sp - 4][1] ELSE -1

KeepsBase(target) ==    \* variant: the caller's bp is not saved
    /\ stack' = stack_push_ptr(stack_push_ptr(stack, cpu.sp, 0), cpu.sp + 4, cpu.ep + 5)
    /\ cpu' = [cpu EXCEPT !.sp = @ + 8, !.bp = cpu.sp + 8, !.ep = target]

opcode_CALL(target) ==
    /\ stack' = stack_push_ptr(stack_push_ptr(stack, cpu.sp, cpu.bp), cpu.sp + 4, cpu.ep + 5)
    /\ cpu' = [cpu EXCEPT !.sp = @ + 8, !.bp = cpu.sp + 8, !.ep = target]

(* sp goes back to bp, whatever was pushed since the CALL.                 *)
opcode_RET ==
    /\ cpu.bp >= 8
    /\ cpu' = [cpu EXCEPT !.sp = cpu.bp - 8, !.ep = stack_pop_ptr(stack, cpu.bp),
                          !.bp = stack_pop_ptr(stack, cpu.bp - 4)]
    /\ UNCHANGED stack

opcode_PUSH(r) ==
    /\ cpu.sp < StackSize
    /\ stack' = [stack EXCEPT ![cpu.sp] = cpu.reg[r]]
    /\ cpu' = [cpu EXCEPT !.sp = @ + 1, !.ep = @ + 2]

opcode_POP(r) ==
    /\ cpu.sp > 0
    /\ cpu' = [cpu EXCEPT !.sp = @ - 1, !.ep = @ + 2, !.reg[r] = stack[cpu.sp - 1]]
    /\ UNCHANGED stack

-----------------------------------------------------------------------------
(* INT 16h: AH = 0 waits for a key by yielding, AH = 1 looks, others are   *)
(* left out.  The character is told apart from the last one only.          *)
isc_keyboard_routine ==
    LET fresh == kbd.current # kbd.last
        al == IF fresh THEN kbd.current ELSE 0
    IN  IF cpu.reg["ah"] = 0
        THEN [al |-> al, last |-> kbd.current, yields |-> ~fresh]
        ELSE [al |-> al, last |-> kbd.last, yields |-> FALSE]

(* "Re execute the INT next time": ep, which is behind the opcode, goes    *)
(* back by two.                                                            *)
Retried(ep) == ep + 1 - 2

(* INT 20h ends the program; INT 10h prints.                               *)
opcode_INT(n) ==
    \/ /\ n = "20h"
       /\ x4' = [x4 EXCEPT !.pc = "ended", !.steps = @ + 1]
       /\ cpu' = [cpu EXCEPT !.ep = @ + 1, !.state = @ \ {"DIRTY"}]
       /\ UNCHANGED kbd
    \/ /\ n = "10h"
       /\ cpu' = [cpu EXCEPT !.ep = @ + 2, !.state = @ \cup {"DIRTY"}]
       /\ x4' = [x4 EXCEPT !.steps = @ + 1]
       /\ UNCHANGED kbd
    \/ /\ n = "16h"
       /\ LET k == isc_keyboard_routine
          IN  /\ kbd' = [kbd EXCEPT !.last = k.last]
              /\ x4' = [pc |-> IF k.yields THEN "yielded" ELSE "running", steps |-> x4.steps + 1]
              /\ cpu' = [cpu EXCEPT !.reg["al"] = k.al,
                                    !.ep = IF k.yields THEN Retried(@) ELSE @ + 2,
                                    !.state = IF k.yields THEN @ \ {"DIRTY"} ELSE @]

(* The next instruction: what is there already, or any that fits.          *)
Fetched == IF cpu.ep \in DOMAIN code THEN {code[cpu.ep]}
           ELSE {i \in Instructions : CodeFits(cpu.ep, i)}

Stepped == x4' = [x4 EXCEPT !.steps = @ + 1] /\ UNCHANGED kbd

(* One turn of the loop of x4_emulate.  A program keeps to its own frame:  *)
(* it pops only what it pushed, returns only from a call that is open and  *)
(* calls only when the stack has room (the emulator checks none of this).  *)
x4_emulate ==
    /\ x4.pc = "running" /\ x4.steps < MaxSteps
    /\ \E i \in Fetched :
         /\ code' = [a \in DOMAIN code \cup {cpu.ep} |-> IF a = cpu.ep THEN i ELSE code[a]]
         /\ \/ /\ i[1] \in AluOps /\ Defined(i, cpu) /\ Stepped
               /\ cpu' = [Alu(i, cpu) EXCEPT !.ep = cpu.ep + Length(i[1])]
               /\ UNCHANGED <<stack, calls_open>>
            \/ /\ i[1] \in Jumps /\ Stepped
               /\ cpu' = [cpu EXCEPT !.ep = IF Taken(i[1], cpu.state) THEN i[2] ELSE @ + 5]
               /\ UNCHANGED <<stack, calls_open>>
            \/ /\ i[1] = "CALL" /\ cpu.sp + 8 <= StackSize /\ opcode_CALL(i[2]) /\ Stepped
               /\ calls_open' = Append(calls_open,
                                  [ep |-> cpu.ep + 5, bp |-> cpu.bp, sp |-> cpu.sp])
            \/ /\ i[1] = "RET" /\ calls_open # <<>> /\ opcode_RET /\ Stepped
               /\ calls_open' = SubSeq(calls_open, 1, Len(calls_open) - 1)
            \/ /\ i[1] = "PUSH" /\ opcode_PUSH(i[2]) /\ Stepped
               /\ UNCHANGED calls_open
            \/ /\ i[1] = "POP" /\ cpu.sp > cpu.bp /\ opcode_POP(i[2]) /\ Stepped
               /\ UNCHANGED calls_open
            \/ /\ i[1] = "INT" /\ opcode_INT(i[2]) /\ UNCHANGED <<stack, calls_open>>

(* The scheduler runs the program again; external: a key is pressed.       *)
Resume == x4.pc = "yielded" /\ x4' = [x4 EXCEPT !.pc = "running"]
          /\ UNCHANGED <<code, cpu, stack, kbd, calls_open>>
Key == x4.pc # "ended" /\ kbd' = [kbd EXCEPT !.current = (@ + 1) % BYTE]
       /\ UNCHANGED <<code, cpu, stack, x4, calls_open>>

X4Next == x4_emulate \/ Resume \/ Key

X4Spec == X4Init /\ [][X4Next]_x4Vars
-----------------------------------------------------------------------------
(* Whatever a routine pushes and leaves on the stack, and however calls    *)
(* nest, its RET goes on behind the CALL, with the caller's sp and bp: the *)
(* frames on the stack are those of the calls that are open.               *)
CallsNest ==
    LET n == Len(calls_open)
        base(k) == IF k = n THEN cpu.bp ELSE calls_open[k + 1].bp
    IN  /\ n = 0 => cpu.bp = 0
        /\ \A k \in 1..n : /\ base(k) = calls_open[k].sp + 8
                           /\ stack_pop_ptr(stack, base(k)) = calls_open[k].ep
                           /\ stack_pop_ptr(stack, base(k) - 4) = calls_open[k].bp
        /\ cpu.sp >= cpu.bp
=============================================================================
