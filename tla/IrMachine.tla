----------------------------- MODULE IrMachine ------------------------------
(***************************************************************************)
(* What the generated code does when it runs: the stack processor that     *)
(* src/README.md:185-212 describes, each IR instruction with the effect of *)
(* the x64 instructions that src/src/x64/x64_generators.cpp emits for it.  *)
(* The index of an IR instruction stands for the address of its code.      *)
(*                                                                         *)
(* A number counts hundredths; an address of code is the index of an IR    *)
(* instruction; ram is the memory that r8 points to.                       *)
(***************************************************************************)
EXTENDS Ir, Words, Stdlib

CONSTANTS InputValues,   \* what a user may type, in hundredths
          RAMSIZE        \* bytes of ram; 4096 in the source

VARIABLES
    ir_code,    \* the program; it never changes
    pc,         \* the IR instruction that is executed next
    stack,      \* the top is the head
    ram,
    regs,       \* the registers of the IR: 0 is rax, 1 is rcx, 2 is rdx, 3 is rbx
    input, out, \* what has been read and written so far
    state       \* "running", "exit", "fault" (a signal ends the process)

machine == << ir_code, pc, stack, ram, regs, input, out, state >>

FIXED_PRECISION_MULTIPLIER == 100

MachineInit ==
    /\ pc = 0 /\ stack = << >> /\ ram = [a \in {} |-> Num(0)]
    /\ regs = [r \in 0 .. 3 |-> Undetermined]
    /\ input = << >> /\ out = << >> /\ state = "running"

MachineTypeOK ==
    /\ ir_code \in Seq(Instr) /\ pc \in Int /\ stack \in Seq(Words)
    /\ \A a \in DOMAIN ram : a \in Int /\ ram[a] \in Words
    /\ regs \in [0 .. 3 -> Words]
    /\ input \in Seq(InputValues) /\ out \in Seq(Words)
    /\ state \in {"running", "exit", "fault"}
-----------------------------------------------------------------------------
instruction == At(ir_code, pc)
Executes(types) == state = "running" /\ Inside(ir_code, pc) /\ instruction.type \in types

\* A memory operand: [r8 + reg + 8 * imm].
Address(i) == QWORD * i.imm_arg + (IF i.need_reg_arg THEN regs[i.reg_num].v ELSE 0)
Addressed(i) == /\ i.need_reg_arg => regs[i.reg_num].kind = "num"
                /\ Address(i) \in 0 .. RAMSIZE - QWORD

\* mul_fix_precision_multiplier follows a product, div_fix_... precedes a quotient.
Arithmetic(type, a, b) ==
    CASE type = "ADD" -> a + b
      [] type = "SUB" -> a - b
      [] type = "MUL" -> Quotient(a * b, FIXED_PRECISION_MULTIPLIER)
      [] type = "DIV" -> Quotient(a * FIXED_PRECISION_MULTIPLIER, b)
\* What the last idiv of a group leaves in rdx.
RemainderOf(type, a, b) ==
    CASE type = "MUL" -> Remainder(a * b, FIXED_PRECISION_MULTIPLIER)
      [] type = "DIV" -> Remainder(a * FIXED_PRECISION_MULTIPLIER, b)

Compares(type, a, b) ==
    CASE type = "JE" -> a = b  [] type = "JNE" -> a # b  [] type = "JA"  -> a > b
      [] type = "JB" -> a < b  [] type = "JAE" -> a >= b [] type = "JBE" -> a <= b

Operands(i) ==
    CASE i.type \in {"ADD", "SUB", "MUL", "DIV"} \cup Jumps -> 2
      [] i.type \in {"POP", "SQRT", "OUT", "RET"} -> 1
      [] OTHER -> 0

\* The process is killed, or does something that the IR does not tell: the
\* control has left the code, an operand is not there (the words below belong
\* to the arguments of the process), a PUSH or POP has no operand, memory
\* outside ram is accessed, RET finds something else than the address of code,
\* idiv divides by zero.
Faults ==
    \/ ~Inside(ir_code, pc)
    \/ Inside(ir_code, pc) /\ LET i == instruction IN
         \/ Len(stack) < Operands(i)
         \/ i.type \in {"PUSH", "POP"} /\ ~i.need_imm_arg /\ ~i.need_reg_arg /\ ~i.need_mem_arg
         \/ i.type \in {"PUSH", "POP"} /\ i.need_mem_arg /\ ~Addressed(i)
         \/ i.type = "RET" /\ stack # << >> /\ Head(stack).kind # "code"
         \/ i.type = "DIV" /\ stack # << >> /\ Head(stack) = Num(0)
         \/ i.type \in Unsupported

Executed(types) == Executes(types) /\ ~Faults
Next_pc == pc' = pc + 1

Fault == /\ state = "running" /\ Faults /\ state' = "fault"
         /\ UNCHANGED << ir_code, pc, stack, ram, regs, input, out >>

push_ ==
    /\ Executed({"PUSH"}) /\ Next_pc
    /\ LET i == instruction
           w == IF i.need_mem_arg THEN Load(ram, Address(i))
                ELSE IF i.need_reg_arg THEN regs[i.reg_num]
                ELSE Num(i.imm_arg * FIXED_PRECISION_MULTIPLIER)
       IN  stack' = << w >> \o stack
    /\ UNCHANGED << ir_code, ram, regs, input, out, state >>

pop_ ==
    /\ Executed({"POP"}) /\ Next_pc
    /\ LET i == instruction
       IN  IF i.need_mem_arg THEN ram' = Store(ram, Address(i), Head(stack)) /\ UNCHANGED regs
           ELSE regs' = [regs EXCEPT ![i.reg_num] = Head(stack)] /\ UNCHANGED ram
    /\ stack' = Tail(stack)
    /\ UNCHANGED << ir_code, input, out, state >>

Result(type, a, b) ==
    IF a.kind = "num" /\ b.kind = "num" THEN Num(Arithmetic(type, a.v, b.v)) ELSE Undetermined

Lost(type, a, b) ==
    IF a.kind = "num" /\ b.kind = "num" THEN Num(RemainderOf(type, a.v, b.v)) ELSE Undetermined

\* rax keeps the second operand, or the result; a product or a quotient leaves
\* 100 in rcx and a remainder in rdx.
arithmetic ==
    /\ Executed({"ADD", "SUB", "MUL", "DIV"}) /\ Next_pc
    /\ LET additive == instruction.type \in {"ADD", "SUB"}
           result == Result(instruction.type, stack[2], stack[1])
       IN  /\ stack' = << result >> \o SubSeq(stack, 3, Len(stack))
           /\ regs' = IF additive THEN [regs EXCEPT ![0] = stack[1]]
                      ELSE [regs EXCEPT ![0] = result, ![1] = Num(FIXED_PRECISION_MULTIPLIER),
                                        ![2] = Lost(instruction.type, stack[2], stack[1])]
    /\ UNCHANGED << ir_code, ram, input, out, state >>

\* A call of the library: rbx (and r8, which is saved) survive it, and rcx at most.
Clobbered(result) == [regs EXCEPT ![0] = result, ![1] = Undetermined, ![2] = Undetermined]

UnscaledInput ==
    /\ Executed({"INP"}) /\ Next_pc
    /\ \E v \in {w \div FIXED_PRECISION_MULTIPLIER : w \in InputValues} :
          stack' = << Num(v) >> \o stack /\ regs' = Clobbered(Num(v)) /\ input' = Append(input, v)
    /\ UNCHANGED << ir_code, ram, out, state >>
INP ==
    /\ Executed({"INP"}) /\ Next_pc
    /\ \E v \in InputValues :
          stack' = << Num(v) >> \o stack /\ regs' = Clobbered(Num(v)) /\ input' = Append(input, v)
    /\ UNCHANGED << ir_code, ram, out, state >>

\* What is printed of a word that is not a number is not told.
Shown(w) == IF w.kind = "num" THEN w ELSE Undetermined
OUT ==
    /\ Executed({"OUT"}) /\ Next_pc
    /\ out' = Append(out, Shown(Head(stack))) /\ stack' = Tail(stack) /\ regs' = Clobbered(Undetermined)
    /\ UNCHANGED << ir_code, ram, input, state >>

SQRT ==
    /\ Executed({"SQRT"}) /\ Next_pc
    /\ LET root == IF Head(stack).kind = "num" THEN Num(sqrt_asm(Head(stack).v)) ELSE Undetermined
       IN  stack' = << root >> \o Tail(stack) /\ regs' = [regs EXCEPT ![0] = root]
    /\ UNCHANGED << ir_code, ram, input, out, state >>

HALT ==
    /\ Executed({"HALT"}) /\ state' = "exit"
    /\ UNCHANGED << ir_code, pc, stack, ram, regs, input, out >>

\* The target goes through rax.
jmp_or_call ==
    /\ Executed({"JMP", "CALL"})
    /\ pc' = instruction.imm_arg
    /\ regs' = [regs EXCEPT ![0] = Code(instruction.imm_arg)]
    /\ stack' = IF instruction.type = "CALL" THEN << Code(pc + 1) >> \o stack ELSE stack
    /\ UNCHANGED << ir_code, ram, input, out, state >>

RET ==
    /\ Executed({"RET"})
    /\ pc' = Head(stack).v /\ stack' = Tail(stack)
    /\ UNCHANGED << ir_code, ram, regs, input, out, state >>

cond_jmp ==
    /\ Executed(Jumps)
    /\ LET a == stack[2]
           b == stack[1]
       IN  /\ \E taken \in (IF a.kind = "num" /\ b.kind = "num"
                            THEN {Compares(instruction.type, a.v, b.v)} ELSE BOOLEAN) :
                 pc' = IF taken THEN instruction.imm_arg ELSE pc + 1
           /\ regs' = [regs EXCEPT ![0] = a, ![1] = b]
    /\ stack' = SubSeq(stack, 3, Len(stack))
    /\ UNCHANGED << ir_code, ram, input, out, state >>

MachineNext == \/ Fault \/ push_ \/ pop_ \/ arithmetic \/ INP \/ OUT \/ SQRT \/ HALT
               \/ jmp_or_call \/ RET \/ cond_jmp

MachineSpec == MachineInit /\ [][MachineNext]_machine
=============================================================================
