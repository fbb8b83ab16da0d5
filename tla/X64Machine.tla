----------------------------- MODULE X64Machine -----------------------------
(***************************************************************************)
(* A compiled program on the processor.  X64Emitter translates the IR;     *)
(* then the bytes in exec_buf are executed, one x64 instruction per step,  *)
(* decoded by X64Bits, at the addresses where the second pass has put      *)
(* them.  The functions of the library are one step each (Stdlib).         *)
(*                                                                         *)
(* The program is shown to implement IrMachine: what happens between two   *)
(* groups is a step of one IR instruction, and the words that the groups   *)
(* leave to each other are those of the IR.                                *)
(***************************************************************************)
EXTENDS X64Emitter, X64Bits, Words, Stdlib

CONSTANTS RAMSIZE,   \* 4096 in the source
          Typed      \* what a user may type: [line, number], the line and what is meant

ASSUME RamSizeAssumption == RAMSIZE \in Nat
ASSUME TypedAssumption ==
    \A t \in Typed : /\ t.number \in Int /\ t.line \in Seq(0 .. 255) /\ Len(t.line) \in 2 .. 63
                      /\ t.line[Len(t.line)] = Newline

VARIABLES
    rip,            \* 0 before the program is started
    regs,           \* of the processor
    stack,          \* the top is the head
    ram,            \* what ram_addr points to
    flags,          \* the two words that were compared last
    typed, printed, \* what the user has typed, and read
    state,          \* "running", "exit", "fault"
    seen            \* history: the program when it was last between two groups

processor == << rip, regs, stack, ram, flags, typed, printed, state, seen >>
all       == << vars, processor >>
-----------------------------------------------------------------------------
\* The IR instruction whose group begins at an address; behind the last one
\* there is the index that it would have.
GroupsAt(a) == {e \in DOMAIN text : base_addr + text[e].at = a /\ text[e].k = 1 /\ text[e].cur > 0}
CodeEnd     == base_addr + exec_buf_size
AtGroup(a)  == GroupsAt(a) # {} \/ a = CodeEnd
IndexAt(a)  == IF a = CodeEnd THEN Len(ir) ELSE text[CHOOSE e \in GroupsAt(a) : TRUE].cur - 1

AsIr(w) == IF w.kind # "code" THEN w ELSE IF AtGroup(w.v) THEN Code(IndexAt(w.v)) ELSE Undetermined
Output(p) == IF p = << >> THEN Undetermined ELSE Num(Denotes(p))
Snapshot ==
    [pc |-> IndexAt(rip), ram |-> [a \in DOMAIN ram |-> AsIr(ram[a])],
     stack |-> [i \in DOMAIN stack |-> AsIr(stack[i])],
     regs  |-> [r \in 0 .. 3 |-> AsIr(regs[r])],
     input |-> [i \in DOMAIN typed |-> FIXED_PRECISION_MULTIPLIER * typed[i].number],
     out   |-> [i \in DOMAIN printed |-> Output(printed[i])]]

MachineInit ==
    /\ Init
    /\ rip = 0 /\ regs = [r \in REG_NUMBERS |-> Undetermined] /\ stack = << >>
    /\ ram = [a \in {} |-> Num(0)] /\ flags = << Undetermined, Undetermined >>
    /\ typed = << >> /\ printed = << >> /\ state = "running"
    /\ seen = [pc |-> 0, ram |-> ram, stack |-> stack, regs |-> [r \in 0 .. 3 |-> Undetermined],
               input |-> << >>, out |-> << >>]

Compile == status = "running" /\ Next /\ UNCHANGED processor

\* execute calls the buffer; the kernel jumps to e_entry.
execute ==
    /\ status = "OK" /\ rip = 0 /\ rip' = base_addr
    /\ UNCHANGED << vars, regs, stack, ram, flags, typed, printed, state, seen >>
-----------------------------------------------------------------------------
\* What is at an address: the instruction as it is read, with its immediate,
\* whether that is the address of code, and where the next one is.
WhatIs(d, e) == [op |-> d.op, to |-> d.to, from |-> d.from, imm |-> e.x.imm,
                 is_code |-> e.x.fix = "abs", next |-> rip + WrittenBytes(e.x)]
Fetched ==
    LET here == {e \in DOMAIN text : base_addr + text[e].at = rip}
    IN  IF here = {} THEN WhatIs(Garbage, [x |-> X("none", "none", {})])
        ELSE LET e == text[CHOOSE e \in here : TRUE]
                 d == decode(Head_(e.x))
             IN  WhatIs(IF d.size = ImmSize(e.x) THEN d ELSE Garbage, e)

Numbers2(a, b) == a.kind = "num" /\ b.kind = "num"
Reads(i)  == i.op \in {"POP_reg", "POP_mem", "ADD_mem_reg", "SUB_mem_reg", "RET"}
Offset(i) == regs[i.to].v + (IF i.from = NoReg THEN 0 ELSE regs[i.from].v) + i.imm - ram_addr
InRam(i)  == /\ regs[i.to].kind = "num" /\ (i.from # NoReg => regs[i.from].kind = "num")
             /\ Offset(i) \in 0 .. RAMSIZE - QWORD

\* The process is killed, or does what the code does not tell: no instruction
\* begins there; nothing is left on the stack (but the arguments of the
\* process); memory that is not ram; an address of code that is none.
Faulty(i) ==
    \/ i.op = "none"
    \/ Reads(i) /\ stack = << >>
    \/ i.op \in {"ADD_mem_reg", "SUB_mem_reg"} /\ i.to # REGS.RSP
    \/ i.op \in MemOps /\ ~InRam(i)
    \/ i.op = "RET" /\ stack # << >> /\ Head(stack).kind # "code"
    \/ i.op = "IDIV_reg" /\ regs[i.to] = Num(0)

Fault(i) == /\ Faulty(i) /\ state' = "fault"
            /\ UNCHANGED << rip, regs, stack, ram, flags, typed, printed >>

Step(i, ops) == i.op \in ops /\ ~Faulty(i) /\ rip' = i.next
                /\ UNCHANGED << typed, printed, state >>

Push(i) ==
    /\ Step(i, {"PUSH_imm", "PUSH_reg", "PUSH_mem"})
    /\ stack' = << CASE i.op = "PUSH_imm" -> Num(i.imm) [] i.op = "PUSH_reg" -> regs[i.to]
                     [] i.op = "PUSH_mem" -> Load(ram, Offset(i)) >> \o stack
    /\ UNCHANGED << regs, ram, flags >>

PopReg(i) ==
    /\ Step(i, {"POP_reg"})
    /\ regs' = [regs EXCEPT ![i.to] = Head(stack)] /\ stack' = Tail(stack)
    /\ UNCHANGED << ram, flags >>

PopMem(i) ==
    /\ Step(i, {"POP_mem"})
    /\ ram' = Store(ram, Offset(i), Head(stack)) /\ stack' = Tail(stack)
    /\ UNCHANGED << regs, flags >>

AddSub(i) ==
    /\ Step(i, {"ADD_mem_reg", "SUB_mem_reg"})
    /\ LET a == Head(stack)
           b == regs[i.from]
       IN  stack' = << IF ~Numbers2(a, b) THEN Undetermined
                       ELSE Num(IF i.op = "ADD_mem_reg" THEN a.v + b.v ELSE a.v - b.v) >> \o Tail(stack)
    /\ flags' = << Undetermined, Undetermined >>
    /\ UNCHANGED << regs, ram >>

Mov(i) ==
    /\ Step(i, {"MOV_reg_imm64", "MOV_reg_imm32"})
    /\ regs' = [regs EXCEPT ![i.to] = IF i.is_code THEN Code(i.imm) ELSE Num(i.imm)]
    /\ UNCHANGED << stack, ram, flags >>

\* rdx:rax, as far as it is the extension of a number in rax.
High(w)  == IF w.kind = "num" THEN Num(IF w.v < 0 THEN -1 ELSE 0) ELSE Undetermined
Wide(w)  == [regs EXCEPT ![REGS.RAX] = w, ![REGS.RDX] = High(w)]
IsWide   == regs[REGS.RAX].kind = "num" /\ regs[REGS.RDX] = High(regs[REGS.RAX])

MulDiv(i) ==
    /\ Step(i, {"CQO", "IMUL_reg", "IDIV_reg"})
    /\ LET a == regs[REGS.RAX]
           b == regs[i.to]
       IN  regs' = CASE i.op = "CQO" -> Wide(a)
                     [] i.op = "IMUL_reg" -> Wide(IF Numbers2(a, b) THEN Num(a.v * b.v) ELSE Undetermined)
                     [] i.op = "IDIV_reg" ->
                          IF IsWide /\ b.kind = "num"
                          THEN [regs EXCEPT ![REGS.RAX] = Num(Quotient(a.v, b.v)),
                                            ![REGS.RDX] = Num(Remainder(a.v, b.v))]
                          ELSE [regs EXCEPT ![REGS.RAX] = Undetermined, ![REGS.RDX] = Undetermined]
    /\ flags' = << Undetermined, Undetermined >>
    /\ UNCHANGED << stack, ram >>

Cmp(i) ==
    /\ Step(i, {"CMP_reg_reg"})
    /\ flags' = << regs[i.to], regs[i.from] >>
    /\ UNCHANGED << regs, stack, ram >>

\* The signed comparisons.
Holds(op, a, b) ==
    CASE op = "JE_imm" -> a = b [] op = "JNE_imm"  -> a # b [] op = "JG_imm"  -> a > b
      [] op = "JNL_imm" -> a >= b [] op = "JNGE_imm" -> a < b [] op = "JNG_imm" -> a <= b

Jcc(i) ==
    /\ i.op \in CondOps
    /\ \E taken \in IF Numbers2(flags[1], flags[2])
                    THEN {Holds(i.op, flags[1].v, flags[2].v)} ELSE BOOLEAN :
          rip' = IF taken THEN i.next + i.imm ELSE i.next
    /\ UNCHANGED << regs, stack, ram, flags, typed, printed, state >>

Jump(i) ==
    /\ i.op \in {"JMP_reg", "CALL_reg"}
    /\ rip' = regs[i.to].v
    /\ stack' = IF i.op = "CALL_reg" THEN << Code(i.next) >> \o stack ELSE stack
    /\ UNCHANGED << regs, ram, flags, typed, printed, state >>

Ret(i) ==
    /\ i.op = "RET" /\ ~Faulty(i)
    /\ rip' = Head(stack).v /\ stack' = Tail(stack)
    /\ UNCHANGED << regs, ram, flags, typed, printed, state >>
-----------------------------------------------------------------------------
\* A function of the library, with its return.  The registers it does not save
\* and the kernel's are lost: rcx, rdx, rsi, rdi, r8 to r11.
Lost   == {REGS.RCX, REGS.RDX, 6, REGS.RDI, REGS.R8, 9, 10, 11}
Returns(lost, result) ==
    /\ rip' = Head(stack).v /\ stack' = Tail(stack)
    /\ regs' = [r \in REG_NUMBERS |-> IF r = REGS.RAX THEN result
                                      ELSE IF r \in lost THEN Undetermined ELSE regs[r]]
    /\ UNCHANGED << ram, flags, state >>

stdlib_inp ==
    /\ rip = LibAddr["INP"]
    /\ \E t \in Typed : typed' = Append(typed, t) /\ Returns(Lost \ {REGS.R8}, Num(input_asm(t.line)))
    /\ UNCHANGED printed

stdlib_out ==
    /\ rip = LibAddr["OUT"]
    /\ LET arg == regs[REGS.RDI]
       IN  printed' = Append(printed, IF arg.kind = "num" THEN output_asm(arg.v) ELSE << >>)
    /\ Returns(Lost, Undetermined)
    /\ UNCHANGED typed

stdlib_sqrt ==
    /\ rip = LibAddr["SQRT"]
    /\ LET arg == regs[REGS.RDI]
       IN  Returns({REGS.RDI}, IF arg.kind = "num" THEN Num(sqrt_asm(arg.v)) ELSE Undetermined)
    /\ UNCHANGED << typed, printed >>

stdlib_halt == /\ rip = LibAddr["HALT"] /\ state' = "exit"
               /\ UNCHANGED << rip, regs, stack, ram, flags, typed, printed >>

Library == {LibAddr[f] : f \in LibFuncs}

Execute ==
    /\ status = "OK" /\ state = "running" /\ rip # 0
    /\ \/ /\ rip \notin Library
          /\ LET i == Fetched
             IN  \/ Fault(i) \/ Push(i) \/ PopReg(i) \/ PopMem(i) \/ AddSub(i) \/ Mov(i)
                 \/ MulDiv(i) \/ Cmp(i) \/ Jcc(i) \/ Jump(i) \/ Ret(i)
       \/ stdlib_inp \/ stdlib_out \/ stdlib_sqrt \/ stdlib_halt
    /\ UNCHANGED vars
    /\ seen' = IF state' = "running" /\ AtGroup(rip') THEN Snapshot' ELSE seen

Stopped == (status \notin {"running", "OK"} \/ state # "running") /\ UNCHANGED all

MachineNext == Compile \/ execute \/ Execute \/ Stopped
MachineSpec == MachineInit /\ [][MachineNext]_all
-----------------------------------------------------------------------------
\* The types of the machine.  The processor is never sent anywhere but to the
\* code that was written, its end, or the library.
MachineTypeOK ==
    /\ rip \in {0, CodeEnd} \cup {base_addr + text[e].at : e \in DOMAIN text} \cup Library
    /\ regs \in [REG_NUMBERS -> Words] /\ stack \in Seq(Words)
    /\ \A a \in DOMAIN ram : a \in 0 .. RAMSIZE - QWORD /\ ram[a] \in Words
    /\ flags \in Words \X Words /\ typed \in Seq(Typed)
    /\ state \in {"running", "exit", "fault"}

\* Between two groups r8 points to ram, whatever the library has done to it.
RamPointerKept ==
    state = "running" /\ rip > base_addr /\ AtGroup(rip) => regs[REGS.R8] = Num(ram_addr)

\* The translation, its bytes, the processor and the library do together what
\* the IR says: input is what was typed, output what a reader makes of it.
Ir == INSTANCE IrMachine WITH
    ir_code <- ir, pc <- seen.pc, stack <- seen.stack, ram <- seen.ram, regs <- seen.regs,
    input <- seen.input, out <- seen.out,
    InputValues <- {FIXED_PRECISION_MULTIPLIER * t.number : t \in Typed}
ExecutesIr == Ir!MachineSpec

\* What is printed can be read as a number, with two decimal digits.
OutputReadable == \A i \in DOMAIN printed : printed[i] # << >> => Readable(printed[i])
=============================================================================
