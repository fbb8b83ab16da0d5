----------------------- MODULE CompiledProgramProofs ------------------------
(***************************************************************************)
(* Theorems about a program from its tree to its output, for every set of  *)
(* trees, every size of ram and whatever the user types: the types, while  *)
(* it is compiled and while it runs, and the discipline of the stack, by   *)
(* which every call comes back to its caller.                              *)
(***************************************************************************)
EXTENDS CompiledProgram, StackTypeProofs

Calls == [ret : Nat, depth : Nat, frame : Machine!Words]

\* The invariant of the composition: what is compiled, and what runs it.
RunInv == TypeInv /\ Machine!MachineTypeOK /\ calls \in Seq(Calls)
-----------------------------------------------------------------------------
(* Words and numbers.                                                      *)

LEMMA WordFields ==
    ASSUME NEW w \in Machine!Words
    PROVE  w.kind \in {"num", "code", "undetermined"} /\ w.v \in Int
  BY DEF Machine!Words

LEMMA WordsMade ==
    /\ \A n \in Int : Machine!Num(n) \in Machine!Words /\ Machine!Code(n) \in Machine!Words
    /\ Machine!Undetermined \in Machine!Words
  BY DEF Machine!Words, Machine!Num, Machine!Code, Machine!Undetermined

\* A divisor that is not the number zero, of a word that is a number.
LEMMA NotZero ==
    ASSUME NEW w \in Machine!Words, w.kind = "num", w # Machine!Num(0)
    PROVE  w.v # 0
  BY DEF Machine!Words, Machine!Num

LEMMA QuotientInt ==
    ASSUME NEW a \in Int, NEW b \in Int, b # 0
    PROVE  Machine!Quotient(a, b) \in Int /\ Machine!Remainder(a, b) \in Int
  <1> DEFINE n == Machine!Magnitude_(a)
             m == Machine!Magnitude_(b)
             q == n \div m
  <1>1. n \in Int /\ m \in Int /\ m > 0
    BY DEF Machine!Magnitude_
  <1>2. q \in Int
    <2> HIDE DEF n, m
    <2> QED
      BY <1>1
  <1>3. Machine!Quotient(a, b) = IF (a < 0) = (b < 0) THEN q ELSE -q
    BY DEF Machine!Quotient
  <1> HIDE DEF q, n, m
  <1>4. Machine!Quotient(a, b) \in Int
    BY <1>2, <1>3
  <1> QED
    BY <1>4 DEF Machine!Remainder

\* There is a root to choose.
LEMMA RootExists ==
    ASSUME NEW a \in Nat
    PROVE  \E r \in 0 .. a : r * r <= a /\ (r + 1) * (r + 1) > a
  <1> DEFINE above == {r \in Nat : (r + 1) * (r + 1) > a}
  <1>1. \A r : r \in above <=> r \in Nat /\ (r + 1) * (r + 1) > a
    OBVIOUS
  <1>2. a \in above
    <2>1. (a + 1) * (a + 1) = a * a + 2 * a + 1 /\ a * a >= 0
      OBVIOUS
    <2>2. (a + 1) * (a + 1) > a
      BY <2>1
    <2> QED
      BY <2>2
  <1>3. above \subseteq Nat
    OBVIOUS
  <1> HIDE DEF above
  <1>4. PICK m \in above : \A i \in above : m <= i
    BY <1>2, <1>3, LeastMember
  <1>5. m \in Nat /\ m <= a /\ (m + 1) * (m + 1) > a
    BY <1>1, <1>2, <1>4
  <1>6. m * m <= a
    <2>1. CASE m = 0
      BY <2>1
    <2>2. CASE m # 0
      <3>1. m - 1 \in Nat /\ (m - 1) + 1 = m /\ ~(m <= m - 1)
        BY <1>5, <2>2
      <3>2. ~(((m - 1) + 1) * ((m - 1) + 1) > a)
        BY <1>1, <1>4, <3>1
      <3>3. ~(m * m > a) /\ m * m \in Int
        BY <1>5, <3>1, <3>2
      <3> QED
        BY <3>3
    <2> QED
      BY <2>1, <2>2
  <1> QED
    BY <1>5, <1>6

LEMMA RootInt == ASSUME NEW a \in Int PROVE Machine!sqrt_asm(a) \in Int
  <1>1. CASE a < 0
    BY <1>1 DEF Machine!sqrt_asm
  <1>2. CASE ~(a < 0)
    <2> DEFINE root == CHOOSE r \in 0 .. a : r * r <= a /\ (r + 1) * (r + 1) > a
    <2>1. a \in Nat
      BY <1>2
    <2>2. root \in 0 .. a
      BY <2>1, RootExists
    <2>3. Machine!sqrt_asm(a) = 10 * root
      BY <1>2 DEF Machine!sqrt_asm
    <2> HIDE DEF root
    <2> QED
      BY <2>2, <2>3
  <1> QED
    BY <1>1, <1>2
-----------------------------------------------------------------------------
(* The instruction that is executed, and its operands.                     *)

LEMMA InstructionFields ==
    ASSUME NEW i \in Instr
    PROVE  /\ i.type \in InstrTypes /\ i.reg_num \in 0 .. 3 /\ i.imm_arg \in Int
           /\ i.need_imm_arg \in BOOLEAN /\ i.need_reg_arg \in BOOLEAN /\ i.need_mem_arg \in BOOLEAN
  BY DEF Instr

LEMMA InstructionTyped ==
    ASSUME RunInv, Machine!Inside(ir_code, pc)
    PROVE  Machine!instruction \in Instr /\ pc \in Nat /\ pc + 1 \in Nat
  <1>1. ir_code \in Seq(Instr)
    BY DEF RunInv, TypeInv, TypeOK
  <1>2. pc \in 0 .. Len(ir_code) - 1 /\ Len(ir_code) \in Nat
    BY <1>1 DEF Machine!Inside
  <1>3. pc + 1 \in 1 .. Len(ir_code)
    BY <1>2
  <1>4. ir_code[pc + 1] \in Instr
    BY <1>1, <1>3
  <1> QED
    BY <1>2, <1>4 DEF Machine!instruction, Machine!At

\* What an action finds when its instruction is executed, and does not fault.
LEMMA Found ==
    ASSUME RunInv, NEW types, Machine!Executed(types)
    PROVE  /\ Machine!instruction \in Instr /\ Machine!instruction.type \in types
           /\ pc \in Nat /\ pc + 1 \in Nat /\ Machine!Inside(ir_code, pc)
           /\ Len(stack) \in Nat /\ Len(stack) >= Machine!Operands(Machine!instruction)
           /\ Machine!instruction.type \in {"PUSH", "POP"} /\ Machine!instruction.need_mem_arg
                 => Machine!Addressed(Machine!instruction)
           /\ Machine!instruction.type = "DIV" /\ stack # << >> => Head(stack) # Machine!Num(0)
  <1>1. Machine!Executes(types) /\ ~Machine!Faults
    BY DEF Machine!Executed
  <1>2. Machine!Inside(ir_code, pc) /\ Machine!instruction.type \in types
    BY <1>1 DEF Machine!Executes
  <1>3. stack \in Seq(Machine!Words) /\ Len(stack) \in Nat
    BY DEF RunInv, Machine!MachineTypeOK
  <1>4. Machine!Operands(Machine!instruction) \in Nat
    BY DEF Machine!Operands
  <1>5. ~(Len(stack) < Machine!Operands(Machine!instruction))
    BY <1>1, <1>2 DEF Machine!Faults
  <1>6. /\ Machine!instruction.type \in {"PUSH", "POP"} /\ Machine!instruction.need_mem_arg
              => Machine!Addressed(Machine!instruction)
        /\ Machine!instruction.type = "DIV" /\ stack # << >> => Head(stack) # Machine!Num(0)
    BY <1>1, <1>2 DEF Machine!Faults
  <1> DEFINE n == Len(stack)
             m == Machine!Operands(Machine!instruction)
  <1>7. n >= m
    <2>1. n \in Nat /\ m \in Nat /\ ~(n < m)
      BY <1>3, <1>4, <1>5
    <2> HIDE DEF n, m
    <2> QED
      BY <2>1
  <1> QED
    BY <1>2, <1>3, <1>6, <1>7, InstructionTyped

LEMMA OneOperand ==
    ASSUME RunInv, Len(stack) >= 1
    PROVE  /\ stack # << >> /\ Head(stack) \in Machine!Words /\ stack[1] = Head(stack)
           /\ Tail(stack) \in Seq(Machine!Words)
  BY DEF RunInv, Machine!MachineTypeOK

LEMMA TwoOperands ==
    ASSUME RunInv, Len(stack) >= 2
    PROVE  /\ stack # << >> /\ stack[1] = Head(stack)
           /\ stack[1] \in Machine!Words /\ stack[2] \in Machine!Words
           /\ SubSeq(stack, 3, Len(stack)) \in Seq(Machine!Words)
  <1>1. stack \in Seq(Machine!Words) /\ Len(stack) \in Nat
    BY DEF RunInv, Machine!MachineTypeOK
  <1>2. \A j \in 3 .. Len(stack) : stack[j] \in Machine!Words
    BY <1>1
  <1> QED
    BY <1>1, <1>2

LEMMA PushTyped ==
    ASSUME NEW T, NEW w \in T, NEW s \in Seq(T)
    PROVE  << w >> \o s \in Seq(T)
  OBVIOUS

LEMMA OneRegister ==
    ASSUME RunInv, NEW v \in Machine!Words, NEW r \in 0 .. 3
    PROVE  [regs EXCEPT ![r] = v] \in [0 .. 3 -> Machine!Words]
  BY DEF RunInv, Machine!MachineTypeOK

LEMMA Rax ==
    ASSUME RunInv, NEW v \in Machine!Words
    PROVE  [regs EXCEPT ![0] = v] \in [0 .. 3 -> Machine!Words]
  BY OneRegister

LEMMA RaxRcx ==
    ASSUME RunInv, NEW v \in Machine!Words, NEW w \in Machine!Words
    PROVE  [regs EXCEPT ![0] = v, ![1] = w] \in [0 .. 3 -> Machine!Words]
  BY DEF RunInv, Machine!MachineTypeOK

LEMMA RaxRcxRdx ==
    ASSUME RunInv, NEW v \in Machine!Words, NEW w \in Machine!Words, NEW x \in Machine!Words
    PROVE  [regs EXCEPT ![0] = v, ![1] = w, ![2] = x] \in [0 .. 3 -> Machine!Words]
  BY DEF RunInv, Machine!MachineTypeOK

\* Two copies of module Ir, with the same instructions.
LEMMA SameInstr == Machine!Instr = Instr
  BY DEF Machine!Instr, Instr, Machine!InstrTypes, InstrTypes, Machine!Encodable, Encodable,
         Machine!Unsupported, Unsupported, Machine!Jumps, Jumps

\* A conjunct at a time: what the machine has to have at the end of a step.
LEMMA Assembled ==
    ASSUME ir_code' \in Seq(Instr), pc' \in Int, stack' \in Seq(Machine!Words),
           \A a \in DOMAIN ram' : a \in Int /\ ram'[a] \in Machine!Words,
           regs' \in [0 .. 3 -> Machine!Words], input' \in Seq(InputValues),
           out' \in Seq(Machine!Words), state' \in {"running", "exit", "fault"}
    PROVE  Machine!MachineTypeOK'
  BY SameInstr DEF Machine!MachineTypeOK

\* ... and what it has before.
LEMMA Typed ==
    ASSUME RunInv
    PROVE  /\ ir_code \in Seq(Instr) /\ pc \in Int /\ stack \in Seq(Machine!Words)
           /\ \A a \in DOMAIN ram : a \in Int /\ ram[a] \in Machine!Words
           /\ regs \in [0 .. 3 -> Machine!Words] /\ input \in Seq(InputValues)
           /\ out \in Seq(Machine!Words) /\ state \in {"running", "exit", "fault"}
  BY SameInstr DEF RunInv, Machine!MachineTypeOK
-----------------------------------------------------------------------------
(* The steps of the machine.                                               *)

LEMMA AddressInt ==
    ASSUME RunInv, NEW i \in Instr PROVE Machine!Address(i) \in Int
  <1>1. i.imm_arg \in Int /\ i.reg_num \in 0 .. 3 /\ i.need_reg_arg \in BOOLEAN
    BY InstructionFields
  <1>2. regs[i.reg_num] \in Machine!Words
    BY <1>1, Typed
  <1> DEFINE v == regs[i.reg_num].v
             m == i.imm_arg
  <1>3. v \in Int /\ m \in Int
    BY <1>1, <1>2, WordFields
  <1>4. Machine!Address(i) = 8 * m + (IF i.need_reg_arg THEN v ELSE 0)
    BY DEF Machine!Address, Machine!QWORD
  <1> HIDE DEF v, m
  <1> QED
    BY <1>3, <1>4

LEMMA LoadTyped ==
    ASSUME RunInv, NEW a PROVE Machine!Load(ram, a) \in Machine!Words
  <1>1. Machine!Num(0) \in Machine!Words /\ Machine!Undetermined \in Machine!Words
    BY WordsMade
  <1> QED
    BY <1>1, Typed DEF Machine!Load

LEMMA StoreTyped ==
    ASSUME RunInv, NEW a \in Int, NEW w \in Machine!Words
    PROVE  \A b \in DOMAIN Machine!Store(ram, a, w) :
              b \in Int /\ Machine!Store(ram, a, w)[b] \in Machine!Words
  BY Typed DEF Machine!Store

LEMMA PushStep == ASSUME RunInv, Machine!push_ PROVE Machine!MachineTypeOK'
  <1> DEFINE i == Machine!instruction
             w == IF i.need_mem_arg THEN Machine!Load(ram, Machine!Address(i))
                  ELSE IF i.need_reg_arg THEN regs[i.reg_num]
                  ELSE Machine!Num(i.imm_arg * Machine!FIXED_PRECISION_MULTIPLIER)
  <1>1. Machine!Executed({"PUSH"}) /\ stack' = << w >> \o stack /\ pc' = pc + 1
        /\ UNCHANGED << ir_code, ram, regs, input, out, state >>
    BY DEF Machine!push_, Machine!Next_pc
  <1>2. i \in Instr /\ pc + 1 \in Nat
    BY <1>1, Found
  <1>3. w \in Machine!Words
    <2>1. regs[i.reg_num] \in Machine!Words
      BY <1>2, Typed, InstructionFields
    <2>2. i.imm_arg * Machine!FIXED_PRECISION_MULTIPLIER \in Int
      BY <1>2, InstructionFields DEF Machine!FIXED_PRECISION_MULTIPLIER
    <2>3. Machine!Num(i.imm_arg * Machine!FIXED_PRECISION_MULTIPLIER) \in Machine!Words
      BY <2>2, WordsMade
    <2> QED
      BY <2>1, <2>3, LoadTyped
  <1> HIDE DEF w, i
  <1>4. stack' \in Seq(Machine!Words)
    BY <1>1, <1>3, Typed, PushTyped
  <1> QED
    BY <1>1, <1>2, <1>4, Typed, Assembled

LEMMA PopStep == ASSUME RunInv, Machine!pop_ PROVE Machine!MachineTypeOK'
  <1> DEFINE i == Machine!instruction
             w == Head(stack)
  <1>1. /\ Machine!Executed({"POP"}) /\ stack' = Tail(stack) /\ pc' = pc + 1
        /\ UNCHANGED << ir_code, input, out, state >>
        /\ IF i.need_mem_arg THEN ram' = Machine!Store(ram, Machine!Address(i), w) /\ UNCHANGED regs
           ELSE regs' = [regs EXCEPT ![i.reg_num] = w] /\ UNCHANGED ram
    BY DEF Machine!pop_, Machine!Next_pc
  <1>2. i \in Instr /\ i.type = "POP" /\ pc + 1 \in Nat /\ Len(stack) >= Machine!Operands(i)
    BY <1>1, Found
  <1>3. Machine!Operands(i) = 1
    BY <1>2 DEF Machine!Operands, Machine!Jumps
  <1>4. w \in Machine!Words /\ Tail(stack) \in Seq(Machine!Words)
    BY <1>2, <1>3, OneOperand
  <1>5. \A a \in DOMAIN ram' : a \in Int /\ ram'[a] \in Machine!Words
    <2>1. Machine!Address(i) \in Int
      BY <1>2, AddressInt
    <2> QED
      BY <1>1, <1>4, <2>1, Typed, StoreTyped
  <1>6. regs' \in [0 .. 3 -> Machine!Words]
    BY <1>1, <1>2, <1>4, Typed, OneRegister, InstructionFields
  <1> HIDE DEF w, i
  <1> QED
    BY <1>1, <1>2, <1>4, <1>5, <1>6, Typed, Assembled

\* The results of arithmetic are words: nothing is divided by zero.
LEMMA ResultsTyped ==
    ASSUME NEW type \in {"ADD", "SUB", "MUL", "DIV"}, NEW a \in Machine!Words, NEW b \in Machine!Words,
           type = "DIV" => b # Machine!Num(0)
    PROVE  /\ Machine!Result(type, a, b) \in Machine!Words
           /\ type \in {"MUL", "DIV"} => Machine!Lost(type, a, b) \in Machine!Words
  <1>1. Machine!Undetermined \in Machine!Words
    BY WordsMade
  <1>2. CASE ~(a.kind = "num" /\ b.kind = "num")
    BY <1>1, <1>2 DEF Machine!Result, Machine!Lost
  <1>3. CASE a.kind = "num" /\ b.kind = "num"
    <2> DEFINE m == a.v
               n == b.v
    <2>1. m \in Int /\ n \in Int
      BY WordFields
    <2>2. type = "DIV" => n # 0
      BY <1>3, NotZero
    <2>3. /\ Machine!Result(type, a, b) = Machine!Num(Machine!Arithmetic(type, m, n))
          /\ Machine!Lost(type, a, b) = Machine!Num(Machine!RemainderOf(type, m, n))
      BY <1>3 DEF Machine!Result, Machine!Lost
    <2> HIDE DEF m, n
    <2>4. m * n \in Int /\ m * 100 \in Int /\ m + n \in Int /\ m - n \in Int
      BY <2>1
    <2>5. Machine!Arithmetic(type, m, n) \in Int
      <3>1. CASE type \in {"ADD", "SUB"}
        BY <2>4, <3>1 DEF Machine!Arithmetic
      <3>2. CASE type = "MUL"
        <4>1. Machine!Quotient(m * n, 100) \in Int
          BY <2>4, QuotientInt
        <4> QED
          BY <3>2, <4>1 DEF Machine!Arithmetic, Machine!FIXED_PRECISION_MULTIPLIER
      <3>3. CASE type = "DIV"
        <4>1. Machine!Quotient(m * 100, n) \in Int
          BY <2>1, <2>2, <2>4, <3>3, QuotientInt
        <4> QED
          BY <3>3, <4>1 DEF Machine!Arithmetic, Machine!FIXED_PRECISION_MULTIPLIER
      <3> QED
        BY <3>1, <3>2, <3>3
    <2>6. type \in {"MUL", "DIV"} => Machine!RemainderOf(type, m, n) \in Int
      <3>1. CASE type = "MUL"
        <4>1. Machine!Remainder(m * n, 100) \in Int
          BY <2>4, QuotientInt
        <4> QED
          BY <3>1, <4>1 DEF Machine!RemainderOf, Machine!FIXED_PRECISION_MULTIPLIER
      <3>2. CASE type = "DIV"
        <4>1. Machine!Remainder(m * 100, n) \in Int
          BY <2>1, <2>2, <2>4, <3>2, QuotientInt
        <4> QED
          BY <3>2, <4>1 DEF Machine!RemainderOf, Machine!FIXED_PRECISION_MULTIPLIER
      <3> QED
        BY <3>1, <3>2
    <2> QED
      BY <2>3, <2>5, <2>6, WordsMade
  <1> QED
    BY <1>2, <1>3
LEMMA ArithmeticStep == ASSUME RunInv, Machine!arithmetic PROVE Machine!MachineTypeOK'
  <1> DEFINE type == Machine!instruction.type
             w == Machine!Result(type, stack[2], stack[1])
             x == Machine!Lost(type, stack[2], stack[1])
             c == Machine!Num(Machine!FIXED_PRECISION_MULTIPLIER)
             rest == SubSeq(stack, 3, Len(stack))
  <1>1. /\ Machine!Executed({"ADD", "SUB", "MUL", "DIV"}) /\ pc' = pc + 1
        /\ stack' = << w >> \o rest
        /\ regs' = IF type \in {"ADD", "SUB"} THEN [regs EXCEPT ![0] = stack[1]]
                   ELSE [regs EXCEPT ![0] = w, ![1] = c, ![2] = x]
        /\ UNCHANGED << ir_code, ram, input, out, state >>
    BY DEF Machine!arithmetic, Machine!Next_pc
  <1>2. /\ type \in {"ADD", "SUB", "MUL", "DIV"} /\ pc + 1 \in Nat
        /\ Len(stack) >= Machine!Operands(Machine!instruction)
        /\ type = "DIV" /\ stack # << >> => Head(stack) # Machine!Num(0)
    BY <1>1, Found
  <1>3. Machine!Operands(Machine!instruction) = 2
    BY <1>2 DEF Machine!Operands
  <1>4. /\ stack # << >> /\ stack[1] = Head(stack)
        /\ stack[1] \in Machine!Words /\ stack[2] \in Machine!Words /\ rest \in Seq(Machine!Words)
    BY <1>2, <1>3, TwoOperands
  <1>5. type = "DIV" => stack[1] # Machine!Num(0)
    BY <1>2, <1>4
  <1> HIDE DEF type
  <1>6. w \in Machine!Words /\ (type \in {"MUL", "DIV"} => x \in Machine!Words)
    BY <1>2, <1>4, <1>5, ResultsTyped
  <1>7. c \in Machine!Words
    BY WordsMade DEF Machine!FIXED_PRECISION_MULTIPLIER
  <1> HIDE DEF w, x, c, rest
  <1>8. regs' \in [0 .. 3 -> Machine!Words]
    <2>1. CASE type \in {"ADD", "SUB"}
      BY <1>1, <1>4, <2>1, Rax
    <2>2. CASE type \in {"MUL", "DIV"}
      <3>1. x \in Machine!Words /\ ~(type \in {"ADD", "SUB"})
        BY <1>6, <2>2
      <3> QED
        BY <1>1, <1>6, <1>7, <3>1, RaxRcxRdx
    <2> QED
      BY <1>2, <2>1, <2>2
  <1>9. stack' \in Seq(Machine!Words)
    BY <1>1, <1>4, <1>6, PushTyped
  <1>10. pc' \in Int /\ UNCHANGED << ir_code, ram, input, out, state >>
    BY <1>1, <1>2
  <1> QED
    BY <1>8, <1>9, <1>10, Typed, Assembled

LEMMA ClobberedTyped ==
    ASSUME RunInv, NEW w \in Machine!Words
    PROVE  Machine!Clobbered(w) \in [0 .. 3 -> Machine!Words]
  BY WordsMade, RaxRcxRdx DEF Machine!Clobbered

LEMMA InpStep == ASSUME RunInv, Machine!INP PROVE Machine!MachineTypeOK'
  <1>1. PICK v \in InputValues :
           /\ stack' = << Machine!Num(v) >> \o stack /\ regs' = Machine!Clobbered(Machine!Num(v))
           /\ input' = Append(input, v)
    BY DEF Machine!INP
  <1>2. Machine!Executed({"INP"}) /\ pc' = pc + 1 /\ UNCHANGED << ir_code, ram, out, state >>
    BY DEF Machine!INP, Machine!Next_pc
  <1>3. pc + 1 \in Nat
    BY <1>2, Found
  <1>4. Machine!Num(v) \in Machine!Words
    BY InputAssumption, WordsMade
  <1>5. stack' \in Seq(Machine!Words) /\ regs' \in [0 .. 3 -> Machine!Words]
    BY <1>1, <1>4, Typed, PushTyped, ClobberedTyped
  <1>6. input' \in Seq(InputValues)
    BY <1>1, Typed
  <1> QED
    BY <1>2, <1>3, <1>5, <1>6, Typed, Assembled

LEMMA OutStep == ASSUME RunInv, Machine!OUT PROVE Machine!MachineTypeOK'
  <1> DEFINE w == Machine!Shown(Head(stack))
  <1>1. /\ Machine!Executed({"OUT"}) /\ pc' = pc + 1
        /\ out' = Append(out, w) /\ stack' = Tail(stack)
        /\ regs' = Machine!Clobbered(Machine!Undetermined)
        /\ UNCHANGED << ir_code, ram, input, state >>
    BY DEF Machine!OUT, Machine!Next_pc
  <1>2. /\ Machine!instruction.type = "OUT" /\ pc + 1 \in Nat
        /\ Len(stack) >= Machine!Operands(Machine!instruction)
    BY <1>1, Found
  <1>3. Machine!Operands(Machine!instruction) = 1
    BY <1>2 DEF Machine!Operands, Machine!Jumps
  <1>4. Head(stack) \in Machine!Words /\ Tail(stack) \in Seq(Machine!Words)
    BY <1>2, <1>3, OneOperand
  <1>5. w \in Machine!Words /\ Machine!Clobbered(Machine!Undetermined) \in [0 .. 3 -> Machine!Words]
    BY <1>4, WordsMade, ClobberedTyped DEF Machine!Shown
  <1> HIDE DEF w
  <1>6. out' \in Seq(Machine!Words)
    BY <1>1, <1>5, Typed
  <1> QED
    BY <1>1, <1>2, <1>4, <1>5, <1>6, Typed, Assembled

LEMMA SqrtStep == ASSUME RunInv, Machine!SQRT PROVE Machine!MachineTypeOK'
  <1> DEFINE w == IF Head(stack).kind = "num" THEN Machine!Num(Machine!sqrt_asm(Head(stack).v))
                  ELSE Machine!Undetermined
  <1>1. /\ Machine!Executed({"SQRT"}) /\ pc' = pc + 1
        /\ stack' = << w >> \o Tail(stack) /\ regs' = [regs EXCEPT ![0] = w]
        /\ UNCHANGED << ir_code, ram, input, out, state >>
    BY DEF Machine!SQRT, Machine!Next_pc
  <1>2. /\ Machine!instruction.type = "SQRT" /\ pc + 1 \in Nat
        /\ Len(stack) >= Machine!Operands(Machine!instruction)
    BY <1>1, Found
  <1>3. Machine!Operands(Machine!instruction) = 1
    BY <1>2 DEF Machine!Operands, Machine!Jumps
  <1>4. Head(stack) \in Machine!Words /\ Tail(stack) \in Seq(Machine!Words)
    BY <1>2, <1>3, OneOperand
  <1>5. w \in Machine!Words
    <2>1. Machine!sqrt_asm(Head(stack).v) \in Int
      BY <1>4, WordFields, RootInt
    <2> QED
      BY <2>1, WordsMade
  <1> HIDE DEF w
  <1>6. stack' \in Seq(Machine!Words) /\ regs' \in [0 .. 3 -> Machine!Words]
    BY <1>1, <1>4, <1>5, PushTyped, Rax
  <1> QED
    BY <1>1, <1>2, <1>6, Typed, Assembled

LEMMA JumpStep == ASSUME RunInv, Machine!jmp_or_call PROVE Machine!MachineTypeOK'
  <1> DEFINE i == Machine!instruction
             w == Machine!Code(i.imm_arg)
             back == Machine!Code(pc + 1)
  <1>1. /\ Machine!Executed({"JMP", "CALL"}) /\ pc' = i.imm_arg
        /\ regs' = [regs EXCEPT ![0] = w]
        /\ stack' = IF i.type = "CALL" THEN << back >> \o stack ELSE stack
        /\ UNCHANGED << ir_code, ram, input, out, state >>
    BY DEF Machine!jmp_or_call
  <1>2. i \in Instr /\ pc + 1 \in Int
    BY <1>1, Found
  <1>3. i.imm_arg \in Int /\ w \in Machine!Words /\ back \in Machine!Words
    BY <1>2, InstructionFields, WordsMade
  <1> HIDE DEF w, i, back
  <1>4. stack' \in Seq(Machine!Words) /\ regs' \in [0 .. 3 -> Machine!Words]
    BY <1>1, <1>3, Typed, PushTyped, Rax
  <1> QED
    BY <1>1, <1>3, <1>4, Typed, Assembled

LEMMA RetStep == ASSUME RunInv, Machine!RET PROVE Machine!MachineTypeOK'
  <1>1. /\ Machine!Executed({"RET"}) /\ pc' = Head(stack).v /\ stack' = Tail(stack)
        /\ UNCHANGED << ir_code, ram, regs, input, out, state >>
    BY DEF Machine!RET
  <1>2. /\ Machine!instruction.type = "RET"
        /\ Len(stack) >= Machine!Operands(Machine!instruction)
    BY <1>1, Found
  <1>3. Machine!Operands(Machine!instruction) = 1
    BY <1>2 DEF Machine!Operands, Machine!Jumps
  <1>4. Head(stack) \in Machine!Words /\ Tail(stack) \in Seq(Machine!Words)
    BY <1>2, <1>3, OneOperand
  <1>5. Head(stack).v \in Int
    BY <1>4, WordFields
  <1> QED
    BY <1>1, <1>4, <1>5, Typed, Assembled

LEMMA CondJumpStep == ASSUME RunInv, Machine!cond_jmp PROVE Machine!MachineTypeOK'
  <1> DEFINE i == Machine!instruction
             rest == SubSeq(stack, 3, Len(stack))
  <1>1. /\ Machine!Executed(Machine!Jumps) /\ pc' \in {i.imm_arg, pc + 1}
        /\ regs' = [regs EXCEPT ![0] = stack[2], ![1] = stack[1]] /\ stack' = rest
        /\ UNCHANGED << ir_code, ram, input, out, state >>
    BY DEF Machine!cond_jmp
  <1>2. /\ i \in Instr /\ i.type \in Machine!Jumps /\ pc + 1 \in Int
        /\ Len(stack) >= Machine!Operands(i)
    BY <1>1, Found
  <1>3. Machine!Operands(i) = 2
    BY <1>2 DEF Machine!Operands, Machine!Jumps
  <1>4. /\ stack[1] \in Machine!Words /\ stack[2] \in Machine!Words
        /\ rest \in Seq(Machine!Words) /\ i.imm_arg \in Int
    BY <1>2, <1>3, TwoOperands, InstructionFields
  <1> HIDE DEF i, rest
  <1>5. regs' \in [0 .. 3 -> Machine!Words] /\ pc' \in Int
    BY <1>1, <1>2, <1>4, RaxRcx
  <1> QED
    BY <1>1, <1>4, <1>5, Typed, Assembled

LEMMA MachineStep == ASSUME RunInv, Machine!MachineNext PROVE Machine!MachineTypeOK'
  <1>1. CASE Machine!Fault
    <2>1. state' = "fault" /\ UNCHANGED << ir_code, pc, stack, ram, regs, input, out >>
      BY <1>1 DEF Machine!Fault
    <2> QED
      BY <2>1, Typed, Assembled
  <1>2. CASE Machine!HALT
    <2>1. state' = "exit" /\ UNCHANGED << ir_code, pc, stack, ram, regs, input, out >>
      BY <1>2 DEF Machine!HALT
    <2> QED
      BY <2>1, Typed, Assembled
  <1> QED
    BY <1>1, <1>2, PushStep, PopStep, ArithmeticStep, InpStep, OutStep, SqrtStep, JumpStep,
       RetStep, CondJumpStep DEF Machine!MachineNext
-----------------------------------------------------------------------------
(* The history of the calls, and the composition.                          *)

LEMMA RecordTyped ==
    ASSUME RunInv, NEW type, Machine!Inside(ir_code, pc), Record(type) PROVE calls' \in Seq(Calls)
  <1> DEFINE c == [ret |-> pc + 1, depth |-> Len(stack), frame |-> regs[REG_RDX]]
  <1>1. pc + 1 \in Nat
    BY InstructionTyped
  <1>2. Len(stack) \in Nat
    BY Typed
  <1>3. regs[REG_RDX] \in Machine!Words
    BY Typed DEF REG_RDX
  <1>4. c \in Calls
    BY <1>1, <1>2, <1>3 DEF Calls
  <1>5. calls \in Seq(Calls)
    BY DEF RunInv
  <1>6. \/ calls' = << c >> \o calls
        \/ calls' = calls
        \/ calls # << >> /\ calls' = Tail(calls)
    BY DEF Record
  <1> HIDE DEF c
  <1>7. << c >> \o calls \in Seq(Calls)
    BY <1>4, <1>5, PushTyped
  <1>8. calls # << >> => Tail(calls) \in Seq(Calls)
    BY <1>5
  <1> QED
    BY <1>5, <1>6, <1>7, <1>8

LEMMA RunStep == ASSUME RunInv, [CompileAndRun]_all PROVE RunInv'
  <1>1. [Next]_vars
    BY DEF CompileAndRun, Compile, Execute, all
  <1>2. TypeInv'
    BY <1>1, TypeStep DEF RunInv
  <1>3. CASE Compile \/ UNCHANGED all
    <2>1. UNCHANGED machine
      BY <1>3 DEF Compile, all
    <2>2. ir_code' \in Seq(Instr)
      BY <1>2 DEF TypeInv, TypeOK
    <2>3. /\ pc' = pc /\ stack' = stack /\ ram' = ram /\ regs' = regs /\ input' = input /\ out' = out
          /\ state' = state /\ calls' = calls
      BY <2>1 DEF machine
    <2>4. Machine!MachineTypeOK'
      BY <2>2, <2>3, Typed, Assembled
    <2> QED
      BY <1>2, <2>3, <2>4 DEF RunInv
  <1>4. CASE Execute
    <2>1. Machine!MachineTypeOK'
      BY <1>4, MachineStep DEF Execute
    <2>2. calls' \in Seq(Calls)
      <3>1. CASE Machine!Inside(ir_code, pc)
        <4>1. Record(At(ir_code, pc).type)
          BY <1>4, <3>1 DEF Execute, Inside, Machine!Inside
        <4> QED
          BY <3>1, <4>1, RecordTyped
      <3>2. CASE ~Machine!Inside(ir_code, pc)
        <4>1. UNCHANGED calls
          BY <1>4, <3>2 DEF Execute, Inside, Machine!Inside
        <4> QED
          BY <4>1 DEF RunInv
      <3> QED
        BY <3>1, <3>2
    <2> QED
      BY <1>2, <2>1, <2>2 DEF RunInv
  <1> QED
    BY <1>3, <1>4 DEF CompileAndRun

LEMMA RunInit == ASSUME CompileAndRunInit PROVE RunInv
  <1>1. TypeInv
    BY TypeInit DEF CompileAndRunInit
  <1>2. ir_code \in Seq(Instr)
    BY <1>1 DEF TypeInv, TypeOK
  <1>3. Machine!MachineInit /\ calls = << >>
    BY DEF CompileAndRunInit
  <1>4. /\ pc = 0 /\ stack = << >> /\ DOMAIN ram = {} /\ input = << >> /\ out = << >>
        /\ state = "running"
    BY <1>3 DEF Machine!MachineInit
  <1>5. regs \in [0 .. 3 -> Machine!Words]
    BY <1>3, WordsMade DEF Machine!MachineInit
  <1>6. /\ << >> \in Seq(Machine!Words) /\ << >> \in Seq(InputValues) /\ << >> \in Seq(Calls)
    OBVIOUS
  <1>7. Machine!MachineTypeOK
    BY <1>2, <1>4, <1>5, <1>6, SameInstr DEF Machine!MachineTypeOK
  <1> QED
    BY <1>1, <1>3, <1>6, <1>7 DEF RunInv

LEMMA RunInvTypes == RunInv => MachineTypeOK
  <1> SUFFICES ASSUME RunInv PROVE MachineTypeOK
    OBVIOUS
  <1>1. \A i \in DOMAIN calls : calls[i] \in Calls
    BY DEF RunInv
  <1> QED
    BY <1>1 DEF RunInv, MachineTypeOK, Calls

\* While a program is compiled, and while it runs, the machine and the history of
\* its calls have their types, for every set of trees, every size of ram and
\* whatever the user types: no instruction takes a word from a stack that has
\* none, divides by zero or finds an operand that the handlers have not filled
\* in, for all of these are faults.
THEOREM RunTyped == CompileAndRunSpec => []MachineTypeOK
  <1> QED
    BY RunInit, RunStep, RunInvTypes, PTL DEF CompileAndRunSpec
-----------------------------------------------------------------------------
(* The discipline of the stack.  T has the types of the instructions, C the
   calls in progress, S the stack; r is in rdx, b in rcx. *)

Datum(w) == w = Machine!Undetermined \/ \E v \in Int : w = Machine!Num(v)

\* The frame E, moved by n; the word on top of the d lowest.
MovedBy(E, n) == Machine!Result("ADD", E, Machine!Num(n * 100))
Under(S, d)  == S[Len(S) - d]

\* What holds where a call returns to.
Resumed(T, c) == T[c.ret + 1]

\* A caller waits, with its words below those of the call.
Waiting(T, C, j) ==
    LET x == Resumed(T, C[j])
    IN  /\ C[j].ret + 1 \in 1 .. Len(T) /\ x \in Types /\ x.at = "moved" /\ Datum(C[j].frame)
        /\ x.func => /\ j < Len(C) /\ x.height > 1
                     /\ C[j].depth = C[j + 1].depth + x.height - 1
                     /\ C[j].frame = MovedBy(C[j + 1].frame, x.size)

\* Down to caller j all are functions: what they have on the stack is known.
Live(T, x, C, j) == x.func /\ \A i \in 1 .. j : Resumed(T, C[i]).func

Chain(T, x, C, S) ==
    \A j \in 1 .. Len(C) - 1 : Live(T, x, C, j) =>
        /\ Under(S, C[j + 1].depth) = Machine!Code(C[j + 1].ret)
        /\ \A i \in 1 .. j : C[j + 1].depth < C[i].depth

\* The function that runs: how many words it has, ...
Room(x) ==
    /\ x.at \in {"rest", "operand", "moved"} => x.height > 0
    /\ x.at \in {"frame", "sum", "top", "back"} => x.height > 1
    /\ x.at \in {"size", "top_size"} => x.height > 2

\* ... what the frame of its caller has become, ...
Framed(x, E, S, r) ==
    LET m == MovedBy(E, x.size)
    IN  /\ x.at \in {"rest", "operand", "frame", "size", "taken", "result", "return"} => r = E
        /\ x.at = "moved" => r = m
        /\ x.at \in {"frame", "back"} => S[1] = E
        /\ x.at \in {"sum", "top"} => S[1] = m
        /\ x.at \in {"size", "top_size"} => S[1] = Machine!Num(x.size * 100)
        /\ x.at = "size" => S[2] = E
        /\ x.at = "top_size" => S[2] = m

\* ... and where its return address is.
Digs == {"taken", "result", "return"}
Kept(x, c, S, b) ==
    /\ x.at \notin Digs => Under(S, c.depth) = Machine!Code(c.ret)
    /\ x.at \in {"taken", "result"} => b = Machine!Code(c.ret)
    /\ x.at = "return" => S[1] = Machine!Code(c.ret)

Running(x, C, S, r, b) ==
    /\ Datum(r)
    /\ x.at \in {"start", "sum", "back"} => S # << >> /\ Datum(S[1])
    /\ x.func => /\ C # << >> /\ Len(S) = C[1].depth + x.height
                 /\ Room(x) /\ Framed(x, C[1].frame, S, r) /\ Kept(x, C[1], S, b)

Good(T, x, C, S, r, b) ==
    Running(x, C, S, r, b) /\ (\A j \in 1 .. Len(C) : Waiting(T, C, j)) /\ Chain(T, x, C, S)
-----------------------------------------------------------------------------
(* Words and stacks.                                                       *)

\* k words are taken, and l are left.
Changes(S, S2, k, l) ==
    /\ Len(S) >= k /\ Len(S2) = Len(S) - k + l
    /\ \A d \in Nat : d < Len(S) - k => Under(S2, d) = Under(S, d)

LEMMA PushChanges ==
    ASSUME NEW V, NEW S \in Seq(V), NEW w \in V
    PROVE  Changes(S, << w >> \o S, 0, 1) /\ (<< w >> \o S)[1] = w /\ << w >> \o S \in Seq(V)
           /\ (S # << >> => (<< w >> \o S)[2] = S[1])
  <1> DEFINE S2 == << w >> \o S
  <1>1. S2 \in Seq(V) /\ Len(S2) = Len(S) + 1 /\ S2[1] = w /\ \A j \in 1 .. Len(S) : S2[j + 1] = S[j]
    OBVIOUS
  <1>2. Len(S) \in Nat
    OBVIOUS
  <1> HIDE DEF S2
  <1>3. ASSUME NEW d \in Nat, d < Len(S) PROVE Under(S2, d) = Under(S, d)
    <2>1. Len(S) - d \in 1 .. Len(S) /\ Len(S2) - d = (Len(S) - d) + 1
      BY <1>1, <1>2, <1>3
    <2> QED
      BY <1>1, <2>1 DEF Under
  <1>4. Len(S) - 0 = Len(S) /\ Len(S) >= 0 /\ Len(S) - 0 + 1 = Len(S) + 1
    BY <1>2
  <1>5. Changes(S, S2, 0, 1)
    BY <1>1, <1>3, <1>4 DEF Changes
  <1>6. S # << >> => 1 \in 1 .. Len(S) /\ 1 + 1 = 2
    BY <1>2
  <1> QED
    BY <1>1, <1>5, <1>6 DEF S2

LEMMA PopChanges ==
    ASSUME NEW V, NEW S \in Seq(V), Len(S) >= 1
    PROVE  Changes(S, Tail(S), 1, 0) /\ Tail(S) \in Seq(V) /\ Head(S) = S[1] /\ S # << >>
  <1> DEFINE S2 == Tail(S)
  <1>1. S2 \in Seq(V) /\ Len(S2) = Len(S) - 1 /\ \A j \in 1 .. Len(S) - 1 : S2[j] = S[j + 1]
    OBVIOUS
  <1>2. Len(S) \in Nat /\ Head(S) = S[1] /\ S # << >>
    OBVIOUS
  <1> HIDE DEF S2
  <1>3. ASSUME NEW d \in Nat, d < Len(S) - 1 PROVE Under(S2, d) = Under(S, d)
    <2>1. Len(S2) - d \in 1 .. Len(S) - 1 /\ Len(S) - d = (Len(S2) - d) + 1
      BY <1>1, <1>2, <1>3
    <2> QED
      BY <1>1, <2>1 DEF Under
  <1>4. Len(S) - 1 + 0 = Len(S) - 1
    BY <1>2
  <1>5. Changes(S, S2, 1, 0)
    BY <1>1, <1>3, <1>4 DEF Changes
  <1> QED
    BY <1>1, <1>2, <1>5 DEF S2

LEMMA ChangesOn ==
    ASSUME NEW A, NEW B, NEW D, NEW k \in Nat, NEW l \in Nat, NEW m \in Nat, NEW n \in Nat,
           Len(A) \in Nat, Len(B) \in Nat, Len(D) \in Nat,
           Changes(A, B, k, l), Changes(B, D, m, n), l <= m, NEW i \in Nat, i = k + m - l
    PROVE  Changes(A, D, i, n)
  <1> DEFINE a == Len(A)
             o == Len(B)
             e == Len(D)
  <1>1. a \in Nat /\ o \in Nat /\ e \in Nat /\ a >= k /\ o = a - k + l /\ o >= m /\ e = o - m + n
    BY DEF Changes
  <1>2. /\ \A d \in Nat : d < a - k => Under(B, d) = Under(A, d)
        /\ \A d \in Nat : d < o - m => Under(D, d) = Under(B, d)
    BY DEF Changes
  <1> HIDE DEF a, o, e
  <1>3. a >= i /\ e = a - i + n
    BY <1>1
  <1>4. \A d \in Nat : d < a - i => d < a - k /\ d < o - m
    BY <1>1
  <1>5. \A d \in Nat : d < a - i => Under(D, d) = Under(A, d)
    BY <1>2, <1>4
  <1> QED
    BY <1>3, <1>5 DEF Changes, a, e

\* Two words make one, or none.
LEMMA BinaryChanges ==
    ASSUME NEW V, NEW S \in Seq(V), NEW w \in V, Len(S) >= 2
    PROVE  LET R == SubSeq(S, 3, Len(S))
           IN  Changes(S, R, 2, 0) /\ Changes(S, << w >> \o R, 2, 1) /\ (<< w >> \o R)[1] = w
  <1> DEFINE R == SubSeq(S, 3, Len(S))
             P == Tail(S)
  <1>1. Changes(S, P, 1, 0) /\ P \in Seq(V) /\ Len(P) >= 1
    <2>1. Len(S) >= 1 /\ Len(S) \in Nat
      OBVIOUS
    <2>2. Changes(S, P, 1, 0) /\ P \in Seq(V)
      BY <2>1, PopChanges
    <2>3. Len(P) = Len(S) - 1
      OBVIOUS
    <2> QED
      BY <2>1, <2>2, <2>3
  <1>2. Changes(P, Tail(P), 1, 0) /\ Tail(P) \in Seq(V)
    BY <1>1, PopChanges
  <1>3. Tail(P) = R
    OBVIOUS
  <1>4. Len(S) \in Nat /\ Len(P) \in Nat /\ Len(R) \in Nat
    BY <1>1, <1>2, <1>3
  <1> HIDE DEF R, P
  <1> DEFINE zero == 0
             one  == 1
             two  == 2
  <1>5. /\ two = one + one - zero /\ two = two + zero - zero /\ zero <= one /\ zero <= zero
        /\ zero \in Nat /\ one \in Nat /\ two \in Nat
    OBVIOUS
  <1>11. Changes(S, P, one, zero) /\ Changes(P, R, one, zero)
    BY <1>1, <1>2, <1>3
  <1> HIDE DEF zero, one, two
  <1>6. Changes(S, R, two, zero)
    BY <1>4, <1>5, <1>11, ChangesOn
  <1>7. Changes(R, << w >> \o R, 0, 1) /\ (<< w >> \o R)[1] = w /\ << w >> \o R \in Seq(V)
    BY <1>2, <1>3, PushChanges
  <1>8. Len(<< w >> \o R) \in Nat /\ Changes(R, << w >> \o R, zero, one)
    BY <1>7 DEF zero, one
  <1>10. Changes(S, << w >> \o R, two, one)
    BY <1>4, <1>5, <1>6, <1>8, ChangesOn
  <1> QED
    BY <1>6, <1>7, <1>10 DEF R, zero, one, two

\* One word becomes another.
LEMMA UnaryChanges ==
    ASSUME NEW V, NEW S \in Seq(V), NEW w \in V, Len(S) >= 1
    PROVE  Changes(S, << w >> \o Tail(S), 1, 1)
  <1> DEFINE P == Tail(S)
  <1>1. Changes(S, P, 1, 0) /\ P \in Seq(V)
    BY PopChanges
  <1> HIDE DEF P
  <1>2. Changes(P, << w >> \o P, 0, 1) /\ << w >> \o P \in Seq(V)
    BY <1>1, PushChanges
  <1>3. Len(S) \in Nat /\ Len(P) \in Nat /\ Len(<< w >> \o P) \in Nat
    BY <1>1, <1>2
  <1> DEFINE zero == 0
             one  == 1
  <1>4. /\ one = one + zero - zero /\ zero <= zero /\ zero \in Nat /\ one \in Nat
        /\ Changes(S, P, one, zero) /\ Changes(P, << w >> \o P, zero, one)
    BY <1>1, <1>2
  <1> HIDE DEF zero, one
  <1>5. Changes(S, << w >> \o P, one, one)
    BY <1>3, <1>4, ChangesOn
  <1> QED
    BY <1>5 DEF P, one

\* Frames are moved, and moved back.
LEMMA ResultDatum ==
    ASSUME NEW type \in {"ADD", "SUB"}, NEW v \in Machine!Words, NEW w \in Machine!Words
    PROVE  Datum(Machine!Result(type, v, w))
  <1>1. CASE v.kind = "num" /\ w.kind = "num"
    <2> DEFINE a == Machine!Arithmetic(type, v.v, w.v)
    <2>1. v.v \in Int /\ w.v \in Int
      BY WordFields
    <2>2. a \in Int
      BY <2>1 DEF Machine!Arithmetic
    <2>3. Machine!Result(type, v, w) = Machine!Num(a)
      BY <1>1 DEF Machine!Result
    <2> QED
      BY <2>2, <2>3 DEF Datum
  <1>2. CASE ~(v.kind = "num" /\ w.kind = "num")
    BY <1>2 DEF Machine!Result, Datum
  <1> QED
    BY <1>1, <1>2

LEMMA MovedBack ==
    ASSUME NEW E, Datum(E), NEW n \in Int
    PROVE  Machine!Result("SUB", MovedBy(E, n), Machine!Num(n * 100)) = E
  <1> DEFINE m == n * 100
             N == Machine!Num(m)
  <1>1. m \in Int
    OBVIOUS
  <1>2. N.kind = "num" /\ N.v = m
    BY DEF Machine!Num
  <1> HIDE DEF m
  <1>3. CASE E = Machine!Undetermined
    <2>1. E.kind = "undetermined"
      BY <1>3 DEF Machine!Undetermined
    <2>2. Machine!Result("ADD", E, N) = E
      BY <1>3, <2>1 DEF Machine!Result
    <2>3. Machine!Result("SUB", E, N) = E
      BY <1>3, <2>1 DEF Machine!Result
    <2> QED
      BY <2>2, <2>3 DEF MovedBy, m
  <1>4. ASSUME NEW v \in Int, E = Machine!Num(v)
        PROVE  Machine!Result("SUB", MovedBy(E, n), Machine!Num(n * 100)) = E
    <2>1. E.kind = "num" /\ E.v = v
      BY <1>4 DEF Machine!Num
    <2> DEFINE M == Machine!Result("ADD", E, N)
    <2>2. M = Machine!Num(v + m)
      BY <1>2, <2>1 DEF Machine!Result, Machine!Arithmetic
    <2>3. M.kind = "num" /\ M.v = v + m
      BY <2>2 DEF Machine!Num
    <2> HIDE DEF M
    <2>4. Machine!Result("SUB", M, N) = Machine!Num((v + m) - m)
      BY <1>2, <2>3 DEF Machine!Result, Machine!Arithmetic
    <2>5. (v + m) - m = v
      BY <1>1
    <2> QED
      BY <1>4, <2>4, <2>5 DEF MovedBy, M, m
  <1> QED
    BY <1>3, <1>4 DEF Datum
-----------------------------------------------------------------------------
(* An instruction that is not CALL or RET.                                 *)

\* The callers are not touched.
LEMMA ChainKept ==
    ASSUME NEW T, NEW x, NEW y, NEW C \in Seq(Calls), NEW S, NEW S2, NEW k \in Nat, NEW l \in Nat,
           Chain(T, x, C, S), y.func => x.func, Changes(S, S2, k, l), Len(S) \in Nat,
           y.func /\ C # << >> => C[1].depth + k <= Len(S)
    PROVE  Chain(T, y, C, S2)
  <1> SUFFICES ASSUME NEW j \in 1 .. Len(C) - 1, Live(T, y, C, j)
               PROVE  /\ Under(S2, C[j + 1].depth) = Machine!Code(C[j + 1].ret)
                      /\ \A i \in 1 .. j : C[j + 1].depth < C[i].depth
    BY DEF Chain
  <1>1. Live(T, x, C, j)
    BY DEF Live
  <1>2. /\ Under(S, C[j + 1].depth) = Machine!Code(C[j + 1].ret)
        /\ \A i \in 1 .. j : C[j + 1].depth < C[i].depth
    BY <1>1 DEF Chain
  <1>3. Len(C) \in Nat /\ 1 \in 1 .. j /\ j + 1 \in 1 .. Len(C) /\ C # << >> /\ 1 \in 1 .. Len(C)
    OBVIOUS
  <1>4. C[j + 1] \in Calls /\ C[1] \in Calls
    BY <1>3
  <1> DEFINE d == C[j + 1].depth
             e == C[1].depth
             n == Len(S)
  <1>5. d \in Nat /\ e \in Nat /\ d < e
    BY <1>2, <1>3, <1>4 DEF Calls
  <1>6. e + k <= n
    BY <1>3 DEF Live
  <1>7. n \in Nat
    OBVIOUS
  <1> HIDE DEF d, e, n
  <1>8. d < n - k
    BY <1>5, <1>6, <1>7
  <1>9. Under(S2, d) = Under(S, d)
    BY <1>5, <1>8 DEF Changes, n
  <1> QED
    BY <1>2, <1>9 DEF d

LEMMA GoodKept ==
    ASSUME NEW T, NEW x \in Types, NEW y \in Types, NEW C \in Seq(Calls), NEW S, NEW S2,
           NEW r, NEW b, NEW r2, NEW b2, NEW k \in Nat, NEW l \in Nat, Len(S) \in Nat,
           Good(T, x, C, S, r, b), Changes(S, S2, k, l), y.func = x.func,
           x.at \notin Digs, y.at \notin Digs,
           Datum(r2), y.at \in {"start", "sum", "back"} => S2 # << >> /\ Datum(S2[1]),
           x.func => x.height > k /\ y.height = x.height - k + l /\ Room(y),
           x.func => Framed(y, C[1].frame, S2, r2)
    PROVE  Good(T, y, C, S2, r2, b2)
  <1>1. /\ Running(x, C, S, r, b) /\ (\A j \in 1 .. Len(C) : Waiting(T, C, j)) /\ Chain(T, x, C, S)
    BY DEF Good
  <1>2. x.func => C # << >> /\ Len(S) = C[1].depth + x.height /\ Kept(x, C[1], S, b)
    BY <1>1 DEF Running
  <1>3. C # << >> => C[1].depth \in Nat
    <2>1. C # << >> => C[1] \in Calls
      OBVIOUS
    <2> QED
      BY <2>1 DEF Calls
  <1>4. x.height \in Nat /\ y.height \in Nat
    BY DEF Types
  <1>5. x.func => Len(S2) = C[1].depth + y.height
    <2> SUFFICES ASSUME x.func PROVE Len(S2) = C[1].depth + y.height
      OBVIOUS
    <2> DEFINE d == C[1].depth
               g == x.height
               h == y.height
               n == Len(S)
    <2>1. Len(S2) = n - k + l /\ n = d + g /\ h = g - k + l /\ d \in Nat /\ g \in Nat /\ n \in Nat
      BY <1>2, <1>3, <1>4 DEF Changes
    <2> HIDE DEF d, g, h, n
    <2>2. Len(S2) = d + h
      BY <2>1
    <2> QED
      BY <2>2 DEF d, h
  <1>6. x.func => C[1].depth < Len(S) - k /\ C[1].depth + k <= Len(S)
    <2> SUFFICES ASSUME x.func PROVE C[1].depth < Len(S) - k /\ C[1].depth + k <= Len(S)
      OBVIOUS
    <2> DEFINE d == C[1].depth
               g == x.height
               n == Len(S)
    <2>1. n = d + g /\ d \in Nat /\ g \in Nat /\ n \in Nat /\ g > k
      BY <1>2, <1>3, <1>4
    <2> HIDE DEF d, g, n
    <2>2. d < n - k /\ d + k <= n
      BY <2>1
    <2> QED
      BY <2>2 DEF d, n
  <1>7. x.func => Kept(y, C[1], S2, b2)
    <2> SUFFICES ASSUME x.func PROVE Kept(y, C[1], S2, b2)
      OBVIOUS
    <2>1. Under(S, C[1].depth) = Machine!Code(C[1].ret)
      BY <1>2 DEF Kept
    <2>2. C[1].depth \in Nat /\ C[1].depth < Len(S) - k
      BY <1>2, <1>3, <1>6
    <2>3. Under(S2, C[1].depth) = Under(S, C[1].depth)
      BY <2>2 DEF Changes
    <2> QED
      BY <2>1, <2>3 DEF Kept, Digs
  <1>8. Running(y, C, S2, r2, b2)
    BY <1>2, <1>5, <1>7 DEF Running
  <1>9. Chain(T, y, C, S2)
    BY <1>1, <1>6, ChainKept
  <1> QED
    BY <1>1, <1>8, <1>9 DEF Good

\* What the machine does with the words, by the type of the instruction.
Does(i, S, S2, q, q2) ==
    /\ i.type \in {"PUSH", "INP"} => Changes(S, S2, 0, 1)
    /\ i.type \in {"POP", "OUT"} => Changes(S, S2, 1, 0)
    /\ i.type \in BinaryOps => Changes(S, S2, 2, 1)
    /\ i.type = "SQRT" => Changes(S, S2, 1, 1)
    /\ i.type \in Jumps => Changes(S, S2, 2, 0)
    /\ i.type = "PUSH" => q2 = q /\ S2 # << >> /\ (S # << >> => S2[2] = S[1])
    /\ i.type = "PUSH" /\ ~i.need_mem_arg /\ i.need_reg_arg => S2[1] = q[i.reg_num]
    /\ i.type = "PUSH" /\ ~i.need_mem_arg /\ ~i.need_reg_arg => S2[1] = Machine!Num(i.imm_arg * 100)
    /\ i.type = "POP" => S # << >>
    /\ i.type = "POP" /\ i.need_mem_arg => q2 = q
    /\ i.type = "POP" /\ ~i.need_mem_arg => q2 = [q EXCEPT ![i.reg_num] = S[1]]
    /\ i.type \in {"ADD", "SUB"} => S2 # << >> /\ S2[1] = Machine!Result(i.type, S[2], S[1])
                                    /\ S[1] \in Machine!Words /\ S[2] \in Machine!Words
    /\ ~IntoRdx(i) => q2[REG_RDX] = q[REG_RDX]
    /\ i.type \notin {"SIN", "COS"}

\* The instructions, as Effect has them.
Stacks == Seq(Machine!Words)
RegisterFiles == [0 .. 3 -> Machine!Words]

LEMMA OrdinaryGood ==
    ASSUME NEW T, NEW x \in Types, NEW y \in Types, NEW C \in Seq(Calls), NEW S \in Stacks, NEW S2 \in Stacks,
           NEW q \in RegisterFiles, NEW q2 \in RegisterFiles, NEW i \in Instr,
           Good(T, x, C, S, q[REG_RDX], q[REG_RBX]), Does(i, S, S2, q, q2), Ordinary(i, x, y)
    PROVE  Good(T, y, C, S2, q2[REG_RDX], q2[REG_RBX])
  <1>1. /\ i.type \in {"PUSH", "POP", "INP", "OUT"} \cup BinaryOps \cup UnaryOps \cup Jumps
        /\ ~IntoRdx(i) /\ x.at = "rest" /\ Above(x, Taken(i))
        /\ y = By(x, Left(i) - Taken(i), IF HasOperand(i) THEN "rest" ELSE "operand", 0)
    BY DEF Ordinary
  <1>2. Changes(S, S2, Taken(i), Left(i)) /\ Taken(i) \in Nat /\ Left(i) \in Nat
    <2>1. CASE i.type \in {"PUSH", "INP"}
      BY <2>1 DEF Does, Taken, Left, BinaryOps, UnaryOps, Jumps
    <2>2. CASE i.type \in {"POP", "OUT"}
      BY <2>2 DEF Does, Taken, Left, BinaryOps, UnaryOps, Jumps
    <2>3. CASE i.type \in BinaryOps
      BY <2>3 DEF Does, Taken, Left, BinaryOps, UnaryOps, Jumps
    <2>4. CASE i.type \in UnaryOps
      BY <2>4 DEF Does, Taken, Left, BinaryOps, UnaryOps, Jumps
    <2>5. CASE i.type \in Jumps
      BY <2>5 DEF Does, Taken, Left, BinaryOps, UnaryOps, Jumps
    <2> QED
      BY <1>1, <2>1, <2>2, <2>3, <2>4, <2>5
  <1> DEFINE k == Taken(i)
             l == Left(i)
             p == IF HasOperand(i) THEN "rest" ELSE "operand"
  <1>3. k \in Nat /\ l \in Nat /\ p \in {"rest", "operand"}
    BY <1>2
  <1>4. y = By(x, l - k, p, 0) /\ Above(x, k)
    BY <1>1
  <1>5. q2[REG_RDX] = q[REG_RDX]
    BY <1>1 DEF Does
  <1>6. Changes(S, S2, k, l)
    BY <1>2
  <1> HIDE DEF k, l, p
  <1>7. y.func = x.func /\ y.at = p /\ (x.func => y.height = x.height + (l - k))
    BY <1>4 DEF By, InFunc, InMain, Types
  <1>8. x.height \in Nat /\ (x.func => x.height > k)
    BY <1>4 DEF Types, Above
  <1> DEFINE g == x.height
             h == y.height
  <1>9. x.func => h = g - k + l /\ h > 0
    <2>1. x.func => h = g + (l - k) /\ g > k
      BY <1>7, <1>8
    <2>2. g \in Nat
      BY <1>8
    <2> HIDE DEF g, h
    <2> QED
      BY <1>3, <2>1, <2>2
  <1>10. Datum(q2[REG_RDX]) /\ (x.func => Framed(x, C[1].frame, S, q[REG_RDX]))
    BY <1>5 DEF Good, Running
  <1>11. x.func => Framed(y, C[1].frame, S2, q2[REG_RDX])
    BY <1>1, <1>3, <1>5, <1>7, <1>10 DEF Framed
  <1>12. x.func => Room(y)
    BY <1>3, <1>7, <1>9 DEF Room
  <1>13. x.at \notin Digs /\ y.at \notin Digs /\ y.at \notin {"start", "sum", "back"}
    BY <1>1, <1>3, <1>7 DEF Digs
  <1>14. Len(S) \in Nat
    BY DEF Stacks
  <1> QED
    BY <1>3, <1>6, <1>7, <1>8, <1>9, <1>10, <1>11, <1>12, <1>13, <1>14, GoodKept
LEMMA ByFields ==
    ASSUME NEW x \in Types, NEW e \in Int, NEW p, NEW n
    PROVE  /\ By(x, e, p, n).func = x.func /\ By(x, e, p, n).at = p
           /\ x.func => By(x, e, p, n).height = x.height + e /\ By(x, e, p, n).size = n
  BY DEF By, InFunc, InMain, Types

LEMMA ByGood ==
    ASSUME NEW T, NEW x \in Types, NEW y \in Types, NEW C \in Seq(Calls), NEW S \in Stacks, NEW S2 \in Stacks,
           NEW r, NEW b, NEW r2, NEW b2, NEW k \in Nat, NEW l \in Nat, NEW e \in Int, e = l - k,
           Good(T, x, C, S, r, b), Changes(S, S2, k, l), NEW p, NEW n, y = By(x, e, p, n),
           x.at \notin Digs, p \notin Digs,
           Datum(r2), p \in {"start", "sum", "back"} => S2 # << >> /\ Datum(S2[1]),
           x.func => x.height > k,
           p \in {"rest", "operand", "moved"} \/ (x.func => Room(y)),
           x.func => Framed(y, C[1].frame, S2, r2)
    PROVE  Good(T, y, C, S2, r2, b2)
  <1>1. y.func = x.func /\ y.at = p /\ (x.func => y.height = x.height + e)
    BY ByFields
  <1>2. x.height \in Nat
    BY DEF Types
  <1> DEFINE g == x.height
             h == y.height
  <1>3. x.func => h = g - k + l /\ h > 0
    <2>1. x.func => h = g + e /\ g > k
      BY <1>1
    <2>2. g \in Nat
      BY <1>2
    <2> HIDE DEF g, h
    <2> QED
      BY <2>1, <2>2
  <1>4. x.func => Room(y)
    BY <1>1, <1>3 DEF Room
  <1>5. Len(S) \in Nat
    BY DEF Stacks
  <1> QED
    BY <1>1, <1>3, <1>4, <1>5, GoodKept

\* What is known where an instruction begins.
LEMMA GoodFields ==
    ASSUME NEW T, NEW x \in Types, NEW C \in Seq(Calls), NEW S, NEW r, NEW b, Good(T, x, C, S, r, b)
    PROVE  /\ Datum(r) /\ x.height \in Nat
           /\ x.at \in {"start", "sum", "back"} => S # << >> /\ Datum(S[1])
           /\ x.func => /\ C # << >> /\ Len(S) = C[1].depth + x.height /\ C[1].depth \in Nat
                        /\ Room(x) /\ Framed(x, C[1].frame, S, r) /\ Kept(x, C[1], S, b)
                        /\ Datum(C[1].frame)
  <1>1. Running(x, C, S, r, b) /\ \A j \in 1 .. Len(C) : Waiting(T, C, j)
    BY DEF Good
  <1>2. C # << >> => C[1] \in Calls /\ 1 \in 1 .. Len(C)
    OBVIOUS
  <1>3. C # << >> => Datum(C[1].frame) /\ C[1].depth \in Nat
    BY <1>1, <1>2 DEF Waiting, Calls
  <1> QED
    BY <1>1, <1>3 DEF Running, Types

LEMMA RdxOperands ==
    /\ WithReg("PUSH", REG_RDX).type = "PUSH" /\ WithReg("PUSH", REG_RDX).need_reg_arg
    /\ ~WithReg("PUSH", REG_RDX).need_mem_arg /\ WithReg("PUSH", REG_RDX).reg_num = REG_RDX
    /\ WithReg("POP", REG_RDX).type = "POP" /\ ~WithReg("POP", REG_RDX).need_mem_arg
    /\ WithReg("POP", REG_RDX).reg_num = REG_RDX
    /\ WithReg("POP", REG_RBX).type = "POP" /\ ~WithReg("POP", REG_RBX).need_mem_arg
    /\ WithReg("POP", REG_RBX).reg_num = REG_RBX
    /\ \A n \in Int : LET i == WithImm("PUSH", n)
                      IN  i.type = "PUSH" /\ ~i.need_mem_arg /\ ~i.need_reg_arg /\ i.imm_arg = n
    /\ \A n \in {REG_RAX, REG_RBX} :
          LET i == WithReg("PUSH", n)
          IN  i.type = "PUSH" /\ ~i.need_mem_arg /\ i.need_reg_arg /\ i.reg_num = n
  BY DEF WithReg, WithImm, Plain

\* The same, with what is asked of the new type under one name.
Fits(x, y, C, S2, r2, k, p) ==
    /\ x.at \notin Digs /\ p \notin Digs /\ Datum(r2)
    /\ p \in {"start", "sum", "back"} => S2 # << >> /\ Datum(S2[1])
    /\ x.func => x.height > k
    /\ p \in {"rest", "operand", "moved"} \/ (x.func => Room(y))
    /\ x.func => Framed(y, C[1].frame, S2, r2)

LEMMA FitsGood ==
    ASSUME NEW T, NEW x \in Types, NEW y \in Types, NEW C \in Seq(Calls), NEW S \in Stacks, NEW S2 \in Stacks,
           NEW r, NEW b, NEW r2, NEW b2, NEW k \in Nat, NEW l \in Nat, NEW e \in Int, e = l - k,
           Good(T, x, C, S, r, b), Changes(S, S2, k, l), NEW p, NEW n, y = By(x, e, p, n),
           Fits(x, y, C, S2, r2, k, p)
    PROVE  Good(T, y, C, S2, r2, b2)
  BY ByGood DEF Fits

LEMMA MovesGood ==
    ASSUME NEW T, NEW x \in Types, NEW y \in Types, NEW C \in Seq(Calls), NEW S \in Stacks, NEW S2 \in Stacks,
           NEW q \in RegisterFiles, NEW q2 \in RegisterFiles, NEW i \in Instr,
           Good(T, x, C, S, q[REG_RDX], q[REG_RBX]), Does(i, S, S2, q, q2), Moves(i, x, y)
    PROVE  Good(T, y, C, S2, q2[REG_RDX], q2[REG_RBX])
  <1> DEFINE r  == q[REG_RDX]
             r2 == q2[REG_RDX]
             b  == q[REG_RBX]
             b2 == q2[REG_RBX]
             E  == C[1].frame
             d  == C[1].depth
             g  == x.height
  <1>1. /\ Datum(r) /\ g \in Nat
        /\ x.at \in {"start", "sum", "back"} => S # << >> /\ Datum(S[1])
        /\ x.func => /\ C # << >> /\ Len(S) = d + g /\ d \in Nat
                     /\ Room(x) /\ Framed(x, E, S, r) /\ Datum(E)
    BY GoodFields
  <1>2. Good(T, x, C, S, r, b)
    OBVIOUS
  <1>3. -1 \in Int /\ 1 \in Int /\ 1 = 1 - 0 /\ -1 = 1 - 2 /\ -1 = 0 - 1 /\ 0 \in Nat /\ 1 \in Nat /\ 2 \in Nat
    OBVIOUS
  <1> HIDE DEF r, r2, b, b2, E, d, g
  <1>4. ASSUME i = WithReg("PUSH", REG_RDX), x.at = "rest", Above(x, 0), y = By(x, 1, "frame", 0)
        PROVE  Good(T, y, C, S2, r2, b2)
    <2>1. /\ Changes(S, S2, 0, 1) /\ q2 = q /\ S2 # << >> /\ S2[1] = r
      BY <1>4, RdxOperands DEF Does, r
    <2>2. r2 = r
      BY <2>1 DEF r, r2
    <2>3. y.func = x.func /\ y.at = "frame" /\ (x.func => y.height = g + 1 /\ y.size = 0)
      BY <1>4, ByFields DEF g
    <2>4. x.func => g > 0
      BY <1>4 DEF Above, g
    <2>5. x.func => r = E
      BY <1>1, <1>4 DEF Framed
    <2>6. x.func => Framed(y, E, S2, r2)
      BY <2>1, <2>2, <2>3, <2>5 DEF Framed
    <2>7. x.func => Room(y)
      BY <1>1, <2>3, <2>4 DEF Room
    <2>8. x.at \notin Digs /\ "frame" \notin Digs /\ "frame" \notin {"start", "sum", "back"}
      BY <1>4 DEF Digs
    <2> QED
      BY <1>1, <1>2, <1>3, <1>4, <2>1, <2>2, <2>4, <2>6, <2>7, <2>8, ByGood DEF g, E
  <1>5. ASSUME i = WithReg("PUSH", REG_RDX), x.at = "moved", y = By(x, 1, "top", x.size)
        PROVE  Good(T, y, C, S2, r2, b2)
    <2>1. /\ Changes(S, S2, 0, 1) /\ q2 = q /\ S2 # << >> /\ S2[1] = r
      BY <1>5, RdxOperands DEF Does, r
    <2>2. r2 = r
      BY <2>1 DEF r, r2
    <2>3. y.func = x.func /\ y.at = "top" /\ (x.func => y.height = g + 1 /\ y.size = x.size)
      BY <1>5, ByFields DEF g
    <2>4. x.func => g > 0
      BY <1>1, <1>5 DEF Room, g
    <2>5. x.func => r = MovedBy(E, x.size)
      BY <1>1, <1>5 DEF Framed
    <2>6. x.func => Framed(y, E, S2, r2)
      BY <2>1, <2>2, <2>3, <2>5 DEF Framed
    <2>7. x.func => Room(y)
      BY <1>1, <2>3, <2>4 DEF Room
    <2>8. x.at \notin Digs /\ "top" \notin Digs /\ "top" \notin {"start", "sum", "back"}
      BY <1>5 DEF Digs
    <2> QED
      BY <1>1, <1>2, <1>3, <1>5, <2>1, <2>2, <2>4, <2>6, <2>7, <2>8, ByGood DEF g, E
  <1>6. x.func => (x.at \in {"frame", "top"} => S # << >>)
    <2> SUFFICES ASSUME x.func, x.at \in {"frame", "top"} PROVE S # << >>
      OBVIOUS
    <2>1. Len(S) = d + g /\ d \in Nat /\ g > 1
      BY <1>1 DEF Room, g
    <2>2. Len(S) # 0
      BY <1>1, <2>1
    <2> QED
      BY <2>2
  <1>7. ASSUME NEW n \in Nat, i = WithImm("PUSH", n), x.at = "frame", y = By(x, 1, "size", n)
        PROVE  Good(T, y, C, S2, r2, b2)
    <2>1. /\ Changes(S, S2, 0, 1) /\ q2 = q /\ S2 # << >> /\ S2[1] = Machine!Num(n * 100)
          /\ S # << >> => S2[2] = S[1]
      BY <1>7, RdxOperands DEF Does
    <2>2. r2 = r
      BY <2>1 DEF r, r2
    <2>3. y.func = x.func /\ y.at = "size" /\ (x.func => y.height = g + 1 /\ y.size = n)
      BY <1>7, ByFields DEF g
    <2>4. x.func => g > 1 /\ g > 0
      BY <1>1, <1>7 DEF Room, g
    <2>5. x.func => r = E /\ S[1] = E
      BY <1>1, <1>7 DEF Framed
    <2>6. x.func => Framed(y, E, S2, r2)
      BY <1>6, <1>7, <2>1, <2>2, <2>3, <2>5 DEF Framed
    <2>7. x.func => Room(y)
      BY <1>1, <2>3, <2>4 DEF Room
    <2>8. x.at \notin Digs /\ "size" \notin Digs /\ "size" \notin {"start", "sum", "back"}
      BY <1>7 DEF Digs
    <2> QED
      BY <1>1, <1>2, <1>3, <1>7, <2>1, <2>2, <2>4, <2>6, <2>7, <2>8, ByGood DEF g, E
  <1>8. ASSUME NEW n \in Nat, i = WithImm("PUSH", n), x.at = "top", x.func => n = x.size,
               y = By(x, 1, "top_size", x.size)
        PROVE  Good(T, y, C, S2, r2, b2)
    <2>1. /\ Changes(S, S2, 0, 1) /\ q2 = q /\ S2 # << >> /\ S2[1] = Machine!Num(n * 100)
          /\ S # << >> => S2[2] = S[1]
      BY <1>8, RdxOperands DEF Does
    <2>2. r2 = r
      BY <2>1 DEF r, r2
    <2>3. y.func = x.func /\ y.at = "top_size" /\ (x.func => y.height = g + 1 /\ y.size = x.size)
      BY <1>8, ByFields DEF g
    <2>4. x.func => g > 1 /\ g > 0
      BY <1>1, <1>8 DEF Room, g
    <2>5. x.func => S[1] = MovedBy(E, x.size)
      BY <1>1, <1>8 DEF Framed
    <2>6. x.func => Framed(y, E, S2, r2)
      BY <1>6, <1>8, <2>1, <2>2, <2>3, <2>5 DEF Framed
    <2>7. x.func => Room(y)
      BY <1>1, <2>3, <2>4 DEF Room
    <2>8. x.at \notin Digs /\ "top_size" \notin Digs /\ "top_size" \notin {"start", "sum", "back"}
      BY <1>8 DEF Digs
    <2>9. Fits(x, y, C, S2, r2, 0, "top_size")
      BY <1>1, <2>2, <2>4, <2>6, <2>7, <2>8 DEF Fits, g, E
    <2> QED
      BY <1>2, <1>3, <1>8, <2>1, <2>9, FitsGood
  <1>9. ASSUME i.type = "ADD", x.at = "size", y = By(x, -1, "sum", x.size)
        PROVE  Good(T, y, C, S2, r2, b2)
    <2>1. /\ Changes(S, S2, 2, 1) /\ S2 # << >> /\ S2[1] = Machine!Result("ADD", S[2], S[1])
          /\ S[1] \in Machine!Words /\ S[2] \in Machine!Words
      BY <1>9 DEF Does, BinaryOps
    <2>2. r2 = r
      BY <1>9 DEF Does, r, r2, IntoRdx
    <2>3. y.func = x.func /\ y.at = "sum" /\ (x.func => y.height = g + -1 /\ y.size = x.size)
      BY <1>3, <1>9, ByFields DEF g
    <2>4. x.func => g > 2
      BY <1>1, <1>9 DEF Room, g
    <2>5. x.func => S[2] = E /\ S[1] = Machine!Num(x.size * 100)
      BY <1>1, <1>9 DEF Framed
    <2>6. x.func => Framed(y, E, S2, r2)
      BY <2>1, <2>3, <2>5 DEF Framed, MovedBy
    <2>7. x.func => Room(y)
      BY <1>1, <2>3, <2>4 DEF Room
    <2>8. x.at \notin Digs /\ "sum" \notin Digs
      BY <1>9 DEF Digs
    <2>9. Datum(S2[1])
      BY <2>1, ResultDatum
    <2> QED
      BY <1>1, <1>2, <1>3, <1>9, <2>1, <2>2, <2>4, <2>6, <2>7, <2>8, <2>9, ByGood DEF g, E
  <1>10. ASSUME i.type = "SUB", x.at = "top_size", y = By(x, -1, "back", x.size)
         PROVE  Good(T, y, C, S2, r2, b2)
    <2>1. /\ Changes(S, S2, 2, 1) /\ S2 # << >> /\ S2[1] = Machine!Result("SUB", S[2], S[1])
          /\ S[1] \in Machine!Words /\ S[2] \in Machine!Words
      BY <1>10 DEF Does, BinaryOps
    <2>2. r2 = r
      BY <1>10 DEF Does, r, r2, IntoRdx
    <2>3. y.func = x.func /\ y.at = "back" /\ (x.func => y.height = g + -1 /\ y.size = x.size)
      BY <1>3, <1>10, ByFields DEF g
    <2>4. x.func => g > 2
      BY <1>1, <1>10 DEF Room, g
    <2>5. x.func => S[2] = MovedBy(E, x.size) /\ S[1] = Machine!Num(x.size * 100)
      BY <1>1, <1>10 DEF Framed
    <2>6. x.func => S2[1] = E
      <3>1. x.size \in Int
        BY DEF Types
      <3>2. ASSUME x.func PROVE Machine!Result("SUB", MovedBy(E, x.size), Machine!Num(x.size * 100)) = E
        BY <1>1, <3>1, <3>2, MovedBack
      <3> QED
        BY <2>1, <2>5, <3>2
    <2>10. x.func => Framed(y, E, S2, r2)
      BY <2>3, <2>6 DEF Framed
    <2>7. x.func => Room(y)
      BY <1>1, <2>3, <2>4 DEF Room
    <2>8. x.at \notin Digs /\ "back" \notin Digs
      BY <1>10 DEF Digs
    <2>9. Datum(S2[1])
      BY <2>1, ResultDatum
    <2>11. Fits(x, y, C, S2, r2, 2, "back")
      BY <1>1, <2>1, <2>2, <2>4, <2>7, <2>8, <2>9, <2>10 DEF Fits, g, E
    <2> QED
      BY <1>2, <1>3, <1>10, <2>1, <2>11, FitsGood
  <1>11. ASSUME i = WithReg("POP", REG_RDX), x.at = "sum", y = By(x, -1, "moved", x.size)
         PROVE  Good(T, y, C, S2, r2, b2)
    <2>1. /\ Changes(S, S2, 1, 0) /\ q2 = [q EXCEPT ![REG_RDX] = S[1]]
      BY <1>11, RdxOperands DEF Does
    <2>2. r2 = S[1]
      BY <2>1 DEF r2, REG_RDX, RegisterFiles
    <2>3. y.func = x.func /\ y.at = "moved" /\ (x.func => y.size = x.size)
      BY <1>3, <1>11, ByFields DEF g
    <2>4. x.func => g > 1
      BY <1>1, <1>11 DEF Room, g
    <2>5. x.func => S[1] = MovedBy(E, x.size)
      BY <1>1, <1>11 DEF Framed
    <2>6. x.func => Framed(y, E, S2, r2)
      BY <2>2, <2>3, <2>5 DEF Framed
    <2>8. x.at \notin Digs /\ "moved" \notin Digs /\ "moved" \notin {"start", "sum", "back"}
      BY <1>11 DEF Digs
    <2>9. Datum(r2)
      BY <1>1, <1>11, <2>2
    <2> QED
      BY <1>2, <1>3, <1>11, <2>1, <2>4, <2>6, <2>8, <2>9, ByGood DEF g, E
  <1>12. ASSUME i = WithReg("POP", REG_RDX), x.at = "back", y = By(x, -1, "rest", 0)
         PROVE  Good(T, y, C, S2, r2, b2)
    <2>1. /\ Changes(S, S2, 1, 0) /\ q2 = [q EXCEPT ![REG_RDX] = S[1]]
      BY <1>12, RdxOperands DEF Does
    <2>2. r2 = S[1]
      BY <2>1 DEF r2, REG_RDX, RegisterFiles
    <2>3. y.func = x.func /\ y.at = "rest"
      BY <1>3, <1>12, ByFields DEF g
    <2>4. x.func => g > 1
      BY <1>1, <1>12 DEF Room, g
    <2>5. x.func => S[1] = E
      BY <1>1, <1>12 DEF Framed
    <2>6. x.func => Framed(y, E, S2, r2)
      BY <2>2, <2>3, <2>5 DEF Framed
    <2>8. x.at \notin Digs /\ "rest" \notin Digs /\ "rest" \notin {"start", "sum", "back"}
      BY <1>12 DEF Digs
    <2>9. Datum(r2)
      BY <1>1, <1>12, <2>2
    <2> QED
      BY <1>2, <1>3, <1>12, <2>1, <2>4, <2>6, <2>8, <2>9, ByGood DEF g, E
  <1>13. Good(T, y, C, S2, r2, b2)
    BY <1>4, <1>5, <1>7, <1>8, <1>9, <1>10, <1>11, <1>12 DEF Moves
  <1> QED
    BY <1>13 DEF r2, b2
LEMMA BeginsGood ==
    ASSUME NEW T, NEW x \in Types, NEW y \in Types, NEW C \in Seq(Calls), NEW S \in Stacks, NEW S2 \in Stacks,
           NEW q \in RegisterFiles, NEW q2 \in RegisterFiles, NEW i \in Instr,
           Good(T, x, C, S, q[REG_RDX], q[REG_RBX]), Does(i, S, S2, q, q2), ZeroesRdx(i, x, y)
    PROVE  Good(T, y, C, S2, q2[REG_RDX], q2[REG_RBX])
  <1>1. ~x.func /\ ~y.func /\ y.at \in {"start", "rest"}
    BY DEF ZeroesRdx, Main, InMain
  <1>2. Datum(q[REG_RDX]) /\ (x.at = "start" => S # << >> /\ Datum(S[1]))
    BY GoodFields
  <1>3. \E k, l \in Nat : Changes(S, S2, k, l)
    BY DEF ZeroesRdx, WithReg, Plain, Does
  <1>4. Datum(q2[REG_RDX]) /\ (y.at = "start" => S2 # << >> /\ Datum(S2[1]))
    <2>1. CASE i.type = "PUSH" /\ i = WithImm("PUSH", i.imm_arg)
      <3>1. ~i.need_mem_arg /\ ~i.need_reg_arg /\ i.imm_arg \in Int
        BY <2>1, InstructionFields DEF WithImm, Plain
      <3>2. q2 = q /\ S2 # << >> /\ S2[1] = Machine!Num(i.imm_arg * 100) /\ i.imm_arg * 100 \in Int
        BY <2>1, <3>1 DEF Does
      <3> QED
        BY <1>2, <3>2 DEF Datum
    <2>2. CASE i = WithReg("POP", REG_RDX) /\ x = InMain("start") /\ y = Main
      <3>1. q2 = [q EXCEPT ![REG_RDX] = S[1]]
        BY <2>2, RdxOperands DEF Does
      <3>2. q2[REG_RDX] = S[1]
        BY <3>1 DEF REG_RDX, RegisterFiles
      <3> QED
        BY <1>2, <2>2, <3>2 DEF Main, InMain
    <2> QED
      BY <2>1, <2>2 DEF ZeroesRdx
  <1>5. Chain(T, y, C, S2)
    BY <1>1 DEF Chain, Live
  <1>6. Running(y, C, S2, q2[REG_RDX], q2[REG_RBX])
    BY <1>1, <1>4 DEF Running
  <1> QED
    BY <1>5, <1>6 DEF Good

LEMMA ArgumentGood ==
    ASSUME NEW T, NEW x \in Types, NEW y \in Types, NEW C \in Seq(Calls), NEW S \in Stacks, NEW S2 \in Stacks,
           NEW q \in RegisterFiles, NEW q2 \in RegisterFiles, NEW i \in Instr,
           Good(T, x, C, S, q[REG_RDX], q[REG_RBX]), Does(i, S, S2, q, q2),
           i.type = "POP", i.need_mem_arg, x.at = "moved", Above(x, 1), y = By(x, -1, "moved", x.size)
    PROVE  Good(T, y, C, S2, q2[REG_RDX], q2[REG_RBX])
  <1> DEFINE r  == q[REG_RDX]
             r2 == q2[REG_RDX]
             b  == q[REG_RBX]
             b2 == q2[REG_RBX]
             E  == C[1].frame
             g  == x.height
  <1>1. Datum(r) /\ (x.func => Framed(x, E, S, r)) /\ g \in Nat
    BY GoodFields
  <1>2. Good(T, x, C, S, r, b)
    OBVIOUS
  <1>3. -1 \in Int /\ -1 = 0 - 1 /\ 0 \in Nat /\ 1 \in Nat
    OBVIOUS
  <1>4. q2 = q /\ Changes(S, S2, 1, 0)
    BY DEF Does
  <1>5. r2 = r
    BY <1>4
  <1> HIDE DEF r, r2, b, b2, E, g
  <1>6. y.func = x.func /\ y.at = "moved" /\ (x.func => y.size = x.size)
    BY <1>3, ByFields
  <1>7. x.func => g > 1
    BY DEF Above, g
  <1>8. x.func => Framed(y, E, S2, r2)
    BY <1>1, <1>5, <1>6 DEF Framed
  <1>9. x.at \notin Digs /\ "moved" \notin Digs /\ "moved" \notin {"start", "sum", "back"}
    BY DEF Digs
  <1>10. Good(T, y, C, S2, r2, b2)
    <2>1. Fits(x, y, C, S2, r2, 1, "moved")
      BY <1>1, <1>5, <1>7, <1>8, <1>9 DEF Fits, g, E
    <2> QED
      BY <1>2, <1>3, <1>4, <2>1, FitsGood
  <1> QED
    BY <1>10 DEF r2, b2

\* convert_ret takes the return address from under the result into rcx ...
LEMMA ReturnsGood ==
    ASSUME NEW T, NEW x \in Types, NEW y \in Types, NEW C \in Seq(Calls), NEW S \in Stacks, NEW S2 \in Stacks,
           NEW q \in RegisterFiles, NEW q2 \in RegisterFiles, NEW i \in Instr,
           Good(T, x, C, S, q[REG_RDX], q[REG_RBX]), Does(i, S, S2, q, q2), Returns(i, x, y)
    PROVE  Good(T, y, C, S2, q2[REG_RDX], q2[REG_RBX])
  <1> DEFINE r  == q[REG_RDX]
             r2 == q2[REG_RDX]
             b  == q[REG_RBX]
             b2 == q2[REG_RBX]
             c  == C[1]
             d  == C[1].depth
  <1>1. x.func /\ y.func /\ x.at \in {"rest", "taken", "result"} /\ y.at \in {"taken", "result", "return"}
    BY DEF Returns, Entry, InFunc
  <1>2. /\ Datum(r) /\ C # << >> /\ Len(S) = d + x.height /\ d \in Nat /\ Framed(x, c.frame, S, r)
        /\ Kept(x, c, S, b)
    BY <1>1, GoodFields
  <1>3. r = c.frame /\ r2 = r
    <2>1. r = c.frame
      BY <1>1, <1>2 DEF Framed
    <2>2. ~IntoRdx(i)
      <3>1. CASE i.type = "PUSH"
        BY <3>1 DEF IntoRdx
      <3>2. CASE i.type = "POP" /\ i.reg_num = REG_RBX
        BY <3>2 DEF IntoRdx, REG_RBX, REG_RDX
      <3> QED
        BY <3>1, <3>2, RdxOperands DEF Returns
    <2> QED
      BY <2>1, <2>2 DEF Does
  <1>4. Framed(y, c.frame, S2, r2)
    BY <1>1, <1>3 DEF Framed
  <1>5. /\ Len(S2) = d + y.height /\ Kept(y, c, S2, b2)
        /\ \E k, l \in Nat : Changes(S, S2, k, l) /\ d + k <= Len(S)
    <2>1. CASE i = WithReg("POP", REG_RBX) /\ x = Entry /\ y = InFunc(0, "taken", 0)
      <3>1. q2 = [q EXCEPT ![REG_RBX] = S[1]] /\ Changes(S, S2, 1, 0)
        BY <2>1, RdxOperands DEF Does
      <3>2. b2 = S[1]
        BY <3>1 DEF RegisterFiles, REG_RBX
      <3>3. x.height = 1 /\ y.height = 0 /\ x.at = "rest" /\ y.at = "taken"
        BY <2>1 DEF Entry, InFunc
      <3>4. Len(S) = d + 1 /\ Len(S2) = Len(S) - 1 + 0
        BY <1>2, <3>1, <3>3 DEF Changes
      <3>5. Len(S) - d = 1 /\ Len(S2) = d + 0 /\ d + 1 <= Len(S)
        BY <1>2, <3>4
      <3>6. S[1] = Machine!Code(c.ret)
        BY <1>2, <3>3, <3>5 DEF Kept, Under, Digs
      <3>7. Kept(y, c, S2, b2)
        BY <3>2, <3>3, <3>6 DEF Kept, Digs
      <3> QED
        BY <3>1, <3>3, <3>5, <3>7
    <2>2. CASE i = WithReg("PUSH", REG_RAX) /\ x = InFunc(0, "taken", 0) /\ y = InFunc(1, "result", 0)
      <3>1. q2 = q /\ Changes(S, S2, 0, 1)
        BY <2>2, RdxOperands DEF Does
      <3>3. x.height = 0 /\ y.height = 1 /\ x.at = "taken" /\ y.at = "result"
        BY <2>2 DEF InFunc
      <3>4. Len(S) = d + 0 /\ Len(S2) = Len(S) - 0 + 1
        BY <1>2, <3>1, <3>3 DEF Changes
      <3>5. Len(S2) = d + 1 /\ d + 0 <= Len(S)
        BY <1>2, <3>4
      <3>6. b = Machine!Code(c.ret) /\ b2 = b
        BY <1>2, <3>1, <3>3 DEF Kept, Digs
      <3>7. Kept(y, c, S2, b2)
        BY <3>3, <3>6 DEF Kept, Digs
      <3> QED
        BY <3>1, <3>3, <3>5, <3>7
    <2>3. CASE i = WithReg("PUSH", REG_RBX) /\ x = InFunc(1, "result", 0) /\ y = InFunc(2, "return", 0)
      <3>1. q2 = q /\ Changes(S, S2, 0, 1) /\ S2[1] = b
        BY <2>3, RdxOperands DEF Does
      <3>3. x.height = 1 /\ y.height = 2 /\ x.at = "result" /\ y.at = "return"
        BY <2>3 DEF InFunc
      <3>4. Len(S) = d + 1 /\ Len(S2) = Len(S) - 0 + 1
        BY <1>2, <3>1, <3>3 DEF Changes
      <3>5. Len(S2) = d + 2 /\ d + 0 <= Len(S)
        BY <1>2, <3>4
      <3>6. b = Machine!Code(c.ret)
        BY <1>2, <3>3 DEF Kept, Digs
      <3>7. Kept(y, c, S2, b2)
        BY <3>1, <3>3, <3>6 DEF Kept, Digs
      <3> QED
        BY <3>1, <3>3, <3>5, <3>7
    <2> QED
      BY <2>1, <2>2, <2>3 DEF Returns
  <1>6. Room(y) /\ y.at \notin {"start", "sum", "back"}
    BY <1>1 DEF Room
  <1> HIDE DEF r, r2, b, b2
  <1>7. Running(y, C, S2, r2, b2)
    BY <1>2, <1>3, <1>4, <1>5, <1>6 DEF Running
  <1>8. Chain(T, y, C, S2)
    <2>1. Len(S) \in Nat /\ Chain(T, x, C, S)
      BY DEF Stacks, Good
    <2> QED
      BY <1>1, <1>5, <2>1, ChainKept
  <1>9. Good(T, y, C, S2, r2, b2)
    BY <1>7, <1>8 DEF Good
  <1> QED
    BY <1>9 DEF r2, b2

LEMMA WeakerGood ==
    ASSUME NEW T, NEW x, NEW y, NEW C, NEW S, NEW r, NEW b, Good(T, x, C, S, r, b), Weaker(x, y)
    PROVE  Good(T, y, C, S, r, b)
  <1>1. CASE y = x
    BY <1>1
  <1>2. CASE y = Main
    <2>1. ~y.func /\ y.at = "rest"
      BY <1>2 DEF Main, InMain
    <2>2. Chain(T, y, C, S)
      BY <2>1 DEF Chain, Live
    <2>3. Running(y, C, S, r, b)
      BY <2>1 DEF Running, Good
    <2> QED
      BY <2>2, <2>3 DEF Good
  <1> QED
    BY <1>1, <1>2 DEF Weaker
-----------------------------------------------------------------------------
(* CALL and RET.                                                           *)

LEMMA CallsOn ==
    ASSUME NEW c \in Calls, NEW C \in Seq(Calls)
    PROVE  /\ << c >> \o C \in Seq(Calls) /\ Len(<< c >> \o C) = Len(C) + 1 /\ (<< c >> \o C)[1] = c
           /\ \A j \in 1 .. Len(C) : (<< c >> \o C)[j + 1] = C[j]
           /\ \A j \in 2 .. Len(C) + 1 : (<< c >> \o C)[j] = C[j - 1]
  OBVIOUS

LEMMA CallGood ==
    ASSUME NEW T \in Seq(Types), NEW x \in Types, NEW C \in Seq(Calls), NEW S \in Stacks, NEW r, NEW b, NEW b2,
           Good(T, x, C, S, r, b), x.at = "moved", Above(x, 0),
           NEW c \in Calls, c.depth = Len(S), c.frame = r, c.ret + 1 \in 1 .. Len(T),
           T[c.ret + 1] = By(x, 1, "moved", x.size)
    PROVE  Good(T, Entry, << c >> \o C, << Machine!Code(c.ret) >> \o S, r, b2)
  <1> DEFINE D  == << c >> \o C
             w  == Machine!Code(c.ret)
             S2 == << w >> \o S
             y  == By(x, 1, "moved", x.size)
             n  == Len(S)
             g  == x.height
  <1>1. /\ D \in Seq(Calls) /\ Len(D) = Len(C) + 1 /\ D[1] = c /\ Len(C) \in Nat
        /\ \A j \in 1 .. Len(C) : D[j + 1] = C[j]
        /\ \A j \in 2 .. Len(C) + 1 : D[j] = C[j - 1]
    BY CallsOn
  <1>2. w \in Machine!Words /\ n \in Nat
    BY WordsMade DEF Calls, Stacks
  <1>3. Changes(S, S2, 0, 1) /\ S2[1] = w
    BY <1>2, PushChanges DEF Stacks
  <1>4. /\ Datum(r) /\ g \in Nat
        /\ x.func => /\ C # << >> /\ n = C[1].depth + g /\ C[1].depth \in Nat /\ Framed(x, C[1].frame, S, r)
                     /\ Kept(x, C[1], S, b)
    BY GoodFields
  <1>5. y \in Types /\ y.func = x.func /\ y.at = "moved" /\ (x.func => y.height = g + 1 /\ y.size = x.size)
    <2>1. y = T[c.ret + 1] /\ T[c.ret + 1] \in Types
      OBVIOUS
    <2> QED
      BY <2>1, ByFields
  <1>6. x.func => g > 0
    BY DEF Above
  <1> HIDE DEF D, w, S2, y, n, g
  <1>7. Waiting(T, D, 1)
    <2>1. Resumed(T, D[1]) = y /\ D[1].ret + 1 \in 1 .. Len(T) /\ Datum(D[1].frame)
      BY <1>1, <1>4 DEF Resumed, y
    <2>2. x.func => 1 < Len(D) /\ D[2] = C[1] /\ 1 + 1 = 2
      <3>1. x.func => Len(C) >= 1
        BY <1>1, <1>4
      <3>2. x.func => 1 \in 1 .. Len(C) /\ 1 + 1 = 2
        BY <1>1, <3>1
      <3> QED
        BY <1>1, <3>1, <3>2
    <2>3. x.func => n = C[1].depth + y.height - 1 /\ y.height > 1
      <3> DEFINE e == C[1].depth
                 h == y.height
      <3>1. x.func => n = e + g /\ e \in Nat /\ h = g + 1 /\ g > 0
        BY <1>4, <1>5, <1>6
      <3>2. g \in Nat
        BY <1>4
      <3> HIDE DEF e, h
      <3>3. x.func => n = e + h - 1 /\ h > 1
        BY <3>1, <3>2
      <3> QED
        BY <3>3 DEF e, h
    <2>4. x.func => r = MovedBy(C[1].frame, y.size)
      BY <1>4, <1>5 DEF Framed
    <2>5. D[1].depth = n /\ D[1].frame = r
      BY <1>1 DEF n
    <2> QED
      BY <1>5, <2>1, <2>2, <2>3, <2>4, <2>5 DEF Waiting
  <1>8. \A j \in 2 .. Len(D) : Waiting(T, D, j)
    <2> TAKE j \in 2 .. Len(D)
    <2>1. j - 1 \in 1 .. Len(C) /\ D[j] = C[j - 1] /\ (j - 1) + 1 = j /\ j \in 2 .. Len(C) + 1
      BY <1>1
    <2>2. Waiting(T, C, j - 1)
      BY <2>1 DEF Good
    <2>3. j - 1 < Len(C) => j < Len(D) /\ D[j + 1] = C[j]
      BY <1>1, <2>1
    <2> QED
      BY <2>1, <2>2, <2>3 DEF Waiting
  <1>9. \A j \in 1 .. Len(D) : Waiting(T, D, j)
    <2> TAKE j \in 1 .. Len(D)
    <2>1. j = 1 \/ j \in 2 .. Len(D)
      BY <1>1
    <2> QED
      BY <1>7, <1>8, <2>1
  <1>10. Chain(T, Entry, D, S2)
    <2> SUFFICES ASSUME NEW j \in 1 .. Len(D) - 1, Live(T, Entry, D, j)
                 PROVE  /\ Under(S2, D[j + 1].depth) = Machine!Code(D[j + 1].ret)
                        /\ \A i \in 1 .. j : D[j + 1].depth < D[i].depth
      BY DEF Chain
    <2>1. j \in 1 .. Len(C) /\ D[j + 1] = C[j] /\ j \in Nat
      BY <1>1
    <2>2. x.func
      <3>1. 1 \in 1 .. j
        BY <2>1
      <3>2. Resumed(T, D[1]).func
        BY <3>1 DEF Live
      <3> QED
        BY <1>1, <1>5, <3>2 DEF Resumed, y
    <2>3. C[j] \in Calls /\ C[j].depth \in Nat
      <3>1. C[j] \in Calls
        BY <2>1
      <3> QED
        BY <3>1 DEF Calls
    <2>4. /\ Under(S, C[j].depth) = Machine!Code(C[j].ret) /\ C[j].depth < n
          /\ \A i \in 1 .. j - 1 : C[j].depth < C[i].depth
      <3>1. CASE j = 1
        <4>1. Under(S, C[1].depth) = Machine!Code(C[1].ret)
          BY <1>4, <2>2 DEF Kept, Digs
        <4>2. C[1].depth < n
          BY <1>4, <1>6, <2>2
        <4> QED
          BY <3>1, <4>1, <4>2
      <3>2. CASE j # 1
        <4>1. j - 1 \in 1 .. Len(C) - 1 /\ (j - 1) + 1 = j /\ 1 \in 1 .. j - 1
          BY <1>1, <2>1, <3>2
        <4>2. Live(T, x, C, j - 1)
          <5> SUFFICES ASSUME NEW i \in 1 .. j - 1 PROVE Resumed(T, C[i]).func
            BY <2>2 DEF Live
          <5>1. i + 1 \in 1 .. j /\ i \in 1 .. Len(C) /\ D[i + 1] = C[i]
            BY <1>1, <2>1
          <5> QED
            BY <5>1 DEF Live
        <4>3. /\ Under(S, C[(j - 1) + 1].depth) = Machine!Code(C[(j - 1) + 1].ret)
              /\ \A i \in 1 .. j - 1 : C[(j - 1) + 1].depth < C[i].depth
          BY <4>1, <4>2 DEF Good, Chain
        <4>4. C[j].depth < C[1].depth
          BY <4>1, <4>3
        <4>5. C[j].depth < n
          BY <1>4, <2>2, <2>3, <4>4
        <4> QED
          BY <4>1, <4>3, <4>5
      <3> QED
        BY <3>1, <3>2
    <2>5. Under(S2, C[j].depth) = Under(S, C[j].depth)
      <3>1. C[j].depth < n - 0
        BY <1>2, <2>3, <2>4
      <3> QED
        BY <1>3, <2>3, <3>1 DEF Changes, n
    <2>6. \A i \in 1 .. j : C[j].depth < D[i].depth
      <3> TAKE i \in 1 .. j
      <3>1. CASE i = 1
        BY <1>1, <2>4, <3>1 DEF n
      <3>2. CASE i # 1
        <4>1. i - 1 \in 1 .. j - 1 /\ i \in 2 .. Len(C) + 1
          BY <1>1, <2>1, <3>2
        <4> QED
          BY <1>1, <2>4, <4>1
      <3> QED
        BY <3>1, <3>2
    <2> QED
      BY <2>1, <2>4, <2>5, <2>6
  <1>11. Running(Entry, D, S2, r, b2)
    <2>1. Entry.at = "rest" /\ Entry.func /\ Entry.height = 1
      BY DEF Entry, InFunc
    <2>2. Len(S2) = n + 1 /\ D # << >>
      <3>1. Len(S2) = n - 0 + 1 /\ Len(D) # 0
        BY <1>1, <1>3 DEF Changes, n
      <3> QED
        BY <1>2, <3>1
    <2>3. Under(S2, n) = w
      <3>1. Len(S2) - n = 1
        BY <1>2, <2>2
      <3> QED
        BY <1>3, <3>1 DEF Under
    <2>4. Kept(Entry, D[1], S2, b2)
      BY <1>1, <2>1, <2>3 DEF Kept, Digs, n, w
    <2>5. Framed(Entry, D[1].frame, S2, r) /\ Room(Entry)
      BY <1>1, <2>1 DEF Framed, Room
    <2>6. Len(S2) = D[1].depth + Entry.height
      BY <1>1, <2>1, <2>2 DEF n
    <2> QED
      BY <1>4, <2>1, <2>2, <2>4, <2>5, <2>6 DEF Running
  <1>12. Good(T, Entry, D, S2, r, b2)
    BY <1>9, <1>10, <1>11 DEF Good
  <1> QED
    BY <1>12 DEF D, S2, w

\* At RET: what ReturnsToCaller says.
LEMMA RetGood ==
    ASSUME NEW T \in Seq(Types), NEW x, x = InFunc(2, "return", 0), NEW C \in Seq(Calls), NEW S \in Stacks,
           NEW r, NEW b, Good(T, x, C, S, r, b)
    PROVE  /\ C # << >> /\ S # << >> /\ Head(S) = Machine!Code(C[1].ret)
           /\ Len(S) = C[1].depth + 2 /\ r = C[1].frame
           /\ C[1].ret + 1 \in 1 .. Len(T)
           /\ Good(T, Resumed(T, C[1]), Tail(C), Tail(S), r, b)
  <1>1. x.func /\ x.at = "return" /\ x.height = 2 /\ x \in Types
    BY DEF InFunc, Types, Stages
  <1> DEFINE d  == C[1].depth
             D  == Tail(C)
             S2 == Tail(S)
             y  == Resumed(T, C[1])
  <1>2. /\ Datum(r) /\ C # << >> /\ Len(S) = d + 2 /\ d \in Nat /\ Framed(x, C[1].frame, S, r)
        /\ Kept(x, C[1], S, b)
    BY <1>1, GoodFields
  <1>3. S[1] = Machine!Code(C[1].ret) /\ r = C[1].frame
    BY <1>1, <1>2 DEF Kept, Framed
  <1>4. Len(S) >= 1
    BY <1>2
  <1>5. Changes(S, S2, 1, 0) /\ Head(S) = S[1] /\ S # << >>
    BY <1>4, PopChanges DEF Stacks
  <1>6. /\ D \in Seq(Calls) /\ Len(D) = Len(C) - 1 /\ Len(C) \in Nat /\ Len(C) >= 1
        /\ \A j \in 1 .. Len(C) - 1 : D[j] = C[j + 1]
    BY <1>2
  <1>7. Len(S2) = d + 1
    <2>1. Len(S2) = Len(S) - 1 + 0
      BY <1>5 DEF Changes
    <2> QED
      BY <1>2, <2>1
  <1>8. Waiting(T, C, 1)
    BY <1>6 DEF Good
  <1>9. /\ C[1].ret + 1 \in 1 .. Len(T) /\ y \in Types /\ y.at = "moved"
        /\ y.func => /\ 1 < Len(C) /\ y.height > 1
                     /\ d = C[1 + 1].depth + y.height - 1 /\ C[1].frame = MovedBy(C[1 + 1].frame, y.size)
    BY <1>8 DEF Waiting
  <1>10. y.func => D # << >> /\ D[1] = C[2] /\ D[1].depth \in Nat
    <2> SUFFICES ASSUME y.func PROVE D # << >> /\ D[1] = C[2] /\ D[1].depth \in Nat
      OBVIOUS
    <2>1. 1 \in 1 .. Len(C) - 1 /\ 1 + 1 = 2 /\ 2 \in 1 .. Len(C)
      BY <1>6, <1>9
    <2>2. D[1] = C[2] /\ C[2] \in Calls /\ Len(D) # 0
      BY <1>6, <2>1
    <2>3. C[2].depth \in Nat
      BY <2>2 DEF Calls
    <2>4. D # << >>
      <3> SUFFICES ASSUME D = << >> PROVE FALSE
        OBVIOUS
      <3>1. Len(<< >>) = 0
        OBVIOUS
      <3> QED
        BY <2>2, <3>1
    <2> QED
      BY <2>2, <2>3, <2>4
  <1>11. 1 + 1 = 2
    OBVIOUS
  <1> HIDE DEF d, D, S2, y
  <1>12. \A j \in 1 .. Len(D) : Waiting(T, D, j)
    <2> TAKE j \in 1 .. Len(D)
    <2>1. j + 1 \in 1 .. Len(C) /\ D[j] = C[j + 1] /\ j \in 1 .. Len(C) - 1
      BY <1>6
    <2>2. Waiting(T, C, j + 1)
      BY <2>1 DEF Good
    <2>3. j + 1 < Len(C) => j < Len(D) /\ D[j + 1] = C[(j + 1) + 1]
      BY <1>6, <2>1
    <2> QED
      BY <2>1, <2>2, <2>3 DEF Waiting
  <1>13. \A j \in 1 .. Len(C) - 1 : Live(T, x, C, j) =>
            /\ Under(S, C[j + 1].depth) = Machine!Code(C[j + 1].ret)
            /\ \A i \in 1 .. j : C[j + 1].depth < C[i].depth
    BY DEF Good, Chain
  <1>14. ASSUME NEW j \in Nat, j + 1 \in 1 .. Len(C) - 1, Live(T, y, D, j)
         PROVE  /\ Under(S2, C[(j + 1) + 1].depth) = Machine!Code(C[(j + 1) + 1].ret)
                /\ \A i \in 1 .. j + 1 : C[(j + 1) + 1].depth < C[i].depth
    <2>1. Live(T, x, C, j + 1)
      <3> SUFFICES ASSUME NEW i \in 1 .. j + 1 PROVE Resumed(T, C[i]).func
        BY <1>1 DEF Live
      <3>1. CASE i = 1
        BY <1>14, <3>1 DEF Live, y
      <3>2. CASE i # 1
        <4>1. i - 1 \in 1 .. j /\ i - 1 \in 1 .. Len(C) - 1 /\ (i - 1) + 1 = i
          BY <1>6, <1>14, <3>2
        <4>2. D[i - 1] = C[i]
          BY <1>6, <4>1
        <4> QED
          BY <1>14, <4>1, <4>2 DEF Live
      <3> QED
        BY <3>1, <3>2
    <2>2. /\ Under(S, C[(j + 1) + 1].depth) = Machine!Code(C[(j + 1) + 1].ret)
          /\ \A i \in 1 .. j + 1 : C[(j + 1) + 1].depth < C[i].depth
      BY <1>13, <1>14, <2>1
    <2> DEFINE e == C[(j + 1) + 1].depth
    <2>3. e \in Nat /\ e < d
      <3>1. (j + 1) + 1 \in 1 .. Len(C) /\ 1 \in 1 .. j + 1
        BY <1>6, <1>14
      <3>2. C[(j + 1) + 1] \in Calls
        BY <3>1
      <3> QED
        BY <2>2, <3>1, <3>2 DEF Calls, d
    <2>4. e < Len(S) - 1
      <3> HIDE DEF e
      <3> QED
        BY <1>2, <2>3
    <2>5. Under(S2, e) = Under(S, e)
      BY <1>5, <2>3, <2>4 DEF Changes
    <2> QED
      BY <2>2, <2>5
  <1>15. Chain(T, y, D, S2)
    <2> SUFFICES ASSUME NEW j \in 1 .. Len(D) - 1, Live(T, y, D, j)
                 PROVE  /\ Under(S2, D[j + 1].depth) = Machine!Code(D[j + 1].ret)
                        /\ \A i \in 1 .. j : D[j + 1].depth < D[i].depth
      BY DEF Chain
    <2>1. j \in Nat /\ j + 1 \in 1 .. Len(C) - 1 /\ D[j + 1] = C[(j + 1) + 1]
      BY <1>6
    <2>2. /\ Under(S2, C[(j + 1) + 1].depth) = Machine!Code(C[(j + 1) + 1].ret)
          /\ \A i \in 1 .. j + 1 : C[(j + 1) + 1].depth < C[i].depth
      BY <1>14, <2>1
    <2>3. \A i \in 1 .. j : i + 1 \in 1 .. j + 1 /\ D[i] = C[i + 1]
      BY <1>6, <2>1
    <2> QED
      BY <2>1, <2>2, <2>3
  <1>16. Running(y, D, S2, r, b)
    <2>1. y.at \notin {"start", "sum", "back"}
      BY <1>9
    <2>2. ASSUME y.func
          PROVE  /\ D # << >> /\ Len(S2) = D[1].depth + y.height
                 /\ Room(y) /\ Framed(y, D[1].frame, S2, r) /\ Kept(y, D[1], S2, b)
      <3>1. D # << >> /\ D[1] = C[2] /\ D[1].depth \in Nat
        BY <1>10, <2>2
      <3>2. y.height \in Nat /\ y.height > 1 /\ d = D[1].depth + y.height - 1
        BY <1>9, <1>11, <2>2, <3>1 DEF Types
      <3>3. Len(S2) = D[1].depth + y.height
        <4> DEFINE h == y.height
                   e == D[1].depth
        <4>1. h \in Nat /\ e \in Nat /\ d = e + h - 1 /\ Len(S2) = d + 1
          BY <1>7, <3>1, <3>2
        <4> HIDE DEF h, e
        <4>2. Len(S2) = e + h
          BY <1>2, <4>1
        <4> QED
          BY <4>2 DEF h, e
      <3>4. Framed(y, D[1].frame, S2, r)
        BY <1>3, <1>9, <1>11, <2>2, <3>1 DEF Framed
      <3>5. Room(y)
        BY <1>9, <3>2 DEF Room
      <3>6. Under(S2, C[2].depth) = Machine!Code(C[2].ret)
        <4>1. 0 \in Nat /\ 0 + 1 \in 1 .. Len(C) - 1 /\ (0 + 1) + 1 = 2
          BY <1>6, <1>9, <2>2
        <4>2. Live(T, y, D, 0)
          BY <2>2 DEF Live
        <4>3. Under(S2, C[(0 + 1) + 1].depth) = Machine!Code(C[(0 + 1) + 1].ret)
          BY <1>14, <4>1, <4>2
        <4> QED
          BY <4>1, <4>3
      <3>7. Kept(y, D[1], S2, b)
        BY <1>9, <3>1, <3>6 DEF Kept, Digs
      <3> QED
        BY <3>1, <3>3, <3>4, <3>5, <3>7
    <2> QED
      BY <1>2, <2>1, <2>2 DEF Running
  <1>17. Good(T, y, D, S2, r, b)
    BY <1>12, <1>15, <1>16 DEF Good
  <1> QED
    BY <1>2, <1>3, <1>5, <1>9, <1>17 DEF d, D, S2, y
-----------------------------------------------------------------------------
(* The machine.                                                            *)

LEMMA SameSets == Machine!Jumps = Jumps /\ Machine!Unsupported = Unsupported
  BY DEF Machine!Jumps, Jumps, Machine!Unsupported, Unsupported

LEMMA OperandsNeeded ==
    ASSUME NEW i
    PROVE  /\ i.type \in {"ADD", "SUB", "MUL", "DIV"} \cup Jumps => Machine!Operands(i) = 2
           /\ i.type \in {"POP", "SQRT", "OUT", "RET"} => Machine!Operands(i) = 1
  BY SameSets DEF Machine!Operands, Jumps

\* A step that goes on, unless it transfers the control without a condition.
LEMMA PushDoes ==
    ASSUME RunInv, Machine!push_
    PROVE  Does(Machine!instruction, stack, stack', regs, regs')
  <1> DEFINE i == Machine!instruction
             w == IF i.need_mem_arg THEN Machine!Load(ram, Machine!Address(i))
                  ELSE IF i.need_reg_arg THEN regs[i.reg_num]
                  ELSE Machine!Num(i.imm_arg * Machine!FIXED_PRECISION_MULTIPLIER)
  <1>1. Machine!Executed({"PUSH"}) /\ stack' = << w >> \o stack /\ regs' = regs
    BY DEF Machine!push_, Machine!Next_pc
  <1>2. i \in Instr /\ i.type = "PUSH"
    BY <1>1, Found
  <1>3. i.reg_num \in 0 .. 3 /\ i.imm_arg \in Int
    BY <1>2, InstructionFields
  <1>4. w \in Machine!Words
    BY <1>3, LoadTyped, WordsMade, Typed DEF Machine!FIXED_PRECISION_MULTIPLIER
  <1>5. /\ ~i.need_mem_arg /\ i.need_reg_arg => w = regs[i.reg_num]
        /\ ~i.need_mem_arg /\ ~i.need_reg_arg => w = Machine!Num(i.imm_arg * 100)
    BY DEF Machine!FIXED_PRECISION_MULTIPLIER
  <1> HIDE DEF i, w
  <1>6. /\ Changes(stack, stack', 0, 1) /\ stack'[1] = w /\ (stack # << >> => stack'[2] = stack[1])
        /\ stack' # << >>
    <2>1. stack \in Seq(Machine!Words)
      BY Typed
    <2>2. << w >> \o stack # << >>
      BY <2>1
    <2> QED
      BY <1>1, <1>4, <2>1, <2>2, PushChanges
  <1>7. Does(i, stack, stack', regs, regs')
    BY <1>1, <1>2, <1>5, <1>6 DEF Does, BinaryOps, Jumps
  <1> QED
    BY <1>7 DEF i

LEMMA PopDoes ==
    ASSUME RunInv, Machine!pop_
    PROVE  Does(Machine!instruction, stack, stack', regs, regs')
  <1> DEFINE i == Machine!instruction
             w == Head(stack)
  <1>1. /\ Machine!Executed({"POP"}) /\ stack' = Tail(stack)
        /\ IF i.need_mem_arg THEN regs' = regs ELSE regs' = [regs EXCEPT ![i.reg_num] = w]
    BY DEF Machine!pop_, Machine!Next_pc
  <1>2. i \in Instr /\ i.type = "POP" /\ Len(stack) >= Machine!Operands(i)
    BY <1>1, Found
  <1>3. i.reg_num \in 0 .. 3
    BY <1>2, InstructionFields
  <1>4. Len(stack) >= 1
    BY <1>2, OperandsNeeded
  <1>5. Changes(stack, stack', 1, 0) /\ w = stack[1] /\ stack # << >>
    BY <1>1, <1>4, Typed, PopChanges
  <1> HIDE DEF i
  <1>6. ~IntoRdx(i) => regs'[REG_RDX] = regs[REG_RDX]
    <2>1. regs \in [0 .. 3 -> Machine!Words]
      BY Typed
    <2>2. CASE i.need_mem_arg
      BY <1>1, <2>2
    <2>3. CASE ~i.need_mem_arg /\ i.reg_num # REG_RDX
      BY <1>1, <1>3, <2>1, <2>3 DEF REG_RDX
    <2> QED
      BY <1>2, <2>2, <2>3 DEF IntoRdx
  <1>7. Does(i, stack, stack', regs, regs')
    BY <1>1, <1>2, <1>5, <1>6 DEF Does, BinaryOps, Jumps
  <1> QED
    BY <1>7 DEF i

LEMMA ArithmeticDoes ==
    ASSUME RunInv, Machine!arithmetic
    PROVE  Does(Machine!instruction, stack, stack', regs, regs')
  <1> DEFINE i == Machine!instruction
             type == i.type
             w == Machine!Result(type, stack[2], stack[1])
             x == Machine!Lost(type, stack[2], stack[1])
             c == Machine!Num(Machine!FIXED_PRECISION_MULTIPLIER)
             rest == SubSeq(stack, 3, Len(stack))
  <1>1. /\ Machine!Executed({"ADD", "SUB", "MUL", "DIV"})
        /\ stack' = << w >> \o rest
        /\ regs' = IF type \in {"ADD", "SUB"} THEN [regs EXCEPT ![0] = stack[1]]
                   ELSE [regs EXCEPT ![0] = w, ![1] = c, ![2] = x]
    BY DEF Machine!arithmetic, Machine!Next_pc
  <1>2. /\ i \in Instr /\ type \in {"ADD", "SUB", "MUL", "DIV"} /\ Len(stack) >= Machine!Operands(i)
        /\ type = "DIV" /\ stack # << >> => Head(stack) # Machine!Num(0)
    BY <1>1, Found
  <1>3. Len(stack) >= 2
    BY <1>2, OperandsNeeded
  <1>4. /\ stack # << >> /\ stack[1] = Head(stack)
        /\ stack[1] \in Machine!Words /\ stack[2] \in Machine!Words
    BY <1>3, TwoOperands
  <1>5. w \in Machine!Words
    BY <1>2, <1>4, ResultsTyped
  <1>6. regs'[REG_RDX] = regs[REG_RDX]
    <2>1. regs \in [0 .. 3 -> Machine!Words]
      BY Typed
    <2> HIDE DEF w, x, c, type
    <2> QED
      BY <1>1, <2>1 DEF REG_RDX
  <1>7. w = Machine!Result(i.type, stack[2], stack[1])
    OBVIOUS
  <1> HIDE DEF w, i, x, c
  <1>8. Changes(stack, stack', 2, 1) /\ stack'[1] = w
    BY <1>1, <1>3, <1>5, Typed, BinaryChanges
  <1>9. stack' # << >>
    <2>1. Len(stack) \in Nat /\ Len(stack') = Len(stack) - 2 + 1
      BY <1>8, Typed DEF Changes
    <2>2. Len(stack') # 0
      BY <1>3, <2>1
    <2>3. Len(<< >>) = 0
      OBVIOUS
    <2> QED
      BY <2>2, <2>3
  <1>10. Does(i, stack, stack', regs, regs')
    BY <1>2, <1>4, <1>6, <1>7, <1>8, <1>9 DEF Does, BinaryOps, Jumps
  <1> QED
    BY <1>10 DEF i

LEMMA ClobberedKeeps ==
    ASSUME RunInv, NEW w PROVE Machine!Clobbered(w)[REG_RDX] = regs[REG_RDX]
  <1>1. regs \in [0 .. 3 -> Machine!Words]
    BY Typed
  <1> QED
    BY <1>1 DEF Machine!Clobbered, REG_RDX

LEMMA InpDoes ==
    ASSUME RunInv, Machine!INP
    PROVE  Does(Machine!instruction, stack, stack', regs, regs')
  <1> DEFINE i == Machine!instruction
  <1>1. PICK v \in InputValues : stack' = << Machine!Num(v) >> \o stack
                                 /\ regs' = Machine!Clobbered(Machine!Num(v))
    BY DEF Machine!INP
  <1>2. Machine!Executed({"INP"})
    BY DEF Machine!INP
  <1>3. i \in Instr /\ i.type = "INP"
    BY <1>2, Found
  <1>4. Machine!Num(v) \in Machine!Words
    BY InputAssumption, WordsMade
  <1>5. Changes(stack, stack', 0, 1)
    BY <1>1, <1>4, Typed, PushChanges
  <1>6. regs'[REG_RDX] = regs[REG_RDX]
    BY <1>1, ClobberedKeeps
  <1> HIDE DEF i
  <1>7. Does(i, stack, stack', regs, regs')
    BY <1>3, <1>5, <1>6 DEF Does, BinaryOps, Jumps
  <1> QED
    BY <1>7 DEF i

LEMMA OutDoes ==
    ASSUME RunInv, Machine!OUT
    PROVE  Does(Machine!instruction, stack, stack', regs, regs')
  <1> DEFINE i == Machine!instruction
  <1>1. /\ Machine!Executed({"OUT"}) /\ stack' = Tail(stack)
        /\ regs' = Machine!Clobbered(Machine!Undetermined)
    BY DEF Machine!OUT
  <1>2. i \in Instr /\ i.type = "OUT" /\ Len(stack) >= Machine!Operands(i)
    BY <1>1, Found
  <1>3. Len(stack) >= 1
    BY <1>2, OperandsNeeded
  <1>4. Changes(stack, stack', 1, 0)
    BY <1>1, <1>3, Typed, PopChanges
  <1>5. regs'[REG_RDX] = regs[REG_RDX]
    BY <1>1, ClobberedKeeps
  <1> HIDE DEF i
  <1>6. Does(i, stack, stack', regs, regs')
    BY <1>2, <1>4, <1>5 DEF Does, BinaryOps, Jumps
  <1> QED
    BY <1>6 DEF i

LEMMA SqrtDoes ==
    ASSUME RunInv, Machine!SQRT
    PROVE  Does(Machine!instruction, stack, stack', regs, regs')
  <1> DEFINE i == Machine!instruction
             w == IF Head(stack).kind = "num" THEN Machine!Num(Machine!sqrt_asm(Head(stack).v))
                  ELSE Machine!Undetermined
  <1>1. /\ Machine!Executed({"SQRT"}) /\ stack' = << w >> \o Tail(stack) /\ regs' = [regs EXCEPT ![0] = w]
    BY DEF Machine!SQRT
  <1>2. i \in Instr /\ i.type = "SQRT" /\ Len(stack) >= Machine!Operands(i)
    BY <1>1, Found
  <1>3. Len(stack) >= 1
    BY <1>2, OperandsNeeded
  <1>4. Head(stack) \in Machine!Words
    BY <1>3, OneOperand
  <1>5. w \in Machine!Words
    BY <1>4, WordFields, WordsMade, RootInt
  <1> HIDE DEF i, w
  <1>6. Changes(stack, stack', 1, 1)
    BY <1>1, <1>3, <1>5, Typed, UnaryChanges
  <1>7. regs'[REG_RDX] = regs[REG_RDX]
    BY <1>1, Typed DEF REG_RDX
  <1>8. Does(i, stack, stack', regs, regs')
    BY <1>2, <1>6, <1>7 DEF Does, BinaryOps, Jumps
  <1> QED
    BY <1>8 DEF i

LEMMA CondJumpDoes ==
    ASSUME RunInv, Machine!cond_jmp
    PROVE  Does(Machine!instruction, stack, stack', regs, regs')
  <1> DEFINE i == Machine!instruction
             rest == SubSeq(stack, 3, Len(stack))
  <1>1. /\ Machine!Executed(Machine!Jumps)
        /\ regs' = [regs EXCEPT ![0] = stack[2], ![1] = stack[1]] /\ stack' = rest
    BY DEF Machine!cond_jmp
  <1>2. i \in Instr /\ i.type \in Jumps /\ Len(stack) >= Machine!Operands(i)
    BY <1>1, Found, SameSets
  <1>3. Len(stack) >= 2
    BY <1>2, OperandsNeeded
  <1>4. Changes(stack, stack', 2, 0)
    <2>1. Machine!Undetermined \in Machine!Words
      BY WordsMade
    <2> QED
      BY <1>1, <1>3, <2>1, Typed, BinaryChanges
  <1>5. regs'[REG_RDX] = regs[REG_RDX]
    BY SMTT(30), <1>1, Typed DEF REG_RDX
  <1> HIDE DEF i
  <1>6. Does(i, stack, stack', regs, regs')
    BY <1>2, <1>4, <1>5 DEF Does, BinaryOps, Jumps
  <1> QED
    BY <1>6 DEF i
-----------------------------------------------------------------------------
(* A step of the machine.                                                  *)

LEMMA EffectGood ==
    ASSUME NEW T, NEW x \in Types, NEW y \in Types, NEW C \in Seq(Calls), NEW S \in Stacks, NEW S2 \in Stacks,
           NEW q \in RegisterFiles, NEW q2 \in RegisterFiles, NEW i \in Instr, i.type # "CALL",
           Good(T, x, C, S, q[REG_RDX], q[REG_RBX]), Does(i, S, S2, q, q2), Effect(i, x, y)
    PROVE  Good(T, y, C, S2, q2[REG_RDX], q2[REG_RBX])
  <1>1. CASE PassesOn(i, x, y)
    BY <1>1, ArgumentGood DEF PassesOn
  <1> QED
    BY <1>1, OrdinaryGood, BeginsGood, MovesGood, ReturnsGood DEF Effect

\* Where the instruction of the index p begins.
Stands(T, p) ==
    Inside(ir_code, p) => Good(T, T[p + 1], calls, stack, regs[REG_RDX], regs[REG_RBX])

RunGood(T) == status = "OK" /\ state = "running" => Stands(T, pc)

\* What the machine finds, and what T says of it.
LEMMA Finds ==
    ASSUME RunInv, NEW T, WellTyped(ir_code, T), Machine!Inside(ir_code, pc)
    PROVE  LET i == Machine!instruction
               k == pc + 1
           IN  /\ Inside(ir_code, pc) /\ i = At(ir_code, pc) /\ i \in Instr /\ pc \in Nat /\ k \in Nat
               /\ T \in Seq(Types) /\ T[k] \in Types /\ T[k + 1] \in Types /\ k + 1 \in 1 .. Len(T)
               /\ \A p : Inside(ir_code, p) => p \in Nat /\ T[p + 1] \in Types
               /\ i.type \notin NoNext => \E y \in Types : Effect(i, T[k], y) /\ Weaker(y, T[k + 1])
               /\ i.type = "RET" => T[k] = InFunc(2, "return", 0)
               /\ i.type \in {"JMP"} \cup Jumps => T[k].at = "rest"
               /\ i.type \in {"JMP"} \cup Jumps /\ Inside(ir_code, i.imm_arg) =>
                     Weaker(AtTarget(i, T[k]), T[i.imm_arg + 1])
               /\ i.type = "CALL" /\ Inside(ir_code, i.imm_arg) => Weaker(Entry, T[i.imm_arg + 1])
  <1> DEFINE i == Machine!instruction
             k == pc + 1
  <1>1. ir_code \in Seq(Instr) /\ Inside(ir_code, pc) /\ i = At(ir_code, pc) /\ i = ir_code[k]
    BY Typed DEF Inside, Machine!Inside, At, Machine!At, Machine!instruction
  <1>2. i \in Instr /\ pc \in Nat /\ k \in Nat
    BY InstructionTyped
  <1>3. Len(ir_code) \in Nat /\ k \in 1 .. Len(ir_code)
    BY <1>1, <1>2 DEF Inside
  <1>4. T \in Seq(Types) /\ Len(T) = Len(ir_code) + 1
    BY DEF WellTyped
  <1>5. k \in 1 .. Len(T) /\ k + 1 \in 1 .. Len(T)
    BY <1>3, <1>4
  <1>6. \A p : Inside(ir_code, p) => p \in Nat /\ p + 1 \in 1 .. Len(T)
    BY <1>3, <1>4 DEF Inside
  <1> HIDE DEF i, k
  <1>7. /\ i.type \notin NoNext => \E y \in Types : Effect(i, T[k], y) /\ Weaker(y, T[k + 1])
        /\ i.type = "RET" => T[k] = InFunc(2, "return", 0)
        /\ i.type \in {"JMP"} \cup Jumps => T[k].at = "rest"
        /\ i.type \in {"JMP"} \cup Jumps /\ Inside(ir_code, i.imm_arg) =>
              Weaker(AtTarget(i, T[k]), T[i.imm_arg + 1])
        /\ i.type = "CALL" /\ Inside(ir_code, i.imm_arg) => Weaker(Entry, T[i.imm_arg + 1])
    BY <1>1, <1>3 DEF WellTyped
  <1> QED
    BY <1>1, <1>2, <1>4, <1>5, <1>6, <1>7 DEF i, k

LEMMA RunGoodReturns ==
    ASSUME RunInv, NEW T, WellTyped(ir_code, T), RunGood(T)
    PROVE  ReturnsToCaller
  <1> SUFFICES ASSUME Returning
               PROVE  /\ calls # << >> /\ Head(stack) = Machine!Code(calls[1].ret)
                      /\ Len(stack) = calls[1].depth + 2
                      /\ regs[REG_RDX] = calls[1].frame
    BY DEF ReturnsToCaller
  <1>1. Inside(ir_code, pc) /\ At(ir_code, pc).type = "RET" /\ status = "OK" /\ state = "running"
    BY DEF Returning
  <1>2. Machine!Inside(ir_code, pc)
    BY <1>1 DEF Inside, Machine!Inside
  <1>3. T \in Seq(Types) /\ T[pc + 1] = InFunc(2, "return", 0)
    BY <1>1, <1>2, Finds
  <1>4. Good(T, T[pc + 1], calls, stack, regs[REG_RDX], regs[REG_RBX])
    BY <1>1 DEF RunGood, Stands
  <1>5. calls \in Seq(Calls) /\ stack \in Stacks
    BY Typed DEF RunInv, Stacks
  <1> QED
    BY <1>3, <1>4, <1>5, RetGood

\* To the next instruction, or to where a conditional jump leads.
LEMMA OnGood ==
    ASSUME RunInv, RunInv', NEW T, WellTyped(ir_code, T), Machine!Inside(ir_code, pc), Stands(T, pc),
           Does(Machine!instruction, stack, stack', regs, regs'),
           Machine!instruction.type \notin NoNext \cup {"CALL"},
           UNCHANGED << ir_code, calls >>,
           pc' = pc + 1 \/ (Machine!instruction.type \in Jumps /\ pc' = Machine!instruction.imm_arg)
    PROVE  Stands(T, pc)'
  <1> DEFINE i == Machine!instruction
             x == T[pc + 1]
  <1>1. /\ calls \in Seq(Calls) /\ calls' = calls /\ stack \in Stacks /\ stack' \in Stacks
        /\ regs \in RegisterFiles /\ regs' \in RegisterFiles /\ ir_code' = ir_code
    BY Typed DEF RunInv, Stacks, RegisterFiles, Machine!MachineTypeOK
  <1>2. /\ i \in Instr /\ i.type \notin NoNext /\ Inside(ir_code, pc) /\ x \in Types /\ pc \in Nat
        /\ \A p : Inside(ir_code, p) => p \in Nat /\ T[p + 1] \in Types
    BY Finds
  <1>3. PICK y \in Types : Effect(i, x, y) /\ Weaker(y, T[(pc + 1) + 1])
    BY <1>2, Finds
  <1>4. Good(T, x, calls, stack, regs[REG_RDX], regs[REG_RBX])
    BY <1>2 DEF Stands
  <1> HIDE DEF i, x
  <1>5. Good(T, y, calls, stack', regs'[REG_RDX], regs'[REG_RBX])
    <2>1. Does(i, stack, stack', regs, regs') /\ i.type # "CALL"
      BY DEF i
    <2> QED
      BY <1>1, <1>2, <1>3, <1>4, <2>1, EffectGood
  <1>6. CASE pc' = pc + 1
    <2>1. Good(T, T[pc' + 1], calls, stack', regs'[REG_RDX], regs'[REG_RBX])
      BY <1>3, <1>5, <1>6, WeakerGood
    <2> QED
      BY <1>1, <2>1 DEF Stands
  <1>7. CASE i.type \in Jumps /\ pc' = i.imm_arg
    <2>1. y = AtTarget(i, x)
      <3>1. Ordinary(i, x, y)
        BY <1>3, <1>7 DEF Effect, Jumps, ZeroesRdx, Moves, PassesOn, Returns, WithReg, Plain
      <3>2. HasOperand(i) /\ Left(i) = 0 /\ Taken(i) = 2
        BY <1>7 DEF HasOperand, Left, Taken, Jumps, BinaryOps, UnaryOps
      <3> QED
        BY <3>1, <3>2 DEF Ordinary, AtTarget
    <2> SUFFICES ASSUME Inside(ir_code, pc')
                 PROVE  Good(T, T[pc' + 1], calls, stack', regs'[REG_RDX], regs'[REG_RBX])
      BY <1>1 DEF Stands
    <2>2. Weaker(y, T[pc' + 1])
      <3>1. i.type \in {"JMP"} \cup Jumps /\ Inside(ir_code, i.imm_arg)
        BY <1>7
      <3> QED
        BY <1>7, <2>1, <3>1, Finds DEF i, x
    <2> QED
      BY <1>5, <2>2, WeakerGood
  <1> QED
    BY <1>6, <1>7 DEF i

LEMMA JmpGood ==
    ASSUME RunInv, NEW T, WellTyped(ir_code, T), Machine!Inside(ir_code, pc), Stands(T, pc),
           Machine!instruction.type = "JMP", pc' = Machine!instruction.imm_arg,
           stack' = stack, regs' = [regs EXCEPT ![0] = Machine!Code(Machine!instruction.imm_arg)],
           UNCHANGED << ir_code, calls >>
    PROVE  Stands(T, pc)'
  <1> DEFINE i == Machine!instruction
             x == T[pc + 1]
             y == By(x, 0, "rest", 0)
             r == regs[REG_RDX]
             b == regs[REG_RBX]
  <1>1. calls \in Seq(Calls) /\ stack \in Stacks /\ regs \in RegisterFiles
    BY Typed DEF RunInv, Stacks, RegisterFiles
  <1>2. /\ i \in Instr /\ Inside(ir_code, pc) /\ x \in Types /\ x.at = "rest"
        /\ Inside(ir_code, i.imm_arg) => Weaker(AtTarget(i, x), T[i.imm_arg + 1])
    BY Finds
  <1>3. Good(T, x, calls, stack, r, b)
    BY <1>2 DEF Stands
  <1>4. r = regs'[REG_RDX] /\ b = regs'[REG_RBX]
    BY <1>1 DEF REG_RDX, REG_RBX, RegisterFiles
  <1>5. AtTarget(i, x) = y
    BY DEF AtTarget, Taken, BinaryOps, Jumps, UnaryOps
  <1> HIDE DEF i, x, r, b
  <1>6. y.func = x.func /\ y.at = "rest" /\ y \in Types /\ (x.func => y.height = x.height)
    <2>1. y.func = x.func /\ y.at = "rest" /\ (x.func => y.height = x.height + 0)
      BY <1>2, ByFields
    <2>2. x.height \in Nat /\ x.height + 0 = x.height /\ x.func \in BOOLEAN
      BY <1>2 DEF Types
    <2>3. y \in Types
      BY <2>2 DEF By, InFunc, InMain, Types, Stages
    <2> QED
      BY <2>1, <2>2, <2>3
  <1> HIDE DEF y
  <1>7. Running(y, calls, stack, r, b)
    BY <1>2, <1>3, <1>6 DEF Good, Running, Room, Framed, Kept, Digs
  <1>8. Chain(T, y, calls, stack)
    BY <1>3, <1>6 DEF Good, Chain, Live
  <1>9. Good(T, y, calls, stack, r, b)
    BY <1>3, <1>7, <1>8 DEF Good
  <1>10. Inside(ir_code, pc') => Good(T, T[pc' + 1], calls, stack, r, b)
    <2> SUFFICES ASSUME Inside(ir_code, pc') PROVE Good(T, T[pc' + 1], calls, stack, r, b)
      OBVIOUS
    <2>1. Weaker(y, T[pc' + 1])
      BY <1>2, <1>5 DEF i
    <2> QED
      BY <1>9, <2>1, WeakerGood
  <1> QED
    BY <1>4, <1>10 DEF Stands

LEMMA CallStands ==
    ASSUME RunInv, NEW T, WellTyped(ir_code, T), Machine!Inside(ir_code, pc), Stands(T, pc),
           Machine!instruction.type = "CALL", pc' = Machine!instruction.imm_arg,
           stack' = << Machine!Code(pc + 1) >> \o stack,
           regs' = [regs EXCEPT ![0] = Machine!Code(Machine!instruction.imm_arg)],
           ir_code' = ir_code, Record("CALL")
    PROVE  Stands(T, pc)'
  <1> DEFINE i == Machine!instruction
             x == T[pc + 1]
             r == regs[REG_RDX]
             b == regs[REG_RBX]
             c == [ret |-> pc + 1, depth |-> Len(stack), frame |-> r]
  <1>1. calls \in Seq(Calls) /\ stack \in Stacks /\ regs \in RegisterFiles /\ Len(stack) \in Nat
    BY Typed DEF RunInv, Stacks, RegisterFiles
  <1>2. /\ i \in Instr /\ Inside(ir_code, pc) /\ x \in Types /\ T \in Seq(Types) /\ i.type \notin NoNext
        /\ pc + 1 \in Nat /\ (pc + 1) + 1 \in 1 .. Len(T)
        /\ Inside(ir_code, i.imm_arg) => Weaker(Entry, T[i.imm_arg + 1])
    BY Finds DEF NoNext
  <1>3. Good(T, x, calls, stack, r, b)
    BY <1>2 DEF Stands
  <1>4. PICK y \in Types : Effect(i, x, y) /\ Weaker(y, T[(pc + 1) + 1])
    BY <1>2, Finds
  <1>5. r = regs'[REG_RDX]
    BY <1>1 DEF REG_RDX, RegisterFiles
  <1>6. calls' = << c >> \o calls
    BY DEF Record
  <1>7. c \in Calls /\ c.depth = Len(stack) /\ c.frame = r /\ c.ret = pc + 1
    <2>1. r \in Machine!Words
      BY <1>1 DEF RegisterFiles, REG_RDX
    <2> QED
      BY <1>1, <1>2, <2>1 DEF Calls
  <1>8. i.type = "CALL"
    OBVIOUS
  <1> HIDE DEF i, x, r, b, c
  <1>9. x.at = "moved" /\ Above(x, 0) /\ y = By(x, 1, "moved", x.size)
    BY <1>4, <1>8 DEF Effect, Ordinary, ZeroesRdx, Moves, PassesOn, Returns, Jumps, BinaryOps, UnaryOps,
                      WithReg, Plain
  <1>10. T[c.ret + 1] = y /\ c.ret + 1 \in 1 .. Len(T)
    <2>1. y.at = "moved"
      BY <1>9 DEF By, InFunc, InMain
    <2> QED
      BY <1>2, <1>4, <1>7, <2>1 DEF Weaker
  <1>11. Good(T, Entry, calls', stack', r, regs'[REG_RBX])
    BY <1>1, <1>2, <1>3, <1>6, <1>7, <1>9, <1>10, CallGood
  <1>12. Inside(ir_code, pc') => Good(T, T[pc' + 1], calls', stack', r, regs'[REG_RBX])
    BY <1>2, <1>11, WeakerGood DEF i
  <1> QED
    BY <1>5, <1>12 DEF Stands

LEMMA RetStands ==
    ASSUME RunInv, NEW T, WellTyped(ir_code, T), Machine!Inside(ir_code, pc), Stands(T, pc),
           Machine!instruction.type = "RET", pc' = Head(stack).v,
           stack' = Tail(stack), regs' = regs, ir_code' = ir_code, Record("RET")
    PROVE  Stands(T, pc)'
  <1> DEFINE x == T[pc + 1]
  <1>1. calls \in Seq(Calls) /\ stack \in Stacks
    BY Typed DEF RunInv, Stacks
  <1>2. Inside(ir_code, pc) /\ T \in Seq(Types) /\ x = InFunc(2, "return", 0)
    BY Finds
  <1>3. Good(T, x, calls, stack, regs[REG_RDX], regs[REG_RBX])
    BY <1>2 DEF Stands
  <1> HIDE DEF x
  <1>4. /\ calls # << >> /\ Head(stack) = Machine!Code(calls[1].ret)
        /\ Good(T, Resumed(T, calls[1]), Tail(calls), Tail(stack), regs[REG_RDX], regs[REG_RBX])
    BY <1>1, <1>2, <1>3, RetGood
  <1>5. pc' = calls[1].ret /\ calls' = Tail(calls)
    BY <1>4 DEF Machine!Code, Record
  <1> QED
    BY <1>4, <1>5 DEF Stands, Resumed
LEMMA ExecuteGood ==
    ASSUME RunInv, RunInv', Execute, NEW T, WellTyped(ir_code, T), RunGood(T)
    PROVE  RunGood(T)'
  <1>1. /\ status = "OK" /\ Machine!MachineNext /\ ir_code' = ir_code
        /\ IF Inside(ir_code, pc) THEN Record(At(ir_code, pc).type) ELSE UNCHANGED calls
    BY DEF Execute, vars, output
  <1>2. SUFFICES ASSUME state' = "running" PROVE Stands(T, pc)'
    BY DEF RunGood
  <1> DEFINE i == Machine!instruction
  <1>3. ASSUME NEW types, Machine!Executed(types)
        PROVE  /\ Machine!Inside(ir_code, pc) /\ i.type \in types /\ Stands(T, pc)
               /\ Record(i.type)
    <2>1. state = "running" /\ Machine!Inside(ir_code, pc) /\ i.type \in types
      BY <1>3 DEF Machine!Executed, Machine!Executes
    <2>2. i = At(ir_code, pc) /\ Inside(ir_code, pc)
      BY <2>1, Finds
    <2> QED
      BY <1>1, <2>1, <2>2 DEF RunGood
  <1>4. ASSUME NEW types, Machine!Executed(types),
               types \subseteq Machine!InstrTypes \ {"CALL", "RET", "JMP", "HALT"},
               Does(i, stack, stack', regs, regs'), pc' = pc + 1 \/ (i.type \in Jumps /\ pc' = i.imm_arg)
        PROVE  Stands(T, pc)'
    <2>1. i.type \notin NoNext \cup {"CALL"} /\ i.type # "RET"
      BY <1>3, <1>4 DEF NoNext
    <2>2. calls' = calls
      BY <1>3, <1>4, <2>1 DEF Record
    <2> QED
      BY <1>1, <1>3, <1>4, <2>1, <2>2, OnGood
  <1>5. /\ {"PUSH"} \subseteq Machine!InstrTypes \ {"CALL", "RET", "JMP", "HALT"}
        /\ {"POP"} \subseteq Machine!InstrTypes \ {"CALL", "RET", "JMP", "HALT"}
        /\ {"ADD", "SUB", "MUL", "DIV"} \subseteq Machine!InstrTypes \ {"CALL", "RET", "JMP", "HALT"}
        /\ {"INP"} \subseteq Machine!InstrTypes \ {"CALL", "RET", "JMP", "HALT"}
        /\ {"OUT"} \subseteq Machine!InstrTypes \ {"CALL", "RET", "JMP", "HALT"}
        /\ {"SQRT"} \subseteq Machine!InstrTypes \ {"CALL", "RET", "JMP", "HALT"}
        /\ Machine!Jumps \subseteq Machine!InstrTypes \ {"CALL", "RET", "JMP", "HALT"}
    BY DEF Machine!InstrTypes, Machine!Encodable, Machine!Jumps
  <1> HIDE DEF i
  <1>6. CASE Machine!Fault
    BY <1>2, <1>6 DEF Machine!Fault
  <1>7. CASE Machine!HALT
    BY <1>2, <1>7 DEF Machine!HALT
  <1>8. CASE Machine!push_
    <2>1. Machine!Executed({"PUSH"}) /\ pc' = pc + 1
      BY <1>8 DEF Machine!push_, Machine!Next_pc
    <2>2. Does(i, stack, stack', regs, regs')
      BY <1>8, PushDoes DEF i
    <2> QED
      BY <1>4, <1>5, <2>1, <2>2
  <1>9. CASE Machine!pop_
    <2>1. Machine!Executed({"POP"}) /\ pc' = pc + 1
      BY <1>9 DEF Machine!pop_, Machine!Next_pc
    <2>2. Does(i, stack, stack', regs, regs')
      BY <1>9, PopDoes DEF i
    <2> QED
      BY <1>4, <1>5, <2>1, <2>2
  <1>10. CASE Machine!arithmetic
    <2>1. Machine!Executed({"ADD", "SUB", "MUL", "DIV"}) /\ pc' = pc + 1
      BY <1>10 DEF Machine!arithmetic, Machine!Next_pc
    <2>2. Does(i, stack, stack', regs, regs')
      BY <1>10, ArithmeticDoes DEF i
    <2> QED
      BY <1>4, <1>5, <2>1, <2>2
  <1>11. CASE Machine!INP
    <2>1. Machine!Executed({"INP"}) /\ pc' = pc + 1
      BY <1>11 DEF Machine!INP, Machine!Next_pc
    <2>2. Does(i, stack, stack', regs, regs')
      BY <1>11, InpDoes DEF i
    <2> QED
      BY <1>4, <1>5, <2>1, <2>2
  <1>12. CASE Machine!OUT
    <2>1. Machine!Executed({"OUT"}) /\ pc' = pc + 1
      BY <1>12 DEF Machine!OUT, Machine!Next_pc
    <2>2. Does(i, stack, stack', regs, regs')
      BY <1>12, OutDoes DEF i
    <2> QED
      BY <1>4, <1>5, <2>1, <2>2
  <1>13. CASE Machine!SQRT
    <2>1. Machine!Executed({"SQRT"}) /\ pc' = pc + 1
      BY <1>13 DEF Machine!SQRT, Machine!Next_pc
    <2>2. Does(i, stack, stack', regs, regs')
      BY <1>13, SqrtDoes DEF i
    <2> QED
      BY <1>4, <1>5, <2>1, <2>2
  <1>14. CASE Machine!cond_jmp
    <2>1. Machine!Executed(Machine!Jumps) /\ (pc' = pc + 1 \/ pc' = i.imm_arg)
      BY <1>14 DEF Machine!cond_jmp, i
    <2>2. Does(i, stack, stack', regs, regs')
      BY <1>14, CondJumpDoes DEF i
    <2>3. i.type \in Jumps
      BY <1>3, <2>1, SameSets
    <2> QED
      BY <1>4, <1>5, <2>1, <2>2, <2>3
  <1>15. CASE Machine!jmp_or_call
    <2>1. /\ Machine!Executed({"JMP", "CALL"}) /\ pc' = i.imm_arg
          /\ regs' = [regs EXCEPT ![0] = Machine!Code(i.imm_arg)]
          /\ stack' = IF i.type = "CALL" THEN << Machine!Code(pc + 1) >> \o stack ELSE stack
      BY <1>15 DEF Machine!jmp_or_call, i
    <2>2. Machine!Inside(ir_code, pc) /\ i.type \in {"JMP", "CALL"} /\ Stands(T, pc) /\ Record(i.type)
      BY <1>3, <2>1
    <2>3. CASE i.type = "JMP"
      <3>1. calls' = calls /\ stack' = stack
        BY <2>1, <2>2, <2>3 DEF Record
      <3> QED
        BY <1>1, <2>1, <2>2, <2>3, <3>1, JmpGood DEF i
    <2>4. CASE i.type = "CALL"
      <3>1. Record("CALL") /\ stack' = << Machine!Code(pc + 1) >> \o stack
        BY <2>1, <2>2, <2>4
      <3> QED
        BY <1>1, <2>1, <2>2, <2>4, <3>1, CallStands DEF i
    <2> QED
      BY <2>2, <2>3, <2>4
  <1>16. CASE Machine!RET
    <2>1. /\ Machine!Executed({"RET"}) /\ pc' = Head(stack).v /\ stack' = Tail(stack) /\ regs' = regs
      BY <1>16 DEF Machine!RET
    <2>2. Machine!Inside(ir_code, pc) /\ i.type = "RET" /\ Stands(T, pc) /\ Record(i.type)
      BY <1>3, <2>1
    <2>3. Record("RET")
      BY <2>2
    <2> QED
      BY <1>1, <2>1, <2>2, <2>3, RetStands DEF i
  <1> QED
    BY <1>1, <1>6, <1>7, <1>8, <1>9, <1>10, <1>11, <1>12, <1>13, <1>14, <1>15, <1>16 DEF Machine!MachineNext

-----------------------------------------------------------------------------
(* The composition.                                                        *)

\* Nothing has run before the program is compiled.
NotStarted ==
    status # "OK" => /\ pc = 0 /\ stack = << >> /\ calls = << >> /\ state = "running"
                     /\ regs[REG_RDX] = Machine!Undetermined

LEMMA NotStartedInit == ASSUME CompileAndRunInit PROVE NotStarted
  <1>1. Machine!MachineInit /\ calls = << >>
    BY DEF CompileAndRunInit
  <1> QED
    BY <1>1 DEF NotStarted, Machine!MachineInit, REG_RDX

LEMMA NotStartedStep == ASSUME NotStarted, [CompileAndRun]_all PROVE NotStarted'
  <1>1. CASE Compile
    <2>1. status = "running" /\ UNCHANGED machine
      BY <1>1 DEF Compile
    <2> QED
      BY <2>1 DEF NotStarted, machine
  <1>2. CASE Execute
    BY <1>2 DEF Execute, NotStarted, vars
  <1>3. CASE UNCHANGED all
    BY <1>3 DEF NotStarted, all, vars, machine
  <1> QED
    BY <1>1, <1>2, <1>3 DEF CompileAndRun

\* The code has types, and they are right whenever the machine is somewhere.
Discipline == status = "OK" => \E T : WellTyped(ir_code, T) /\ RunGood(T)

LEMMA DisciplineStep ==
    ASSUME RunInv, RunInv', NotStarted, Discipline, [CompileAndRun]_all,
           status' = "OK" => \E T : WellTyped(ir_code', T)
    PROVE  Discipline'
  <1>1. CASE status = "OK" /\ Execute
    <2>1. PICK T : WellTyped(ir_code, T) /\ RunGood(T)
      BY <1>1 DEF Discipline
    <2>2. RunGood(T)' /\ ir_code' = ir_code
      BY <1>1, <2>1, ExecuteGood DEF Execute, vars, output
    <2> QED
      BY <2>1, <2>2 DEF Discipline
  <1>2. CASE UNCHANGED all
    BY <1>2 DEF Discipline, RunGood, Stands, all, vars, output, machine
  <1>3. CASE Compile /\ status' = "OK"
    <2>1. PICK T : WellTyped(ir_code', T)
      BY <1>3
    <2>2. status = "running" /\ UNCHANGED machine
      BY <1>3 DEF Compile
    <2>3. pc' = 0 /\ stack' = << >> /\ calls' = << >> /\ regs'[REG_RDX] = Machine!Undetermined
      BY <2>2 DEF NotStarted, machine
    <2>4. T[pc' + 1] = Main
      BY <2>1, <2>3 DEF WellTyped
    <2>5. Main.at = "rest" /\ ~Main.func
      BY DEF Main, InMain
    <2>6. Good(T, Main, calls', stack', regs'[REG_RDX], regs'[REG_RBX])
      BY <2>3, <2>5 DEF Good, Running, Chain, Live, Datum
    <2>7. RunGood(T)'
      BY <2>4, <2>6 DEF RunGood, Stands
    <2> QED
      BY <2>1, <2>7 DEF Discipline
  <1>4. CASE Compile /\ status' # "OK"
    BY <1>4 DEF Discipline
  <1>5. Execute => status = "OK"
    BY DEF Execute
  <1> QED
    BY <1>1, <1>2, <1>3, <1>4, <1>5 DEF CompileAndRun

LEMMA DisciplineReturns == ASSUME RunInv, Discipline PROVE ReturnsToCaller
  <1>1. CASE status = "OK"
    <2>1. PICK T : WellTyped(ir_code, T) /\ RunGood(T)
      BY <1>1 DEF Discipline
    <2> QED
      BY <2>1, RunGoodReturns
  <1>2. CASE status # "OK"
    BY <1>2 DEF ReturnsToCaller, Returning
  <1> QED
    BY <1>1, <1>2

\* If the code has stack types, RET goes to the instruction behind the call, with
\* the depth and the frame register of the call, whatever is computed.
THEOREM TypedReturns ==
    CompileAndRunSpec /\ [](status = "OK" => Disciplined) => []ReturnsToCaller
  <1> DEFINE H == status = "OK" => Disciplined
  <1>1. ASSUME CompileAndRunInit PROVE Discipline
    BY <1>1 DEF CompileAndRunInit, Init, Discipline
  <1>2. ASSUME RunInv, RunInv', NotStarted, Discipline, [CompileAndRun]_all, H' PROVE Discipline'
    BY <1>2, DisciplineStep DEF Disciplined
  <1>3. RunInv /\ Discipline => ReturnsToCaller
    BY DisciplineReturns
  <1> HIDE DEF H
  <1>4. CompileAndRunSpec /\ []H => []ReturnsToCaller
    BY <1>1, <1>2, <1>3, RunInit, RunStep, NotStartedInit, NotStartedStep, PTL DEF CompileAndRunSpec
  <1> QED
    BY <1>4 DEF H

LEMMA StepOfConverter == ASSUME [CompileAndRun]_all PROVE [Next]_vars
  BY DEF CompileAndRun, Compile, Execute, all

\* Every RET of every program that obeys the grammar goes to the instruction
\* behind its call, with the stack and the frame register of the caller: if
\* realloc succeeds, no error is dropped, and no function is defined twice.
THEOREM AlwaysReturns ==
    ~AllocMayFail /\ WellFormed(Trees) /\ CompileAndRunSpec /\ []NoErrorDropped /\ []FunctionsOnce
       => []ReturnsToCaller
  <1> SUFFICES ASSUME ~AllocMayFail, WellFormed(Trees)
               PROVE  CompileAndRunSpec /\ []NoErrorDropped /\ []FunctionsOnce => []ReturnsToCaller
    OBVIOUS
  <1>1. CompileAndRunInit => CodeInv
    BY CodeInit DEF CompileAndRunInit
  <1>2. CodeInv /\ NoErrorDropped /\ FunctionsOnce /\ [CompileAndRun]_all => CodeInv'
    BY CodeKept, StepOfConverter
  <1>3. CodeInv => (status = "OK" => Disciplined)
    BY DEF CodeInv
  <1> QED
    BY <1>1, <1>2, <1>3, TypedReturns, PTL DEF CompileAndRunSpec
=============================================================================
