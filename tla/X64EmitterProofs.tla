-------------------------- MODULE X64EmitterProofs --------------------------
(***************************************************************************)
(* Theorems about X64Emitter, for every IR program, every page size and    *)
(* every choice of addresses.                                              *)
(***************************************************************************)
EXTENDS X64Emitter, AddrTranslProofs

(* What is common to the groups of x64 instructions of X64Encoding.        *)

\* What is common to all encodings: at most seven x64 instructions, none of
\* them with both immediates, and a relative jump is six bytes long.
WellFormed(x) == /\ x \in X64Instr
                 /\ ~("imm32" \in x.req /\ "imm64" \in x.req)
                 /\ x.fix = "rel" => WrittenBytes(x) = 6
GoodGroup(g) == /\ g \in Seq(X64Instr) /\ Len(g) \in 0 .. 7
                /\ \A j \in 1 .. Len(g) : WellFormed(g[j])

\* A 32 bit immediate is an integer.
LEMMA Imm32Type == ASSUME NEW v \in Int PROVE Imm32(v) \in Int
  BY Imm32Assumption DEF Imm32

\* ... and the number itself, if it is in range.
LEMMA Imm32Fits ==
    ASSUME NEW v \in Int, v >= -IMM32_HALF, v < IMM32_HALF PROVE Imm32(v) = v
  <1> DEFINE a == v + IMM32_HALF
             n == 2 * IMM32_HALF
  <1>1. a \in Nat /\ n \in Nat \ {0} /\ a < n
    BY Imm32Assumption
  <1>2. a % n = a
    <2> HIDE DEF a, n
    <2> QED
      BY <1>1
  <1> QED
    BY <1>2, Imm32Assumption DEF Imm32

\* The two passes take an instruction for the same number of bytes, and none
\* needs more than the threshold of resize_if_needed.
LEMMA SizesAgree ==
    ASSUME NEW x, WellFormed(x)
    PROVE  /\ CommandSize(x) = WrittenBytes(x)
           /\ WrittenBytes(x) \in Nat /\ WrittenBytes(x) <= EXEC_BUF_THRESHOLD
  BY DEF WellFormed, CommandSize, WrittenBytes, Bytes, SIZEOF_IMM32, SIZEOF_IMM64,
         EXEC_BUF_THRESHOLD

LEMMA InsGood ==
    ASSUME NEW op \in Ops, NEW reg \in Regs, NEW req \in SUBSET Fields, NEW imm \in Int,
           NEW fix \in {"none", "abs"}, ~("imm32" \in req /\ "imm64" \in req)
    PROVE  WellFormed(Ins(op, reg, req, imm, fix))
  BY DEF Ins, WellFormed, X64Instr, Fixups

LEMMA XGood ==
    ASSUME NEW op \in Ops, NEW reg \in Regs, NEW req \in SUBSET {"REX", "ModRM", "SIB"}
    PROVE  WellFormed(X(op, reg, req))
  BY InsGood DEF X, Fields

LEMMA MovGood ==
    ASSUME NEW reg \in Regs, NEW imm \in Int, NEW fix \in {"none", "abs"}
    PROVE  WellFormed(MovImm64(reg, imm, fix))
  BY InsGood DEF MovImm64, Fields, Ops

LEMMA SingletonGood == ASSUME NEW x, WellFormed(x) PROVE GoodGroup(<< x >>)
  <1>1. x \in X64Instr
    BY DEF WellFormed
  <1> QED
    BY <1>1 DEF GoodGroup

LEMMA EmptyGood == GoodGroup(<< >>)
  BY DEF GoodGroup

LEMMA RegNameType == ASSUME NEW n \in 0 .. 3 PROVE RegName(n) \in Regs
  BY DEF RegName, Regs

LEMMA MemOperandGood ==
    ASSUME NEW op \in Ops, NEW i \in Instr PROVE WellFormed(MemOperand(op, i))
  <1> DEFINE reg == IF i.need_reg_arg THEN RegName(i.reg_num) ELSE "none"
             req == {"REX", "ModRM"} \cup (IF i.need_imm_arg THEN {"imm32"} ELSE {})
                                     \cup (IF i.need_reg_arg THEN {"SIB"} ELSE {})
             imm == IF i.need_imm_arg THEN Imm32(i.imm_arg * 8) ELSE 0
  <1>1. i.imm_arg \in Int /\ i.reg_num \in 0 .. 3
    BY DEF Instr
  <1>2. Imm32(i.imm_arg * 8) \in Int
    BY <1>1, Imm32Type
  <1>3. reg \in Regs /\ imm \in Int
    BY <1>1, <1>2, RegNameType DEF Regs
  <1>4. req \in SUBSET Fields /\ "imm64" \notin req
    BY DEF Fields
  <1>5. WellFormed(Ins(op, reg, req, imm, "none"))
    <2> HIDE DEF reg, req, imm
    <2> QED
      BY <1>3, <1>4, InsGood
  <1> QED
    BY <1>5 DEF MemOperand

LEMMA PushPopGood ==
    ASSUME NEW i \in Instr, i.type \in {"PUSH", "POP"} PROVE GoodGroup(emit_push_or_pop(i))
  <1> DEFINE op(push, pop) == IF i.type = "PUSH" THEN push ELSE pop
  <1>1. CASE i.need_mem_arg
    <2>1. emit_push_or_pop(i) = << MemOperand(op("PUSH_mem", "POP_mem"), i) >>
      BY <1>1 DEF emit_push_or_pop
    <2>2. op("PUSH_mem", "POP_mem") \in Ops
      BY DEF Ops
    <2> HIDE DEF op
    <2> QED
      BY <2>1, <2>2, MemOperandGood, SingletonGood
  <1>2. CASE ~i.need_mem_arg /\ i.need_reg_arg
    <2>1. emit_push_or_pop(i) = << X(op("PUSH_reg", "POP_reg"), RegName(i.reg_num), {}) >>
      BY <1>2 DEF emit_push_or_pop
    <2>2. op("PUSH_reg", "POP_reg") \in Ops /\ RegName(i.reg_num) \in Regs
      BY RegNameType DEF Instr, Ops
    <2> HIDE DEF op
    <2> QED
      BY <2>1, <2>2, XGood, SingletonGood
  <1>3. CASE ~i.need_mem_arg /\ ~i.need_reg_arg /\ i.need_imm_arg
    <2> DEFINE v == i.imm_arg * FIXED_PRECISION_MULTIPLIER
    <2>1. emit_push_or_pop(i) =
             IF i.type = "PUSH" THEN << Ins("PUSH_imm", "none", {"imm32"}, Imm32(v), "none") >>
             ELSE << >>
      BY <1>3 DEF emit_push_or_pop
    <2>2. v \in Int
      BY DEF Instr, FIXED_PRECISION_MULTIPLIER
    <2> HIDE DEF v
    <2>3. Imm32(v) \in Int /\ {"imm32"} \in SUBSET Fields /\ ~("imm64" \in {"imm32"})
      BY <2>2, Imm32Type DEF Fields
    <2>4. WellFormed(Ins("PUSH_imm", "none", {"imm32"}, Imm32(v), "none"))
      BY <2>3, InsGood DEF Ops, Regs
    <2> QED
      BY <2>1, <2>4, EmptyGood, SingletonGood
  <1>4. CASE ~i.need_mem_arg /\ ~i.need_reg_arg /\ ~i.need_imm_arg
    <2>1. emit_push_or_pop(i) = << X("none", "none", {}) >>
      BY <1>4 DEF emit_push_or_pop
    <2> QED
      BY <2>1, XGood, SingletonGood DEF Ops, Regs
  <1> QED
    BY <1>1, <1>2, <1>3, <1>4

\* A group of members that are well formed.
LEMMA TupleGood ==
    ASSUME NEW g \in Seq(X64Instr), Len(g) \in 0 .. 7, \A j \in 1 .. Len(g) : WellFormed(g[j])
    PROVE  GoodGroup(g)
  BY DEF GoodGroup

LEMMA AddSubGood == ASSUME NEW i PROVE GoodGroup(emit_add_or_sub(i))
  <1> DEFINE op == IF i.type = "ADD" THEN "ADD_mem_reg" ELSE "SUB_mem_reg"
             a  == X("POP_reg", "RAX", {})
             b  == X(op, "RAX", {"REX", "ModRM", "SIB"})
  <1>1. WellFormed(a) /\ WellFormed(b)
    BY XGood DEF Ops, Regs
  <1>2. emit_add_or_sub(i) = << a, b >>
    BY DEF emit_add_or_sub
  <1> HIDE DEF a, b
  <1> QED
    BY <1>1, <1>2 DEF GoodGroup, WellFormed

LEMMA MulDivGood == ASSUME NEW i PROVE GoodGroup(emit_mull_or_div(i))
  <1> DEFINE pop2 == X("POP_reg", "R12", {"REX"})
             pop1 == X("POP_reg", "RAX", {})
             cqo  == X("CQO", "none", {"REX"})
             scale == MovImm64("RCX", FIXED_PRECISION_MULTIPLIER, "none")
             imul(reg) == X("IMUL_reg", reg, {"REX", "ModRM"})
             idiv(reg) == X("IDIV_reg", reg, {"REX", "ModRM"})
             push == X("PUSH_reg", "RAX", {})
             m1 == imul("R12")
             m2 == idiv("RCX")
             d1 == imul("RCX")
             d2 == idiv("R12")
  <1>1. /\ WellFormed(pop2) /\ WellFormed(pop1) /\ WellFormed(cqo) /\ WellFormed(push)
        /\ WellFormed(m1) /\ WellFormed(m2) /\ WellFormed(d1) /\ WellFormed(d2)
    BY XGood DEF Ops, Regs
  <1>2. WellFormed(scale)
    BY MovGood DEF Regs, FIXED_PRECISION_MULTIPLIER
  <1>3. emit_mull_or_div(i) = IF i.type = "MUL" THEN << pop2, pop1, cqo, m1, scale, m2, push >>
                                                ELSE << pop2, pop1, cqo, scale, d1, d2, push >>
    BY DEF emit_mull_or_div
  <1> HIDE DEF pop2, pop1, cqo, scale, push, m1, m2, d1, d2
  <1> QED
    BY <1>1, <1>2, <1>3 DEF GoodGroup, WellFormed

LEMMA LibFuncGood ==
    ASSUME NEW i \in Instr, i.type \in LibFuncs PROVE GoodGroup(emit_lib_func(i))
  <1> DEFINE arg  == X("POP_reg", "RDI", {})
             mov  == MovImm64("RAX", LibAddr[i.type], "none")
             save == X("PUSH_reg", "R8", {"REX"})
             call == X("CALL_reg", "RAX", {"ModRM"})
             back == X("POP_reg", "R8", {"REX"})
             ret  == X("PUSH_reg", "RAX", {})
  <1>1. LibAddr[i.type] \in Int
    BY LibAddrAssumption
  <1>2. WellFormed(mov)
    BY <1>1, MovGood DEF Regs
  <1>3. /\ WellFormed(arg) /\ WellFormed(save) /\ WellFormed(call)
        /\ WellFormed(back) /\ WellFormed(ret)
    BY XGood DEF Ops, Regs
  <1>4. /\ i.type = "INP"  => emit_lib_func(i) = << mov, save, call, back, ret >>
        /\ i.type = "OUT"  => emit_lib_func(i) = << arg, mov, save, call, back >>
        /\ i.type = "SQRT" => emit_lib_func(i) = << arg, mov, save, call, back, ret >>
        /\ i.type = "HALT" => emit_lib_func(i) = << mov, save, call, back >>
    BY DEF emit_lib_func
  <1> HIDE DEF arg, mov, save, call, back, ret
  <1>5. /\ GoodGroup(<< mov, save, call, back, ret >>)
        /\ GoodGroup(<< arg, mov, save, call, back >>)
        /\ GoodGroup(<< arg, mov, save, call, back, ret >>)
        /\ GoodGroup(<< mov, save, call, back >>)
    BY <1>2, <1>3 DEF GoodGroup, WellFormed
  <1> QED
    BY <1>4, <1>5 DEF LibFuncs

LEMMA TransferGood ==
    ASSUME NEW i \in Instr
    PROVE  /\ GoodGroup(emit_ret) /\ GoodGroup(emit_jmp_or_call(i))
           /\ i.type \in Jumps => GoodGroup(emit_cond_jmp(i))
  <1>1. GoodGroup(emit_ret)
    BY XGood, SingletonGood DEF emit_ret, Ops, Regs
  <1>2. GoodGroup(emit_jmp_or_call(i))
    <2> DEFINE mov == MovImm64("RAX", 0, "abs")
               op  == IF i.type = "CALL" THEN "CALL_reg" ELSE "JMP_reg"
               go  == X(op, "RAX", {"ModRM"})
    <2>1. WellFormed(mov) /\ WellFormed(go)
      BY MovGood, XGood DEF Ops, Regs
    <2>2. emit_jmp_or_call(i) = << mov, go >>
      BY DEF emit_jmp_or_call
    <2> HIDE DEF mov, go
    <2> QED
      BY <2>1, <2>2 DEF GoodGroup, WellFormed
  <1>3. ASSUME i.type \in Jumps PROVE GoodGroup(emit_cond_jmp(i))
    <2> DEFINE pop2 == X("POP_reg", "RCX", {})
               pop1 == X("POP_reg", "RAX", {})
               cmp  == X("CMP_reg_reg", "RAX", {"REX", "ModRM"})
               jcc  == Ins(translate_cond_jump_opcode(i), "none", {"prefix", "imm32"}, 0, "rel")
    <2>1. WellFormed(pop2) /\ WellFormed(pop1) /\ WellFormed(cmp)
      BY XGood DEF Ops, Regs
    <2>2. translate_cond_jump_opcode(i) \in Ops
      BY <1>3 DEF translate_cond_jump_opcode, Jumps, Ops, CondOps
    <2>3. WellFormed(jcc)
      BY <2>2 DEF Ins, WellFormed, X64Instr, Regs, Fields, Fixups, WrittenBytes, Bytes, SIZEOF_IMM32,
                  SIZEOF_IMM64
    <2>4. emit_cond_jmp(i) = << pop2, pop1, cmp, jcc >>
      BY DEF emit_cond_jmp
    <2> HIDE DEF pop2, pop1, cmp, jcc
    <2> QED
      BY <2>1, <2>3, <2>4 DEF GoodGroup, WellFormed
  <1> QED
    BY <1>1, <1>2, <1>3

\* Every IR instruction has a good group; that of an unsupported one is empty.
LEMMA EncodingGood ==
    ASSUME NEW i \in Instr PROVE GoodGroup(encode_one_ir_instruction(i))
  <1>1. CASE i.type \in {"PUSH", "POP"}
    BY <1>1, PushPopGood DEF encode_one_ir_instruction, LibFuncs, Jumps, Unsupported
  <1>2. CASE i.type \in {"ADD", "SUB"}
    BY <1>2, AddSubGood DEF encode_one_ir_instruction, LibFuncs, Jumps, Unsupported
  <1>3. CASE i.type \in {"MUL", "DIV"}
    BY <1>3, MulDivGood DEF encode_one_ir_instruction, LibFuncs, Jumps, Unsupported
  <1>4. CASE i.type \in LibFuncs
    BY <1>4, LibFuncGood DEF encode_one_ir_instruction, LibFuncs, Jumps, Unsupported
  <1>5. CASE i.type \in {"JMP", "CALL"}
    BY <1>5, TransferGood DEF encode_one_ir_instruction, LibFuncs, Jumps, Unsupported
  <1>6. CASE i.type = "RET"
    BY <1>6, TransferGood DEF encode_one_ir_instruction, LibFuncs, Jumps, Unsupported
  <1>7. CASE i.type \in Jumps
    BY <1>7, TransferGood DEF encode_one_ir_instruction, LibFuncs, Jumps, Unsupported
  <1>8. CASE i.type \in Unsupported
    BY <1>8, EmptyGood DEF encode_one_ir_instruction, LibFuncs, Jumps, Unsupported
  <1> QED
    BY <1>1, <1>2, <1>3, <1>4, <1>5, <1>6, <1>7, <1>8
    DEF Instr, InstrTypes, Encodable, Unsupported, Jumps, LibFuncs

LEMMA PreparationGood ==
    ASSUME NEW a \in Int
    PROVE  GoodGroup(emit_code_preparation(a)) /\ Len(emit_code_preparation(a)) = 1
  <1> DEFINE x == Ins("MOV_reg_imm32", "R8", {"REX", "ModRM", "imm32"}, Imm32(a), "none")
  <1>1. Imm32(a) \in Int /\ {"REX", "ModRM", "imm32"} \in SUBSET Fields
           /\ "imm64" \notin {"REX", "ModRM", "imm32"}
    BY Imm32Type DEF Fields
  <1>2. WellFormed(x)
    BY <1>1, InsGood DEF Ops, Regs
  <1>3. emit_code_preparation(a) = << x >>
    BY DEF emit_code_preparation
  <1> HIDE DEF x
  <1> QED
    BY <1>2, <1>3, SingletonGood
-----------------------------------------------------------------------------
\* Where the control of translate_from_ir may be.
Control ==
    status = "running" =>
        /\ pass_index \in {PASS_INDEX_TO_CALC_OFFSETS, PASS_INDEX_TO_WRITE}
        /\ k > 0 => cur <= Len(ir) /\ k <= Len(Group)
        /\ k = 0 => cur >= 1

TypeInv == TypeOK /\ Control

LEMMA GroupOfGood ==
    ASSUME TypeOK, NEW c \in 0 .. Len(ir)
    PROVE  /\ GoodGroup(GroupOf(c))
           /\ c = 0 => Len(GroupOf(c)) = 1
  <1>1. ir \in Seq(Instr) /\ ram_addr \in Int
    BY ProgramsAssumption, AddressAssumption DEF TypeOK, ram_addr
  <1>2. CASE c = 0
    BY <1>1, <1>2, PreparationGood DEF GroupOf
  <1>3. CASE c # 0
    <2>1. ir[c] \in Instr
      BY <1>1, <1>3
    <2> QED
      BY <1>3, <2>1, EncodingGood DEF GroupOf
  <1> QED
    BY <1>2, <1>3

\* What the two actions that emit have at hand.
LEMMA EmitFacts ==
    ASSUME TypeInv, NEW pass, AtInstruction(pass)
    PROVE  /\ cur \in 0 .. Len(ir) /\ k \in 1 .. Len(Group) /\ Len(Group) \in 1 .. 7
           /\ GoodGroup(Group) /\ WellFormed(Group[k]) /\ Group[k] \in X64Instr
           /\ CommandSize(Group[k]) = WrittenBytes(Group[k])
           /\ WrittenBytes(Group[k]) \in Nat /\ WrittenBytes(Group[k]) <= EXEC_BUF_THRESHOLD
  <1>1. cur \in 0 .. Len(ir) /\ k \in Nat /\ k > 0 /\ k <= Len(Group)
    BY ProgramsAssumption DEF TypeInv, TypeOK, Control, AtInstruction
  <1>2. GoodGroup(Group)
    BY <1>1, GroupOfGood DEF Group, TypeInv
  <1>3. k \in 1 .. Len(Group) /\ Len(Group) \in 1 .. 7
    BY <1>1, <1>2 DEF GoodGroup
  <1>4. WellFormed(Group[k])
    BY <1>2, <1>3 DEF GoodGroup
  <1> QED
    BY <1>1, <1>2, <1>3, <1>4, SizesAgree DEF WellFormed

LEMMA ResolvedType ==
    ASSUME TypeInv, AtInstruction(PASS_INDEX_TO_WRITE), ir[cur] \in Instr \/ Group[k].fix = "none"
    PROVE  Resolved(Group[k]) \in X64Instr
  <1>1. Group[k] \in X64Instr /\ addr_transl \in Translators
    BY EmitFacts DEF TypeInv, TypeOK
  <1>2. addr_transl_translate(addr_transl, ir[cur].imm_arg) \in Int
    BY <1>1, TranslateType
  <1>3. base_addr \in Int /\ exec_buf_size \in Int
    BY AddressAssumption DEF TypeInv, TypeOK, base_addr, MAP_FAILED
  <1>4. Imm32(addr_transl_translate(addr_transl, ir[cur].imm_arg)
                - (base_addr + exec_buf_size + 6)) \in Int
    BY <1>2, <1>3, Imm32Type
  <1> QED
    BY <1>1, <1>2, <1>3, <1>4 DEF Resolved, X64Instr, Fixups

LEMMA TypeInit == Init => TypeInv
  <1> SUFFICES ASSUME Init PROVE TypeInv
    OBVIOUS
  <1>1. addr_transl_new \in Translators
    BY DEF addr_transl_new, Translators
  <1>2. TypeOK
    BY <1>1, ProgramsAssumption, PageSizeAssumption
    DEF Init, TypeOK, TOTAL_PASS_COUNT, Statuses
  <1>3. Len(Group) = 1
    BY <1>2, GroupOfGood, ProgramsAssumption DEF Init, Group, TypeOK
  <1> QED
    BY <1>2, <1>3, ProgramsAssumption
    DEF Init, TypeInv, TypeOK, Control, PASS_INDEX_TO_CALC_OFFSETS, PASS_INDEX_TO_WRITE

LEMMA AdvanceType ==
    ASSUME TypeInv, NEW pass, AtInstruction(pass), Advance, ir' = ir, output_type' = output_type,
           ram_buf' = ram_buf
    PROVE  /\ cur' \in 0 .. Len(ir') + 1 /\ k' \in Nat
           /\ k' > 0 => cur' <= Len(ir') /\ k' <= Len(Group')
           /\ k' = 0 => cur' >= 1
  <1>1. cur \in 0 .. Len(ir) /\ k \in 1 .. Len(Group) /\ Len(Group) \in 1 .. 7
    BY EmitFacts
  <1>2. Len(ir) \in Nat
    BY ProgramsAssumption DEF TypeInv, TypeOK
  <1>3. cur' = cur => Group' = Group
    BY DEF Group, GroupOf, ram_addr
  <1> QED
    BY <1>1, <1>2, <1>3 DEF Advance

LEMMA TypeNext == TypeInv /\ [Next]_vars => TypeInv'
  <1> SUFFICES ASSUME TypeInv, [Next]_vars PROVE TypeInv'
    OBVIOUS
  <1> USE DEF PASS_INDEX_TO_CALC_OFFSETS, PASS_INDEX_TO_WRITE, TOTAL_PASS_COUNT
  <1>0. ir \in Seq(Instr) /\ Len(ir) \in Nat
    BY ProgramsAssumption DEF TypeInv, TypeOK
  <1>1. CASE NextIr
    <2>1. cur \in 1 .. Len(ir) /\ cur - 1 \in Int
      BY <1>0, <1>1 DEF NextIr, TypeInv, TypeOK, Control
    <2>2. addr_transl' \in Translators
      BY <1>1, <2>1, RememberResult DEF NextIr, TypeInv, TypeOK, Outcome
    <2>3. Group' = Group
      BY <1>1 DEF NextIr, args, Group, GroupOf, ram_addr
    <2>4. GoodGroup(Group)
      BY <2>1, GroupOfGood DEF TypeInv, Group
    <2>5. Group # << >> => 1 <= Len(Group)
      BY <2>4, SeqElement DEF GoodGroup
    <2>6. TypeOK'
      BY <1>1, <2>2 DEF NextIr, args, buffer, TypeInv, TypeOK, Statuses
    <2>7. Control'
      BY <1>1, <2>1, <2>3, <2>5 DEF NextIr, args, TypeInv, Control
    <2> QED
      BY <2>6, <2>7 DEF TypeInv
  <1>2. CASE emit_instruction_calc_offset
    <2>1. AtInstruction(0) /\ base_addr + exec_buf_size \in Int
      BY <1>2, AddressAssumption
      DEF emit_instruction_calc_offset, TypeInv, TypeOK, base_addr, MAP_FAILED
    <2>2. addr_transl' \in Translators
      BY <1>2, <2>1, InsertIfRememberedResult DEF emit_instruction_calc_offset, TypeInv, TypeOK
    <2>3. exec_buf_size' \in Nat
      <3>1. CommandSize(Group[k]) \in Nat /\ exec_buf_size \in Nat
        BY <2>1, EmitFacts DEF TypeInv, TypeOK
      <3> QED
        BY <1>2, <3>1 DEF emit_instruction_calc_offset
    <2>4. /\ cur' \in 0 .. Len(ir') + 1 /\ k' \in Nat
          /\ k' > 0 => cur' <= Len(ir') /\ k' <= Len(Group')
          /\ k' = 0 => cur' >= 1
      BY <1>2, <2>1, AdvanceType DEF emit_instruction_calc_offset, args
    <2> QED
      BY <1>2, <2>1, <2>2, <2>3, <2>4
      DEF emit_instruction_calc_offset, args, buffer, AtInstruction, TypeInv, TypeOK, Control
  <1>3. CASE emit_instruction_write
    <2>1. AtInstruction(1)
      BY <1>3 DEF emit_instruction_write
    <2>2. exec_buf_size' \in Nat
      <3>1. WrittenBytes(Group[k]) \in Nat /\ exec_buf_size \in Nat
        BY <2>1, EmitFacts DEF TypeInv, TypeOK
      <3> QED
        BY <1>3, <3>1 DEF emit_instruction_write
    <2>3. /\ cur' \in 0 .. Len(ir') + 1 /\ k' \in Nat
          /\ k' > 0 => cur' <= Len(ir') /\ k' <= Len(Group')
          /\ k' = 0 => cur' >= 1
      BY <1>3, <2>1, AdvanceType DEF emit_instruction_write, args
    <2>4. exec_buf' \in BufAddrs \cup {MAP_FAILED} /\ exec_buf_capacity' \in Nat
      BY <1>3 DEF emit_instruction_write, resize_if_needed, buffer, TypeInv, TypeOK
    <2>5. Resolved(Group[k]) \in X64Instr
      <3>1. cur # 0 => ir[cur] \in Instr
        BY <1>0, <2>1, EmitFacts
      <3>2. cur = 0 => Group[k].fix = "none"
        BY <2>1, EmitFacts DEF Group, GroupOf, emit_code_preparation, Ins
      <3> QED
        BY <2>1, <3>1, <3>2, ResolvedType
    <2>6. text' \in Seq(Entries)
      <3>1. exec_buf_size \in Nat /\ cur \in Nat /\ k \in Nat \ {0}
        BY <2>1, EmitFacts DEF TypeInv, TypeOK
      <3> QED
        BY <1>3, <2>5, <3>1 DEF emit_instruction_write, TypeInv, TypeOK, Entries
    <2> QED
      BY <1>3, <2>1, <2>2, <2>3, <2>4, <2>6
      DEF emit_instruction_write, args, AtInstruction, TypeInv, TypeOK, Control
  <1>4. CASE WriteFaults
    BY <1>4 DEF WriteFaults, args, buffer, TypeInv, TypeOK, Control, Statuses
  <1>5. CASE start_new_pass
    <2>1. ASSUME pass_index + 1 < 2
          PROVE  Len(Group') = 1
      <3>1. cur' = 0 /\ GroupOf(0)' = GroupOf(0)
        BY <1>5, <2>1 DEF start_new_pass, args, GroupOf, ram_addr
      <3>2. Len(GroupOf(0)) = 1
        BY <1>0, GroupOfGood DEF TypeInv
      <3> QED
        BY <3>1, <3>2 DEF Group, GroupOf
    <2>2. pass_index \in {0, 1}
      BY <1>5 DEF start_new_pass, TypeInv, Control
    <2>3. TypeOK'
      BY <1>5, <2>2 DEF start_new_pass, args, buffer, TypeInv, TypeOK, Statuses
    <2>4. Control'
      BY <1>0, <1>5, <2>1, <2>2 DEF start_new_pass, args, TypeInv, Control
    <2> QED
      BY <2>3, <2>4 DEF TypeInv
  <1>6. CASE UNCHANGED vars
    BY <1>6 DEF vars, args, buffer, TypeInv, TypeOK, Control, Group, GroupOf, ram_addr
  <1> QED
    BY <1>1, <1>2, <1>3, <1>4, <1>5, <1>6 DEF Next, Terminated

LEMMA TypeInvariant == Spec => []TypeInv
  BY TypeInit, TypeNext, PTL DEF Spec

\* Every reachable state of translate_from_ir is well typed: in particular the
\* counters of its loops stay inside the program.
THEOREM TypeCorrect == Spec => []TypeOK
  <1>1. TypeInv => TypeOK
    BY DEF TypeInv
  <1> QED
    BY <1>1, TypeInvariant, PTL
-----------------------------------------------------------------------------
(* The buffer.                                                             *)

\* The look-ahead of resize_if_needed as an inductive invariant: the room for
\* the longest instruction is there at the start of the second pass, because
\* the first one leaves the first page alone, and again after every write.
RoomInv ==
    /\ exec_buf_capacity >= PAGE_SIZE
    /\ status = "running" /\ pass_index = PASS_INDEX_TO_WRITE
          => exec_buf_size + EXEC_BUF_THRESHOLD < exec_buf_capacity

\* The capacity after a write: at least what it was, and twice that if the
\* look-ahead asks for it.
LEMMA RoomAfterWrite ==
    ASSUME NEW size \in Nat, NEW size2 \in Nat, NEW c \in Nat, NEW c2,
           size2 <= size + EXEC_BUF_THRESHOLD, size + EXEC_BUF_THRESHOLD < c,
           c2 = IF size2 + EXEC_BUF_THRESHOLD >= c THEN 2 * c ELSE c
    PROVE  c2 >= c /\ size2 + EXEC_BUF_THRESHOLD < c2
  BY DEF EXEC_BUF_THRESHOLD

\* Every write fits: RoomForNext, for every program, page size and behaviour of
\* mremap.
THEOREM BufferNeverOverruns == Spec => []RoomForNext
  <1>1. Init => RoomInv
    BY PageSizeAssumption
    DEF Init, RoomInv, EXEC_BUF_THRESHOLD, PASS_INDEX_TO_WRITE
  <1>2. TypeInv /\ RoomInv /\ [Next]_vars => RoomInv'
    <2> SUFFICES ASSUME TypeInv, RoomInv, [Next]_vars PROVE RoomInv'
      OBVIOUS
    <2> USE DEF PASS_INDEX_TO_CALC_OFFSETS, PASS_INDEX_TO_WRITE
    <2>1. CASE NextIr
      BY <2>1 DEF NextIr, buffer, RoomInv
    <2>2. CASE emit_instruction_calc_offset
      BY <2>2 DEF emit_instruction_calc_offset, AtInstruction, buffer, RoomInv
    <2>3. CASE emit_instruction_write
      <3>1. AtInstruction(PASS_INDEX_TO_WRITE)
        BY <2>3 DEF emit_instruction_write
      <3>2. WrittenBytes(Group[k]) \in Nat /\ WrittenBytes(Group[k]) <= EXEC_BUF_THRESHOLD
        BY <3>1, EmitFacts
      <3>3. exec_buf_size \in Nat /\ exec_buf_capacity \in Nat /\ PAGE_SIZE \in Nat
        BY PageSizeAssumption DEF TypeInv, TypeOK
      <3>4. exec_buf_size' \in Nat /\ exec_buf_size' <= exec_buf_size + EXEC_BUF_THRESHOLD
        BY <2>3, <3>2, <3>3 DEF emit_instruction_write, EXEC_BUF_THRESHOLD
      <3>5. exec_buf_capacity' = IF exec_buf_size' + EXEC_BUF_THRESHOLD >= exec_buf_capacity
                                 THEN 2 * exec_buf_capacity ELSE exec_buf_capacity
        BY <2>3 DEF emit_instruction_write, resize_if_needed, buffer
      <3>6. exec_buf_size + EXEC_BUF_THRESHOLD < exec_buf_capacity
        BY <3>1 DEF RoomInv, AtInstruction
      <3>7. /\ exec_buf_capacity' >= exec_buf_capacity
            /\ exec_buf_size' + EXEC_BUF_THRESHOLD < exec_buf_capacity'
        BY <3>3, <3>4, <3>5, <3>6, RoomAfterWrite
      <3>8. exec_buf_capacity' \in Nat
        BY <3>3, <3>5
      <3> QED
        BY <3>3, <3>7, <3>8 DEF RoomInv
    <2>4. CASE WriteFaults
      BY <2>4 DEF WriteFaults, buffer, RoomInv
    <2>5. CASE start_new_pass
      <3>1. exec_buf_capacity' = exec_buf_capacity /\ exec_buf_capacity \in Nat
        BY <2>5 DEF start_new_pass, buffer, TypeInv, TypeOK
      <3>2. status' = "running" => exec_buf_size' = 0
        BY <2>5 DEF start_new_pass
      <3> QED
        BY <3>1, <3>2, PageSizeAssumption DEF RoomInv, EXEC_BUF_THRESHOLD
    <2>6. CASE UNCHANGED vars
      BY <2>6 DEF vars, buffer, RoomInv
    <2> QED
      BY <2>1, <2>2, <2>3, <2>4, <2>5, <2>6 DEF Next, Terminated
  <1>3. TypeInv /\ RoomInv => RoomForNext
    <2> SUFFICES ASSUME TypeInv, RoomInv, AtInstruction(PASS_INDEX_TO_WRITE)
                 PROVE  exec_buf_size + WrittenBytes(Group[k]) <= exec_buf_capacity
      BY DEF RoomForNext
    <2>1. WrittenBytes(Group[k]) \in Nat /\ WrittenBytes(Group[k]) <= EXEC_BUF_THRESHOLD
      BY EmitFacts
    <2> QED
      BY <2>1 DEF RoomInv, AtInstruction, TypeInv, TypeOK, EXEC_BUF_THRESHOLD
  <1> QED
    BY <1>1, <1>2, <1>3, TypeInvariant, PTL DEF Spec
-----------------------------------------------------------------------------
(* The slot of the translator.                                             *)

\* In the first pass the slot holds the index of the IR instruction whose first
\* x64 instruction is about to be emitted, and nothing otherwise; the mappings
\* are those of the IR instructions begun so far, in order.
SlotInv ==
    /\ \A i \in DOMAIN addr_transl.mappings : addr_transl.mappings[i].old_addr = i - 1
    /\ status # "ERROR"
    /\ status = "crash" => exec_buf = MAP_FAILED
    /\ status = "running" =>
         /\ addr_transl.old_addr_is_stored <=> (pass_index = 0 /\ cur > 0 /\ k = 1)
         /\ addr_transl.old_addr_is_stored => addr_transl.stored_old_addr = cur - 1
         /\ Len(addr_transl.mappings) =
               IF pass_index = 1 THEN Len(ir)
               ELSE IF cur = 0 THEN 0 ELSE IF k <= 1 THEN cur - 1 ELSE cur

LEMMA SlotInit == Init => SlotInv
  BY DEF Init, SlotInv, addr_transl_new

\* A transition of the slot and the mappings in the first pass.
LEMMA SlotCalc ==
    ASSUME TypeInv, SlotInv, AllocMayFail = FALSE, emit_instruction_calc_offset
    PROVE  /\ addr_transl' \in Translators /\ ~addr_transl'.old_addr_is_stored
           /\ \/ /\ cur > 0 /\ k = 1 /\ Len(addr_transl.mappings) = cur - 1
                 /\ addr_transl'.mappings =
                       Append(addr_transl.mappings, [old_addr |-> cur - 1,
                                                     new_addr |-> base_addr + exec_buf_size])
              \/ /\ ~(cur > 0 /\ k = 1)
                 /\ addr_transl' = addr_transl
  <1>1. AtInstruction(0) /\ base_addr + exec_buf_size \in Int /\ addr_transl \in Translators
    BY AddressAssumption
    DEF emit_instruction_calc_offset, TypeInv, TypeOK, base_addr, MAP_FAILED,
        PASS_INDEX_TO_CALC_OFFSETS
  <1>2. /\ addr_transl.old_addr_is_stored <=> (cur > 0 /\ k = 1)
        /\ addr_transl.old_addr_is_stored => addr_transl.stored_old_addr = cur - 1
        /\ cur > 0 /\ k = 1 => Len(addr_transl.mappings) = cur - 1
    BY <1>1 DEF AtInstruction, SlotInv
  <1>3. PICK o \in addr_transl_insert_if_remembered_addr(addr_transl, base_addr + exec_buf_size) :
           addr_transl' = o.t
    BY DEF emit_instruction_calc_offset
  <1>4. /\ o.t \in Translators
        /\ \/ ~addr_transl.old_addr_is_stored /\ o.t = addr_transl
           \/ /\ addr_transl.old_addr_is_stored /\ ~o.t.old_addr_is_stored
              /\ o.t.mappings =
                    Append(addr_transl.mappings, [old_addr |-> addr_transl.stored_old_addr,
                                                  new_addr |-> base_addr + exec_buf_size])
    BY <1>1, InsertIfRememberedResult
  <1> QED
    BY <1>2, <1>3, <1>4

LEMMA SlotNext ==
    ASSUME AllocMayFail = FALSE PROVE TypeInv /\ SlotInv /\ [Next]_vars => SlotInv'
  <1> SUFFICES ASSUME TypeInv, SlotInv, [Next]_vars PROVE SlotInv'
    OBVIOUS
  <1> USE DEF PASS_INDEX_TO_CALC_OFFSETS, PASS_INDEX_TO_WRITE, TOTAL_PASS_COUNT
  <1> DEFINE M == [old_addr : Int, new_addr : Int]
  <1>0. /\ Len(ir) \in Nat /\ cur \in Nat /\ k \in Nat
        /\ addr_transl \in Translators /\ addr_transl.mappings \in Seq(M)
    BY ProgramsAssumption DEF TypeInv, TypeOK, Translators
  <1>1. CASE NextIr
    <2>1. status = "running" /\ cur >= 1 /\ cur \in Int /\ k = 0 /\ k' = 1 /\ cur' = cur
      BY <1>0, <1>1 DEF NextIr, TypeInv, Control
    <2>2. ~addr_transl.old_addr_is_stored
      BY <2>1 DEF SlotInv
    <2> DEFINE r == addr_transl_remember_old_addr(addr_transl, cur - 1)
    <2>3. /\ r.res = "OK" /\ r.t.mappings = addr_transl.mappings /\ r.t.old_addr_is_stored
          /\ r.t.stored_old_addr = cur - 1
      BY <1>0, <2>1, <2>2, RememberResult
    <2>4. CASE pass_index = 0
      <3>1. addr_transl' = r.t /\ status' \in {"running", "abort"} /\ pass_index' = 0 /\ ir' = ir
        BY <1>1, <2>3, <2>4 DEF NextIr, args
      <3> HIDE DEF r
      <3> QED
        BY <1>0, <2>1, <2>3, <2>4, <3>1 DEF SlotInv
    <2>5. CASE pass_index # 0
      <3>1. /\ addr_transl' = addr_transl /\ status' \in {"running", "abort"}
            /\ pass_index' = pass_index /\ ir' = ir
        BY <1>1, <2>5 DEF NextIr, args, Outcome
      <3>2. pass_index = 1
        BY <2>1, <2>5 DEF TypeInv, Control
      <3> QED
        BY <1>0, <2>1, <3>1, <3>2 DEF SlotInv
    <2> QED
      BY <2>4, <2>5
  <1>2. CASE emit_instruction_calc_offset
    <2>1. /\ AtInstruction(0) /\ ir' = ir /\ pass_index' = pass_index /\ status' = status
          /\ exec_buf' = exec_buf
      BY <1>2 DEF emit_instruction_calc_offset, args, buffer
    <2>2. k \in 1 .. Len(Group) /\ Len(Group) \in 1 .. 7
      BY <2>1, EmitFacts
    <2>3. k' \in Nat /\ k' # 1 /\ (k' = 0 => cur' = cur + 1) /\ (k' # 0 => cur' = cur /\ k' > 1)
      BY <1>0, <1>2, <2>2 DEF emit_instruction_calc_offset, Advance
    <2>4. cur = 0 => k' = 0
      <3>1. cur = 0 => Len(Group) = 1
        BY <1>0, GroupOfGood DEF Group, TypeInv
      <3>2. ASSUME Len(Group) = 1 PROVE ~(k < Len(Group))
        BY <2>2, <3>2
      <3> QED
        BY <1>2, <3>1, <3>2 DEF emit_instruction_calc_offset, Advance
    <2>5. CASE cur > 0 /\ k = 1
      <3>1. /\ ~addr_transl'.old_addr_is_stored
            /\ Len(addr_transl.mappings) = cur - 1
            /\ addr_transl'.mappings =
                 Append(addr_transl.mappings, [old_addr |-> cur - 1,
                                               new_addr |-> base_addr + exec_buf_size])
        BY <1>2, <2>5, SlotCalc
      <3>2. [old_addr |-> cur - 1, new_addr |-> base_addr + exec_buf_size] \in M
        BY <1>0, AddressAssumption DEF TypeInv, TypeOK, base_addr, MAP_FAILED
      <3>3. Len(addr_transl'.mappings) = cur
        BY <1>0, <3>1, <3>2, AppendFacts
      <3>4. \A i \in DOMAIN addr_transl'.mappings : addr_transl'.mappings[i].old_addr = i - 1
        BY <1>0, <3>1, <3>2, AppendFacts DEF SlotInv
      <3> QED
        BY <1>0, <2>1, <2>3, <2>5, <3>1, <3>3, <3>4 DEF SlotInv, AtInstruction
    <2>6. CASE ~(cur > 0 /\ k = 1)
      <3>1. addr_transl' = addr_transl /\ ~addr_transl'.old_addr_is_stored
        BY <1>2, <2>6, SlotCalc
      <3> QED
        BY <1>0, <2>1, <2>2, <2>3, <2>4, <2>6, <3>1 DEF SlotInv, AtInstruction
    <2> QED
      BY <2>5, <2>6
  <1>3. CASE emit_instruction_write
    <2>1. /\ AtInstruction(1) /\ ir' = ir /\ pass_index' = pass_index /\ status' = status
          /\ addr_transl' = addr_transl
      BY <1>3 DEF emit_instruction_write, args
    <2> QED
      BY <2>1 DEF SlotInv, AtInstruction
  <1>4. CASE WriteFaults
    BY <1>4 DEF WriteFaults, args, buffer, SlotInv
  <1>5. CASE start_new_pass
    <2>1. /\ status = "running" /\ k = 0 /\ cur = Len(ir) + 1 /\ pass_index \in {0, 1}
          /\ addr_transl' = addr_transl /\ ir' = ir /\ pass_index' = pass_index + 1
          /\ status' = IF pass_index = 0 THEN "running" ELSE "OK"
      BY <1>5 DEF start_new_pass, args, TypeInv, Control
    <2>2. Len(addr_transl.mappings) = Len(ir) /\ ~addr_transl.old_addr_is_stored
      BY <1>0, <2>1 DEF SlotInv
    <2> QED
      BY <2>1, <2>2 DEF SlotInv
  <1>6. CASE UNCHANGED vars
    BY <1>6 DEF vars, args, buffer, SlotInv
  <1> QED
    BY <1>1, <1>2, <1>3, <1>4, <1>5, <1>6 DEF Next, Terminated

\* While realloc succeeds, no IR program makes remember_old_addr fail; and
\* while mremap succeeds too, the translation does not crash.
THEOREM ErrorsNeedFailures ==
    ASSUME AllocMayFail = FALSE, MremapMayFail = FALSE PROVE Spec => []NoSpuriousError
  <1> DEFINE Mapped == exec_buf # MAP_FAILED
  <1>1. Init => Mapped
    BY AddressAssumption DEF Init, MAP_FAILED
  <1>2. Mapped /\ [Next]_vars => Mapped'
    BY AddressAssumption
    DEF Next, vars, buffer, NextIr, emit_instruction_calc_offset, emit_instruction_write,
        resize_if_needed, WriteFaults, start_new_pass, Terminated, MAP_FAILED
  <1>3. SlotInv /\ Mapped => NoSpuriousError
    BY DEF SlotInv, NoSpuriousError
  <1>4. TypeInv /\ SlotInv /\ [Next]_vars => SlotInv'
    BY SlotNext
  <1> HIDE DEF Mapped
  <1> QED
    BY <1>1, <1>2, <1>3, <1>4, SlotInit, TypeInvariant, PTL DEF Spec
-----------------------------------------------------------------------------
(* The two passes agree.                                                   *)

\* The offset of the j-th x64 instruction of a group, by the sizes that the
\* first pass adds up.  A group has at most seven members, so that the sum
\* needs no recursion.
SizeBefore(g, i, j) == IF i < j THEN CommandSize(g[i]) ELSE 0
BytesBefore(g, j) == SizeBefore(g, 1, j) + SizeBefore(g, 2, j) + SizeBefore(g, 3, j)
                + SizeBefore(g, 4, j) + SizeBefore(g, 5, j) + SizeBefore(g, 6, j)
                + SizeBefore(g, 7, j)

\* Adding to the j-th of seven terms adds to their sum.
LEMMA SumStep ==
    ASSUME NEW a \in Nat, NEW b \in Nat, NEW c \in Nat, NEW d \in Nat, NEW e \in Nat,
           NEW f \in Nat, NEW g \in Nat, NEW x \in Nat, NEW j \in 1 .. 7
    PROVE  (IF j = 1 THEN a + x ELSE a) + (IF j = 2 THEN b + x ELSE b)
             + (IF j = 3 THEN c + x ELSE c) + (IF j = 4 THEN d + x ELSE d)
             + (IF j = 5 THEN e + x ELSE e) + (IF j = 6 THEN f + x ELSE f)
             + (IF j = 7 THEN g + x ELSE g)
           = (a + b + c + d + e + f + g) + x
  OBVIOUS

LEMMA OffsetStep ==
    ASSUME NEW g, GoodGroup(g)
    PROVE  /\ BytesBefore(g, 1) = 0
           /\ \A j \in 1 .. Len(g) : BytesBefore(g, j + 1) = BytesBefore(g, j) + CommandSize(g[j])
           /\ \A j \in 1 .. Len(g) + 1 : BytesBefore(g, j) \in Nat
  <1>1. \A j \in 1 .. Len(g) : CommandSize(g[j]) \in Nat
    BY SizesAgree DEF GoodGroup
  <1>2. Len(g) \in 0 .. 7
    BY DEF GoodGroup
  <1>9. \A j \in 1 .. Len(g) : j \in 1 .. 7
    BY DEF GoodGroup
  <1>3. BytesBefore(g, 1) = 0
    BY DEF BytesBefore, SizeBefore
  <1>4. ASSUME NEW j \in 1 .. Len(g) + 1 PROVE BytesBefore(g, j) \in Nat
    <2> DEFINE a == SizeBefore(g, 1, j)
               b == SizeBefore(g, 2, j)
               c == SizeBefore(g, 3, j)
               d == SizeBefore(g, 4, j)
               e == SizeBefore(g, 5, j)
               f == SizeBefore(g, 6, j)
               h == SizeBefore(g, 7, j)
    <2>1. \A i \in 1 .. 7 : SizeBefore(g, i, j) \in Nat
      BY <1>1, <1>2 DEF SizeBefore
    <2>2. /\ a \in Nat /\ b \in Nat /\ c \in Nat /\ d \in Nat /\ e \in Nat /\ f \in Nat
          /\ h \in Nat
      BY <2>1
    <2>3. BytesBefore(g, j) = a + b + c + d + e + f + h
      BY DEF BytesBefore
    <2> HIDE DEF a, b, c, d, e, f, h
    <2> QED
      BY <2>2, <2>3
  <1>5. ASSUME NEW j \in 1 .. Len(g) PROVE BytesBefore(g, j + 1) = BytesBefore(g, j) + CommandSize(g[j])
    <2> DEFINE x == CommandSize(g[j])
               a == SizeBefore(g, 1, j)
               b == SizeBefore(g, 2, j)
               c == SizeBefore(g, 3, j)
               d == SizeBefore(g, 4, j)
               e == SizeBefore(g, 5, j)
               f == SizeBefore(g, 6, j)
               h == SizeBefore(g, 7, j)
    <2>1. \A i \in 1 .. 7 : SizeBefore(g, i, j) \in Nat
      BY <1>1, <1>2 DEF SizeBefore
    <2>2. /\ a \in Nat /\ b \in Nat /\ c \in Nat /\ d \in Nat /\ e \in Nat /\ f \in Nat
          /\ h \in Nat
      BY <2>1
    <2>9. x \in Nat /\ j \in 1 .. 7
      <3>1. x \in Nat
        BY <1>1
      <3>2. j \in 1 .. 7
        BY <1>9
      <3> QED
        BY <3>1, <3>2
    <2>3. \A i \in 1 .. 7 : SizeBefore(g, i, j + 1) =
                              IF j = i THEN SizeBefore(g, i, j) + x ELSE SizeBefore(g, i, j)
      BY <1>1, <1>2 DEF SizeBefore
    <2>4. /\ SizeBefore(g, 1, j + 1) = IF j = 1 THEN a + x ELSE a
          /\ SizeBefore(g, 2, j + 1) = IF j = 2 THEN b + x ELSE b
          /\ SizeBefore(g, 3, j + 1) = IF j = 3 THEN c + x ELSE c
          /\ SizeBefore(g, 4, j + 1) = IF j = 4 THEN d + x ELSE d
          /\ SizeBefore(g, 5, j + 1) = IF j = 5 THEN e + x ELSE e
          /\ SizeBefore(g, 6, j + 1) = IF j = 6 THEN f + x ELSE f
          /\ SizeBefore(g, 7, j + 1) = IF j = 7 THEN h + x ELSE h
      BY <2>3
    <2>5. /\ BytesBefore(g, j) = a + b + c + d + e + f + h
          /\ BytesBefore(g, j + 1) =
                SizeBefore(g, 1, j + 1) + SizeBefore(g, 2, j + 1) + SizeBefore(g, 3, j + 1)
                + SizeBefore(g, 4, j + 1) + SizeBefore(g, 5, j + 1) + SizeBefore(g, 6, j + 1)
                + SizeBefore(g, 7, j + 1)
      BY DEF BytesBefore
    <2> HIDE DEF a, b, c, d, e, f, h, x
    <2>6. BytesBefore(g, j + 1) =
            (IF j = 1 THEN a + x ELSE a) + (IF j = 2 THEN b + x ELSE b)
              + (IF j = 3 THEN c + x ELSE c) + (IF j = 4 THEN d + x ELSE d)
              + (IF j = 5 THEN e + x ELSE e) + (IF j = 6 THEN f + x ELSE f)
              + (IF j = 7 THEN h + x ELSE h)
      BY <2>4, <2>5
    <2>7. BytesBefore(g, j + 1) = (a + b + c + d + e + f + h) + x
      BY <2>2, <2>9, <2>6, SumStep
    <2>8. BytesBefore(g, j + 1) = BytesBefore(g, j) + x
      BY <2>5, <2>7
    <2> QED
      BY <2>8 DEF x
  <1> QED
    BY <1>3, <1>4, <1>5

\* The group and its size as functions of the program alone: in a binary r8
\* always holds RAM_BASE_ADDR.
Grp(p, c)  == IF c = 0 THEN emit_code_preparation(RAM_BASE_ADDR)
              ELSE encode_one_ir_instruction(p[c])
GrpSize(p, c) == BytesBefore(Grp(p, c), Len(Grp(p, c)) + 1)

\* The address that the translator t holds for the c-th IR instruction.
Addr(t, c) == IF c = 0 THEN CODE_BASE_ADDR ELSE t.mappings[c].new_addr

\* The mappings are one group apart.
Chain(t, p) == \A c \in 0 .. Len(t.mappings) - 1 : Addr(t, c + 1) = Addr(t, c) + GrpSize(p, c)

\* The address at which a pass stands, at the j-th x64 instruction of the c-th
\* IR instruction; at the head of the loop it is the end of the previous group,
\* which in the first pass is not yet recorded as the start of this one.
Standing(t, p, pass, c, j) ==
    IF j = 0 \/ (pass = 0 /\ c > 0 /\ j = 1)
    THEN Addr(t, c - 1) + GrpSize(p, c - 1)
    ELSE Addr(t, c) + BytesBefore(Grp(p, c), j)

\* An entry of the text lies where the first pass measured, and leads to where
\* the translator says.
Placed(e, t, p) ==
    /\ e.cur \in 0 .. Len(p) /\ e.k \in 1 .. Len(Grp(p, e.cur))
    /\ CODE_BASE_ADDR + e.at = Addr(t, e.cur) + BytesBefore(Grp(p, e.cur), e.k)
    /\ e.x.fix = "abs" => e.x.imm = addr_transl_translate(t, p[e.cur].imm_arg)
    /\ e.x.fix = "rel" => CODE_BASE_ADDR + e.at + WrittenBytes(e.x) + e.x.imm =
                            addr_transl_translate(t, p[e.cur].imm_arg)

\* The strengthening of JumpsLand that is inductive.
AgreeInv ==
    /\ Chain(addr_transl, ir)
    /\ status = "running" =>
          CODE_BASE_ADDR + exec_buf_size = Standing(addr_transl, ir, pass_index, cur, k)
    /\ pass_index = 0 => text = << >>
    /\ text # << >> => Len(addr_transl.mappings) = Len(ir)
    /\ \A i \in DOMAIN text : Placed(text[i], addr_transl, ir)

\* In a binary the group is that of the program.
LEMMA GroupIsGrp ==
    ASSUME TypeOK, Outputs = {"BINARY"}
    PROVE  /\ base_addr = CODE_BASE_ADDR
           /\ \A c \in 0 .. Len(ir) : GroupOf(c) = Grp(ir, c) /\ GoodGroup(Grp(ir, c))
           /\ Len(Grp(ir, 0)) = 1
  <1>1. output_type = "BINARY"
    BY DEF TypeOK
  <1>2. base_addr = CODE_BASE_ADDR /\ \A c : GroupOf(c) = Grp(ir, c)
    BY <1>1 DEF base_addr, GroupOf, Grp, ram_addr
  <1>3. Len(ir) \in Nat
    BY ProgramsAssumption DEF TypeOK
  <1> QED
    BY <1>2, <1>3, GroupOfGood

\* Where a pass stands after Advance: past the instruction it has just emitted.
LEMMA StandingAfter ==
    ASSUME TypeInv, Outputs = {"BINARY"}, NEW pass, AtInstruction(pass), Advance, NEW t,
           Addr(t, cur) \in Int
    PROVE  Standing(t, ir, pass, cur', k') =
              Addr(t, cur) + BytesBefore(Grp(ir, cur), k) + CommandSize(Group[k])
  <1>1. cur \in 0 .. Len(ir) /\ k \in 1 .. Len(Group) /\ Len(Group) \in 1 .. 7
    BY EmitFacts
  <1>2. Group = Grp(ir, cur) /\ GoodGroup(Grp(ir, cur))
    BY <1>1, GroupIsGrp DEF Group, TypeInv
  <1>3. /\ BytesBefore(Grp(ir, cur), k + 1) = BytesBefore(Grp(ir, cur), k) + CommandSize(Group[k])
        /\ BytesBefore(Grp(ir, cur), k) \in Nat
    BY <1>1, <1>2, OffsetStep
  <1>4. CommandSize(Group[k]) \in Nat
    BY EmitFacts
  <1>5. CASE k < Len(Group)
    <2>1. k' = k + 1 /\ cur' = cur /\ k' # 0 /\ k' # 1
      BY <1>1, <1>5 DEF Advance
    <2>2. Standing(t, ir, pass, cur', k') = Addr(t, cur) + BytesBefore(Grp(ir, cur), k + 1)
      BY <2>1 DEF Standing
    <2> QED
      BY <1>3, <1>4, <2>2
  <1>6. CASE ~(k < Len(Group))
    <2>1. k' = 0 /\ cur' = cur + 1 /\ cur' - 1 = cur /\ k = Len(Group)
      BY <1>1, <1>6 DEF Advance
    <2>2. Standing(t, ir, pass, cur', k') = Addr(t, cur) + GrpSize(ir, cur)
      BY <2>1 DEF Standing
    <2>3. GrpSize(ir, cur) = BytesBefore(Grp(ir, cur), k + 1)
      BY <1>2, <2>1 DEF GrpSize
    <2> QED
      BY <1>3, <1>4, <2>2, <2>3
  <1> QED
    BY <1>5, <1>6

LEMMA AddrType ==
    ASSUME NEW t \in Translators, NEW c \in 0 .. Len(t.mappings) PROVE Addr(t, c) \in Int
  <1>1. t.mappings \in Seq([old_addr : Int, new_addr : Int])
    BY DEF Translators
  <1>2. CASE c # 0
    <2>1. c \in 1 .. Len(t.mappings)
      BY <1>1, <1>2
    <2>2. t.mappings[c] \in [old_addr : Int, new_addr : Int]
      BY <1>1, <2>1, SeqElement
    <2> QED
      BY <1>2, <2>2 DEF Addr
  <1>3. CASE c = 0
    BY <1>3, AddressAssumption DEF Addr
  <1> QED
    BY <1>2, <1>3

-----------------------------------------------------------------------------
(* The size of the code.                                                   *)

\* The longest group there is: seven instructions of fifteen bytes.
GROUP_SPAN == 7 * EXEC_BUF_THRESHOLD

\* The code that is emitted for the first instructions of the program, and so
\* every address that the translator holds, is bounded by their number.
SpanInv ==
    /\ status = "running" =>
          exec_buf_size <= GROUP_SPAN * cur + (IF k = 0 THEN 0 ELSE EXEC_BUF_THRESHOLD * (k - 1))
    /\ \A i \in DOMAIN addr_transl.mappings :
          /\ CODE_BASE_ADDR <= addr_transl.mappings[i].new_addr
          /\ addr_transl.mappings[i].new_addr <= CODE_BASE_ADDR + GROUP_SPAN * (Len(ir) + 1)

LEMMA AtMostSeven ==
    ASSUME NEW n \in 1 .. 7, NEW j \in 1 .. n PROVE j \in 1 .. 7 /\ j \in Nat /\ j <= 7
  OBVIOUS

\* The end of an x64 instruction that is being emitted.
LEMMA SpanHere ==
    ASSUME TypeInv, SpanInv, NEW pass, AtInstruction(pass)
    PROVE  /\ exec_buf_size \in Nat /\ Len(ir) \in Nat
           /\ exec_buf_size + EXEC_BUF_THRESHOLD <= GROUP_SPAN * (Len(ir) + 1)
           /\ GROUP_SPAN * (Len(ir) + 1) \in Nat
  <1>1. cur \in 0 .. Len(ir) /\ k \in 1 .. 7 /\ exec_buf_size \in Nat /\ Len(ir) \in Nat
    <2>1. cur \in 0 .. Len(ir) /\ k \in 1 .. Len(Group) /\ Len(Group) \in 1 .. 7
      BY EmitFacts
    <2>2. exec_buf_size \in Nat /\ Len(ir) \in Nat
      BY ProgramsAssumption DEF TypeInv, TypeOK
    <2>3. k \in 1 .. 7
      BY <2>1, AtMostSeven
    <2> QED
      BY <2>1, <2>2, <2>3
  <1>2. exec_buf_size <= GROUP_SPAN * cur + EXEC_BUF_THRESHOLD * (k - 1)
    BY <1>1 DEF SpanInv, AtInstruction
  <1> QED
    BY <1>1, <1>2 DEF GROUP_SPAN, EXEC_BUF_THRESHOLD

\* The bound of the size is kept by an instruction of at most fifteen bytes.
LEMMA SpanAdvance ==
    ASSUME TypeInv, SpanInv, NEW pass, AtInstruction(pass), Advance, status' = status,
           exec_buf_size' \in Nat, exec_buf_size' <= exec_buf_size + EXEC_BUF_THRESHOLD
    PROVE  exec_buf_size' <=
              GROUP_SPAN * cur' + (IF k' = 0 THEN 0 ELSE EXEC_BUF_THRESHOLD * (k' - 1))
  <1>1. /\ cur \in Nat /\ k \in 1 .. Len(Group) /\ Len(Group) \in 1 .. 7
        /\ exec_buf_size \in Nat
    BY EmitFacts DEF TypeInv, TypeOK
  <1>2. exec_buf_size <= GROUP_SPAN * cur + EXEC_BUF_THRESHOLD * (k - 1)
    BY <1>1 DEF SpanInv, AtInstruction
  <1>3. CASE k < Len(Group)
    BY <1>1, <1>2, <1>3 DEF Advance, GROUP_SPAN, EXEC_BUF_THRESHOLD
  <1>4. CASE ~(k < Len(Group))
    <2>1. k' = 0 /\ cur' = cur + 1 /\ k <= 7 /\ k \in Nat
      <3>1. k <= 7 /\ k \in Nat
        BY <1>1, AtMostSeven
      <3> QED
        BY <1>4, <3>1 DEF Advance
    <2>2. exec_buf_size' <= GROUP_SPAN * (cur + 1)
      BY <1>1, <1>2, <2>1 DEF GROUP_SPAN, EXEC_BUF_THRESHOLD
    <2>3. GROUP_SPAN * (cur + 1) + 0 = GROUP_SPAN * (cur + 1)
      BY <1>1 DEF GROUP_SPAN, EXEC_BUF_THRESHOLD
    <2> QED
      BY <2>1, <2>2, <2>3
  <1> QED
    BY <1>3, <1>4

LEMMA SpanNext ==
    ASSUME Outputs = {"BINARY"} PROVE TypeInv /\ SpanInv /\ [Next]_vars => SpanInv'
  <1> SUFFICES ASSUME TypeInv, SpanInv, [Next]_vars PROVE SpanInv'
    OBVIOUS
  <1> DEFINE M == [old_addr : Int, new_addr : Int]
  <1>0. /\ addr_transl \in Translators /\ addr_transl.mappings \in Seq(M)
        /\ exec_buf_size \in Nat /\ CODE_BASE_ADDR \in Nat
    BY AddressAssumption DEF TypeInv, TypeOK, Translators
  <1>1. CASE NextIr
    <2>1. addr_transl'.mappings = addr_transl.mappings
      <3>1. cur - 1 \in Int
        BY ProgramsAssumption DEF TypeInv, TypeOK
      <3> QED
        BY <1>0, <1>1, <3>1, RememberResult DEF NextIr, Outcome
    <2>2. /\ status = "running" /\ k = 0 /\ k' = 1 /\ cur' = cur /\ ir' = ir
          /\ exec_buf_size' = exec_buf_size
      BY <1>1 DEF NextIr, args
    <2>3. EXEC_BUF_THRESHOLD * (1 - 1) = 0
      BY DEF EXEC_BUF_THRESHOLD
    <2>4. exec_buf_size' <= GROUP_SPAN * cur' + EXEC_BUF_THRESHOLD * (k' - 1)
      BY <2>2, <2>3 DEF SpanInv
    <2> QED
      BY <2>1, <2>2, <2>4 DEF SpanInv
  <1>2. CASE emit_instruction_calc_offset
    <2>1. /\ AtInstruction(0) /\ Advance /\ ir' = ir /\ status' = status
          /\ exec_buf_size' = exec_buf_size + CommandSize(Group[k])
      BY <1>2 DEF emit_instruction_calc_offset, args, PASS_INDEX_TO_CALC_OFFSETS
    <2>2. /\ exec_buf_size' \in Nat /\ exec_buf_size' <= exec_buf_size + EXEC_BUF_THRESHOLD
      BY <1>0, <2>1, EmitFacts DEF EXEC_BUF_THRESHOLD
    <2>3. exec_buf_size' <=
             GROUP_SPAN * cur' + (IF k' = 0 THEN 0 ELSE EXEC_BUF_THRESHOLD * (k' - 1))
      BY <2>1, <2>2, SpanAdvance
    <2>4. base_addr = CODE_BASE_ADDR
      BY GroupIsGrp DEF TypeInv
    <2> DEFINE here == CODE_BASE_ADDR + exec_buf_size
               old  == addr_transl.stored_old_addr
               m    == [old_addr |-> old, new_addr |-> here]
    <2>5. /\ here \in Int /\ CODE_BASE_ADDR <= here
          /\ here <= CODE_BASE_ADDR + GROUP_SPAN * (Len(ir) + 1)
      BY <1>0, <2>1, SpanHere DEF EXEC_BUF_THRESHOLD
    <2>6. \/ addr_transl'.mappings = addr_transl.mappings
          \/ addr_transl'.mappings = Append(addr_transl.mappings, m)
      <3>1. PICK o \in addr_transl_insert_if_remembered_addr(addr_transl, here) :
               addr_transl' = o.t
        BY <1>2, <2>4 DEF emit_instruction_calc_offset
      <3> QED
        BY <1>0, <2>5, <3>1, InsertIfRememberedResult
    <2>7. m \in M /\ m.new_addr = here
      BY <1>0, <2>5 DEF Translators
    <2>8. \A i \in DOMAIN addr_transl'.mappings :
             \/ addr_transl'.mappings[i].new_addr = here
             \/ i \in DOMAIN addr_transl.mappings
                /\ addr_transl'.mappings[i] = addr_transl.mappings[i]
      <3> HIDE DEF m, M, here
      <3> QED
        BY <1>0, <2>6, <2>7, AppendFacts
    <2> HIDE DEF here
    <2> QED
      BY <2>1, <2>3, <2>5, <2>8 DEF SpanInv
  <1>3. CASE emit_instruction_write
    <2>1. /\ AtInstruction(1) /\ Advance /\ ir' = ir /\ status' = status
          /\ addr_transl' = addr_transl
          /\ exec_buf_size' = exec_buf_size + WrittenBytes(Group[k])
      BY <1>3 DEF emit_instruction_write, args, PASS_INDEX_TO_WRITE
    <2>2. /\ exec_buf_size' \in Nat /\ exec_buf_size' <= exec_buf_size + EXEC_BUF_THRESHOLD
      BY <1>0, <2>1, EmitFacts DEF EXEC_BUF_THRESHOLD
    <2> QED
      BY <2>1, <2>2, SpanAdvance DEF SpanInv
  <1>4. CASE WriteFaults
    BY <1>4 DEF WriteFaults, args, SpanInv
  <1>5. CASE start_new_pass
    <2>1. /\ addr_transl' = addr_transl /\ ir' = ir
          /\ status' = "running" => exec_buf_size' = 0 /\ cur' = 0 /\ k' = 1
      BY <1>5 DEF start_new_pass, args
    <2> QED
      BY <2>1 DEF SpanInv, GROUP_SPAN, EXEC_BUF_THRESHOLD
  <1>6. CASE UNCHANGED vars
    BY <1>6 DEF vars, args, SpanInv
  <1> QED
    BY <1>1, <1>2, <1>3, <1>4, <1>5, <1>6 DEF Next, Terminated

\* The end of the longest code, of a program of n instructions, is below the
\* range of a 32 bit displacement: for n up to twenty million in the source.
Reachable(n) == CODE_BASE_ADDR + GROUP_SPAN * (n + 1) < IMM32_HALF

\* The displacement of a jump, to code or to ERROR, is not truncated.
LEMMA DisplacementFits ==
    ASSUME TypeInv, SpanInv, NEW pass, AtInstruction(pass), Reachable(Len(ir)), NEW a,
           Group[k].fix = "rel"
    PROVE  LET d == addr_transl_translate(addr_transl, a) - (CODE_BASE_ADDR + exec_buf_size + 6)
           IN  Imm32(d) = d
  <1> DEFINE target == addr_transl_translate(addr_transl, a)
             d == target - (CODE_BASE_ADDR + exec_buf_size + 6)
             top == GROUP_SPAN * (Len(ir) + 1)
  <1>1. /\ exec_buf_size \in Nat /\ exec_buf_size + EXEC_BUF_THRESHOLD <= top /\ top \in Nat
        /\ CODE_BASE_ADDR \in Nat /\ IMM32_HALF \in Nat /\ CODE_BASE_ADDR + top < IMM32_HALF
    BY SpanHere, AddressAssumption, Imm32Assumption DEF Reachable
  <1>2. target = -1 \/ (CODE_BASE_ADDR <= target /\ target <= CODE_BASE_ADDR + top)
    BY TranslateResult DEF TypeInv, TypeOK, SpanInv, ERROR
  <1>3. target \in Int
    BY TranslateType DEF TypeInv, TypeOK
  <1>4. d \in Int /\ d >= -IMM32_HALF /\ d < IMM32_HALF
    <2> HIDE DEF target, top
    <2> QED
      BY <1>1, <1>2, <1>3 DEF EXEC_BUF_THRESHOLD
  <1> HIDE DEF d
  <1>5. Imm32(d) = d
    BY <1>4, Imm32Fits
  <1> QED
    BY <1>5 DEF d

-----------------------------------------------------------------------------
(* The steps of the agreement.                                             *)

LEMMA AgreeInit ==
    ASSUME Outputs = {"BINARY"} PROVE Init => AgreeInv
  <1> SUFFICES ASSUME Init PROVE AgreeInv
    OBVIOUS
  <1>1. TypeInv
    BY TypeInit
  <1>2. GoodGroup(Grp(ir, 0))
    BY <1>1, ProgramsAssumption, GroupIsGrp DEF TypeInv, TypeOK
  <1>3. Standing(addr_transl, ir, pass_index, cur, k) = CODE_BASE_ADDR
    BY <1>2, OffsetStep, AddressAssumption DEF Init, Standing, Addr
  <1> QED
    BY <1>3, AddressAssumption DEF Init, AgreeInv, Chain, addr_transl_new

\* The step of AgreeInv at the head of the loop.
LEMMA AgreeNextIr ==
    ASSUME TypeInv, SlotInv, AgreeInv, Outputs = {"BINARY"}, NextIr
    PROVE  AgreeInv'
  <1>1. /\ Len(ir) \in Nat /\ cur \in 1 .. Len(ir) /\ k = 0 /\ status = "running"
        /\ addr_transl \in Translators /\ pass_index \in {0, 1}
    BY ProgramsAssumption
    DEF NextIr, TypeInv, TypeOK, Control, PASS_INDEX_TO_CALC_OFFSETS, PASS_INDEX_TO_WRITE
  <1>2. /\ ir' = ir /\ cur' = cur /\ k' = 1 /\ text' = text /\ pass_index' = pass_index
        /\ exec_buf_size' = exec_buf_size
    BY DEF NextIr, args
  <1>3. /\ addr_transl'.mappings = addr_transl.mappings
        /\ pass_index = 1 => addr_transl' = addr_transl
    BY <1>1, RememberResult
    DEF NextIr, Outcome, PASS_INDEX_TO_CALC_OFFSETS
  <1>4. \A c : Addr(addr_transl', c) = Addr(addr_transl, c)
    BY <1>3 DEF Addr
  <1>5. Chain(addr_transl', ir)
    BY <1>3, <1>4 DEF AgreeInv, Chain
  <1>6. CODE_BASE_ADDR + exec_buf_size =
           Addr(addr_transl, cur - 1) + GrpSize(ir, cur - 1)
    BY <1>1 DEF AgreeInv, Standing
  <1>7. CASE pass_index = 0
    <2>1. Standing(addr_transl', ir, 0, cur, 1) = Addr(addr_transl, cur - 1) + GrpSize(ir, cur - 1)
      BY <1>1, <1>4 DEF Standing
    <2> QED
      BY <1>2, <1>3, <1>5, <1>6, <1>7, <2>1 DEF AgreeInv
  <1>8. CASE pass_index = 1
    <2>1. Len(addr_transl.mappings) = Len(ir)
      BY <1>1, <1>8 DEF SlotInv
    <2>2. Addr(addr_transl, cur) = Addr(addr_transl, cur - 1) + GrpSize(ir, cur - 1)
      BY <1>1, <2>1 DEF AgreeInv, Chain
    <2>3. Addr(addr_transl, cur) \in Int
      BY <1>1, <2>1, AddrType
    <2>4. BytesBefore(Grp(ir, cur), 1) = 0
      BY <1>1, GroupIsGrp, OffsetStep DEF TypeInv
    <2>5. Standing(addr_transl', ir, 1, cur, 1) = Addr(addr_transl, cur)
      BY <1>4, <2>3, <2>4 DEF Standing
    <2> QED
      BY <1>2, <1>3, <1>5, <1>6, <1>8, <2>2, <2>5 DEF AgreeInv
  <1> QED
    BY <1>1, <1>7, <1>8

\* ... in the first pass, where a mapping may be appended ...
LEMMA AgreeCalc ==
    ASSUME TypeInv, SlotInv, AgreeInv, Outputs = {"BINARY"}, AllocMayFail = FALSE,
           emit_instruction_calc_offset
    PROVE  AgreeInv'
  <1> DEFINE M == [old_addr : Int, new_addr : Int]
             t == addr_transl
             u == addr_transl'
             here == CODE_BASE_ADDR + exec_buf_size
  <1>1. /\ AtInstruction(0) /\ pass_index = 0 /\ status = "running" /\ text = << >>
        /\ ir' = ir /\ text' = text /\ pass_index' = 0 /\ Advance
        /\ exec_buf_size' = exec_buf_size + CommandSize(Group[k])
    BY DEF emit_instruction_calc_offset, args, AtInstruction, AgreeInv, PASS_INDEX_TO_CALC_OFFSETS
  <1>2. /\ cur \in 0 .. Len(ir) /\ k \in Nat /\ k > 0 /\ CommandSize(Group[k]) \in Nat
    BY <1>1, EmitFacts
  <1>3. base_addr = CODE_BASE_ADDR /\ GoodGroup(Grp(ir, cur))
    BY <1>2, GroupIsGrp DEF TypeInv
  <1>4. t \in Translators /\ u \in Translators /\ t.mappings \in Seq(M) /\ here \in Int
    <2>1. u \in Translators
      BY SlotCalc
    <2>2. t \in Translators /\ t.mappings \in Seq(M)
      BY DEF TypeInv, TypeOK, Translators
    <2>3. here \in Int
      BY AddressAssumption DEF TypeInv, TypeOK
    <2> QED
      BY <2>1, <2>2, <2>3
  <1>5. here = Standing(t, ir, 0, cur, k)
    BY <1>1 DEF AgreeInv
  <1>6. CASE cur > 0 /\ k = 1
    <2> DEFINE m == [old_addr |-> cur - 1, new_addr |-> here]
    <2>1. Len(t.mappings) = cur - 1 /\ u.mappings = Append(t.mappings, m) /\ m \in M
      <3>1. m \in M
        BY <1>2, <1>4
      <3>2. Len(t.mappings) = cur - 1 /\ u.mappings = Append(t.mappings, m)
        BY <1>3, <1>6, SlotCalc
      <3> QED
        BY <3>1, <3>2
    <2>2. /\ Len(u.mappings) = cur /\ u.mappings[cur].new_addr = here
          /\ \A i \in 1 .. cur - 1 : u.mappings[i] = t.mappings[i]
      <3> HIDE DEF M
      <3>1. cur - 1 + 1 = cur
        BY <1>2
      <3>2. /\ Len(u.mappings) = cur /\ u.mappings[cur] = m
            /\ \A i \in 1 .. cur - 1 : u.mappings[i] = t.mappings[i]
        BY <1>4, <2>1, <3>1, AppendFacts
      <3> QED
        BY <3>2
    <2>3. Addr(u, cur) = here /\ \A c \in 0 .. cur - 1 : Addr(u, c) = Addr(t, c)
      BY <1>2, <1>6, <2>2 DEF Addr
    <2>4. here = Addr(t, cur - 1) + GrpSize(ir, cur - 1)
      BY <1>5, <1>6 DEF Standing
    <2>5. Chain(u, ir)
      <3> SUFFICES ASSUME NEW c \in 0 .. cur - 1
                   PROVE  Addr(u, c + 1) = Addr(u, c) + GrpSize(ir, c)
        BY <2>2 DEF Chain
      <3>1. CASE c = cur - 1
        BY <1>2, <2>3, <2>4, <3>1
      <3>2. CASE c # cur - 1
        <4>1. c \in 0 .. cur - 2 /\ c + 1 \in 0 .. cur - 1
          BY <1>2, <3>2
        <4>2. Addr(t, c + 1) = Addr(t, c) + GrpSize(ir, c)
          BY <1>2, <2>1, <4>1 DEF AgreeInv, Chain
        <4> QED
          BY <2>3, <4>1, <4>2
      <3> QED
        BY <3>1, <3>2
    <2>6. BytesBefore(Grp(ir, cur), 1) = 0
      BY <1>3, OffsetStep
    <2>7. Standing(u, ir, 0, cur', k') = Addr(u, cur) + BytesBefore(Grp(ir, cur), k) + CommandSize(Group[k])
      BY <1>1, <1>4, <2>3, StandingAfter
    <2>8. CODE_BASE_ADDR + exec_buf_size' = Standing(u, ir, 0, cur', k')
      BY <1>1, <1>2, <1>4, <1>6, <2>3, <2>6, <2>7, AddressAssumption DEF TypeInv, TypeOK
    <2> QED
      BY <1>1, <2>5, <2>8 DEF AgreeInv
  <1>7. CASE ~(cur > 0 /\ k = 1)
    <2>1. u = t
      BY <1>7, SlotCalc
    <2>2. here = Addr(t, cur) + BytesBefore(Grp(ir, cur), k)
      BY <1>2, <1>5, <1>7 DEF Standing
    <2>3. Len(t.mappings) = IF cur = 0 THEN 0 ELSE cur
      BY <1>1, <1>2, <1>7 DEF SlotInv
    <2>4. Addr(t, cur) \in Int
      BY <1>2, <1>4, <2>3, AddrType
    <2>5. Standing(t, ir, 0, cur', k') = Addr(t, cur) + BytesBefore(Grp(ir, cur), k) + CommandSize(Group[k])
      BY <1>1, <2>4, StandingAfter
    <2>6. CODE_BASE_ADDR + exec_buf_size' = Standing(t, ir, 0, cur', k')
      BY <1>1, <1>2, <1>4, <2>2, <2>5, AddressAssumption DEF TypeInv, TypeOK
    <2> QED
      BY <1>1, <2>1, <2>6 DEF AgreeInv
  <1> QED
    BY <1>6, <1>7

\* ... in the second pass, where an x64 instruction is written ...
LEMMA AgreeWrite ==
    ASSUME TypeInv, SlotInv, AgreeInv, SpanInv, Outputs = {"BINARY"}, Reachable(Len(ir)),
           emit_instruction_write
    PROVE  AgreeInv'
  <1> DEFINE t == addr_transl
             x == Group[k]
             e == [at |-> exec_buf_size, x |-> Resolved(x), cur |-> cur, k |-> k]
             target == addr_transl_translate(t, ir[cur].imm_arg)
  <1>1. /\ AtInstruction(1) /\ pass_index = 1 /\ status = "running"
        /\ ir' = ir /\ pass_index' = 1 /\ Advance /\ addr_transl' = t
        /\ exec_buf_size' = exec_buf_size + WrittenBytes(x)
        /\ text' = Append(text, e)
    BY DEF emit_instruction_write, args, AtInstruction, PASS_INDEX_TO_WRITE
  <1>2. /\ cur \in 0 .. Len(ir) /\ k \in 1 .. Len(Group) /\ k # 0 /\ WellFormed(x)
        /\ WrittenBytes(x) \in Nat /\ CommandSize(x) = WrittenBytes(x)
    BY <1>1, EmitFacts
  <1>3. base_addr = CODE_BASE_ADDR /\ Group = Grp(ir, cur) /\ GoodGroup(Grp(ir, cur))
    BY <1>2, GroupIsGrp DEF TypeInv, Group
  <1>4. Len(t.mappings) = Len(ir) /\ t \in Translators
    BY <1>1 DEF SlotInv, TypeInv, TypeOK
  <1>5. Addr(t, cur) \in Int
    BY <1>2, <1>4, AddrType
  <1>6. CODE_BASE_ADDR + exec_buf_size = Addr(t, cur) + BytesBefore(Grp(ir, cur), k)
    BY <1>1, <1>2 DEF AgreeInv, Standing
  <1>7. CODE_BASE_ADDR + exec_buf_size' = Standing(t, ir, 1, cur', k')
    <2>1. Standing(t, ir, 1, cur', k') = Addr(t, cur) + BytesBefore(Grp(ir, cur), k) + CommandSize(x)
      BY <1>1, <1>5, StandingAfter
    <2> HIDE DEF x
    <2> QED
      BY <1>1, <1>2, <1>6, <2>1, AddressAssumption DEF TypeInv, TypeOK
  <1>8. Placed(e, t, ir)
    <2>1. target \in Int /\ exec_buf_size \in Int /\ CODE_BASE_ADDR \in Int
      BY <1>4, TranslateType, AddressAssumption DEF TypeInv, TypeOK
    <2>2. x \in X64Instr
      BY <1>2 DEF WellFormed
    <2>3. /\ x.fix = "none" => Resolved(x) = x
          /\ x.fix = "abs" => Resolved(x) = [x EXCEPT !.imm = target]
          /\ x.fix = "rel" =>
               Resolved(x) = [x EXCEPT !.imm = Imm32(target - (base_addr + exec_buf_size + 6))]
      BY DEF Resolved
    <2>4. Resolved(x).fix = x.fix /\ Resolved(x).req = x.req
      <3> HIDE DEF x, target
      <3> QED
        BY <2>2, <2>3 DEF X64Instr, Fixups
    <2>5. x.fix = "abs" => Resolved(x).imm = target
      <3> HIDE DEF x, target
      <3> QED
        BY <2>2, <2>3 DEF X64Instr
    <2>6. x.fix = "rel" => Resolved(x).imm = target - (CODE_BASE_ADDR + exec_buf_size + 6)
      <3>1. x.fix = "rel" => Resolved(x).imm = Imm32(target - (base_addr + exec_buf_size + 6))
        <4> HIDE DEF x, target
        <4> QED
          BY <2>2, <2>3 DEF X64Instr
      <3>2. x.fix = "rel" => Imm32(target - (CODE_BASE_ADDR + exec_buf_size + 6)) =
                                target - (CODE_BASE_ADDR + exec_buf_size + 6)
        BY <1>1, DisplacementFits
      <3> QED
        BY <1>3, <3>1, <3>2
    <2>7. WrittenBytes(Resolved(x)) = WrittenBytes(x)
      BY <2>4 DEF WrittenBytes, Bytes
    <2>8. x.fix = "rel" => WrittenBytes(x) = 6
      BY <1>2 DEF WellFormed
    <2>9. x.fix = "rel" =>
            CODE_BASE_ADDR + exec_buf_size + WrittenBytes(Resolved(x)) + Resolved(x).imm = target
      <3> HIDE DEF x, target
      <3> QED
        BY <2>1, <2>6, <2>7, <2>8
    <2>10. /\ e.at = exec_buf_size /\ e.cur = cur /\ e.k = k /\ e.x = Resolved(x)
      OBVIOUS
    <2> HIDE DEF e, x
    <2> QED
      BY <1>2, <1>3, <1>6, <2>4, <2>5, <2>9, <2>10 DEF Placed
  <1>9. \A i \in DOMAIN text' : Placed(text'[i], t, ir)
    <2>1. text \in Seq(Entries)
      BY DEF TypeInv, TypeOK
    <2>2. ir[cur] \in Instr \/ x.fix = "none"
      <3>1. CASE cur = 0
        <4>1. Group = emit_code_preparation(ram_addr)
          BY <3>1 DEF Group, GroupOf
        <4>2. Len(Group) = 1 /\ k = 1
          BY <1>2, <4>1 DEF emit_code_preparation
        <4> QED
          BY <4>1, <4>2 DEF emit_code_preparation, Ins
      <3>2. CASE cur # 0
        BY <1>2, <3>2, ProgramsAssumption DEF TypeInv, TypeOK
      <3> QED
        BY <3>1, <3>2
    <2>3. Resolved(x) \in X64Instr
      BY <1>1, <2>2, ResolvedType DEF PASS_INDEX_TO_WRITE
    <2>4. e \in Entries
      BY <1>2, <2>3, ProgramsAssumption DEF Entries, TypeInv, TypeOK
    <2> HIDE DEF e
    <2>5. \A i \in DOMAIN text' : text'[i] = e \/ (i \in DOMAIN text /\ text'[i] = text[i])
      BY <1>1, <2>1, <2>4, AppendFacts
    <2> QED
      BY <1>8, <2>5 DEF AgreeInv
  <1> HIDE DEF e
  <1> QED
    BY <1>1, <1>4, <1>7, <1>9 DEF AgreeInv

\* ... and all the steps together.
LEMMA AgreeNext ==
    ASSUME Outputs = {"BINARY"}, AllocMayFail = FALSE, \A p \in Programs : Reachable(Len(p))
    PROVE  TypeInv /\ SlotInv /\ SpanInv /\ AgreeInv /\ [Next]_vars => AgreeInv'
  <1> SUFFICES ASSUME TypeInv, SlotInv, SpanInv, AgreeInv, [Next]_vars PROVE AgreeInv'
    OBVIOUS
  <1>0. Reachable(Len(ir))
    BY DEF TypeInv, TypeOK
  <1>1. CASE NextIr
    BY <1>1, AgreeNextIr
  <1>2. CASE emit_instruction_calc_offset
    BY <1>2, AgreeCalc
  <1>3. CASE emit_instruction_write
    BY <1>0, <1>3, AgreeWrite
  <1>4. CASE WriteFaults
    BY <1>4 DEF WriteFaults, args, AgreeInv
  <1>5. CASE start_new_pass
    <2>1. /\ status = "running" /\ k = 0 /\ cur = Len(ir) + 1 /\ pass_index \in {0, 1}
          /\ addr_transl' = addr_transl /\ ir' = ir /\ text' = text
          /\ pass_index' = pass_index + 1 /\ Len(ir) \in Nat
      BY <1>5, ProgramsAssumption
      DEF start_new_pass, args, TypeInv, TypeOK, Control, PASS_INDEX_TO_CALC_OFFSETS,
          PASS_INDEX_TO_WRITE
    <2>2. CASE pass_index = 0
      <3>1. exec_buf_size' = 0 /\ cur' = 0 /\ k' = 1 /\ pass_index' = 1 /\ text = << >>
        BY <1>5, <2>1, <2>2 DEF start_new_pass, AgreeInv, TOTAL_PASS_COUNT
      <3>2. BytesBefore(Grp(ir, 0), 1) = 0
        BY <2>1, GroupIsGrp, OffsetStep DEF TypeInv
      <3>3. Standing(addr_transl, ir, 1, 0, 1) = CODE_BASE_ADDR
        BY <3>2, AddressAssumption DEF Standing, Addr
      <3> QED
        BY <2>1, <3>1, <3>3, AddressAssumption DEF AgreeInv
    <2>3. CASE pass_index = 1
      <3>1. status' = "OK" /\ pass_index' = 2
        BY <1>5, <2>3 DEF start_new_pass, TOTAL_PASS_COUNT
      <3> QED
        BY <2>1, <3>1 DEF AgreeInv
    <2> QED
      BY <2>1, <2>2, <2>3
  <1>6. CASE UNCHANGED vars
    BY <1>6 DEF vars, args, AgreeInv
  <1> QED
    BY <1>1, <1>2, <1>3, <1>4, <1>5, <1>6 DEF Next, Terminated

\* In a binary, while realloc succeeds and 32 bits suffice for a displacement,
\* every jump and every call leads to the code of the IR instruction it names.
THEOREM JumpsLandInBinary ==
    ASSUME Outputs = {"BINARY"}, AllocMayFail = FALSE, \A p \in Programs : Reachable(Len(p))
    PROVE  Spec => []JumpsLand
  <1>1. TypeInv /\ SlotInv /\ AgreeInv => JumpsLand
    <2> SUFFICES ASSUME TypeInv, SlotInv, AgreeInv, NEW d \in DOMAIN text, NEW e \in DOMAIN text,
                        text[d].x.fix # "none", text[e].cur > 0, text[e].k = 1,
                        text[e].cur - 1 = ir[text[d].cur].imm_arg
                 PROVE  Landing(text[d]) = base_addr + text[e].at
      BY DEF JumpsLand
    <2> DEFINE t == addr_transl
               n == ir[text[d].cur].imm_arg
    <2>1. /\ t \in Translators /\ text \in Seq(Entries) /\ base_addr = CODE_BASE_ADDR
          /\ Placed(text[d], t, ir) /\ Placed(text[e], t, ir) /\ Len(t.mappings) = Len(ir)
      BY GroupIsGrp DEF TypeInv, TypeOK, AgreeInv
    <2>2. text[d] \in Entries /\ text[e] \in Entries
      BY <2>1, SeqElement
    <2>3. text[d].x.fix \in {"abs", "rel"}
      BY <2>2 DEF Entries, X64Instr, Fixups
    <2>4. Landing(text[d]) = addr_transl_translate(t, n)
      BY <2>1, <2>3 DEF Placed, Landing
    <2>5. text[e].cur \in 1 .. Len(ir)
      BY <2>1, <2>2 DEF Placed, Entries
    <2>6. t.mappings[text[e].cur].old_addr = n /\ DOMAIN t.mappings = 1 .. Len(ir)
      BY <2>1, <2>5, SeqElement DEF SlotInv, Translators
    <2>7. \A i \in DOMAIN t.mappings : t.mappings[i].old_addr = n => i = text[e].cur
      BY <2>1, <2>2, <2>6 DEF SlotInv, Entries
    <2>8. addr_transl_translate(t, n) = Addr(t, text[e].cur)
      <3>1. addr_transl_translate(t, n) = t.mappings[text[e].cur].new_addr
        BY <2>1, <2>5, <2>6, <2>7, TranslateResult
      <3> QED
        BY <2>5, <3>1 DEF Addr
    <2>9. BytesBefore(Grp(ir, text[e].cur), 1) = 0
      BY <2>5, GroupIsGrp, OffsetStep DEF TypeInv
    <2>10. Addr(t, text[e].cur) \in Int
      BY <2>1, <2>5, AddrType
    <2>11. CODE_BASE_ADDR + text[e].at = Addr(t, text[e].cur)
      BY <2>1, <2>9, <2>10 DEF Placed
    <2> QED
      BY <2>1, <2>4, <2>8, <2>11
  <1>2. Init => AgreeInv
    BY AgreeInit
  <1>3. TypeInv /\ SlotInv /\ [Next]_vars => SlotInv'
    BY SlotNext
  <1>4. TypeInv /\ SlotInv /\ SpanInv /\ AgreeInv /\ [Next]_vars => AgreeInv'
    BY AgreeNext
  <1>5. Init => SpanInv
    BY DEF Init, SpanInv, addr_transl_new, GROUP_SPAN, EXEC_BUF_THRESHOLD
  <1>6. TypeInv /\ SpanInv /\ [Next]_vars => SpanInv'
    BY SpanNext
  <1> QED
    BY <1>1, <1>2, <1>3, <1>4, <1>5, <1>6, SlotInit, TypeInvariant, PTL DEF Spec
-----------------------------------------------------------------------------
(* Whether realloc succeeds or fails: which IR instructions are mapped     *)
(* when the translation succeeds, and where their mappings point.          *)

\* The index of the IR instruction whose group was begun last.
Last == IF k = 0 THEN cur - 2 ELSE cur - 1

\* In the first pass every instruction that was begun is mapped, but for the
\* last one, which may wait in the slot; the head of the loop does not let it
\* wait any longer.
MappedInv ==
    /\ \A i \in 1 .. Len(addr_transl.mappings) : addr_transl.mappings[i].new_addr \in Nat
    /\ pass_index = 0 => exec_buf \in BufAddrs
    /\ status = "running" /\ pass_index = 0 =>
          /\ addr_transl.old_addr_is_stored => addr_transl.stored_old_addr = Last /\ Last >= 0
          /\ \A i \in 0 .. Last :
                HasOld(addr_transl, i) \/ (addr_transl.old_addr_is_stored /\ i = Last)
    /\ (status = "running" /\ pass_index = 1) \/ status = "OK" =>
          \A i \in 0 .. Len(ir) - 2 : HasOld(addr_transl, i)

\* What is there stays there when a mapping is appended, and the new one is too.
LEMMA HasAppended ==
    ASSUME NEW t \in Translators, NEW u, NEW m \in [old_addr : Int, new_addr : Int],
           u.mappings = Append(t.mappings, m)
    PROVE  /\ \A a : HasOld(t, a) => HasOld(u, a)
           /\ HasOld(u, m.old_addr)
  <1>1. t.mappings \in Seq([old_addr : Int, new_addr : Int])
    BY DEF Translators
  <1>2. /\ Len(t.mappings) \in Nat /\ Len(u.mappings) = Len(t.mappings) + 1
        /\ \A i \in 1 .. Len(t.mappings) : u.mappings[i] = t.mappings[i]
        /\ u.mappings[Len(t.mappings) + 1] = m
    BY <1>1, AppendFacts
  <1>3. /\ Len(t.mappings) + 1 \in 1 .. Len(u.mappings)
        /\ \A i \in 1 .. Len(t.mappings) : i \in 1 .. Len(u.mappings)
    BY <1>2
  <1> QED
    BY <1>2, <1>3 DEF HasOld

\* The first pass emits the next instruction of a group.
LEMMA MappedCalc ==
    ASSUME TypeInv, MappedInv, emit_instruction_calc_offset PROVE MappedInv'
  <1> DEFINE M == [old_addr : Int, new_addr : Int]
             here == base_addr + exec_buf_size
             m == [old_addr |-> addr_transl.stored_old_addr, new_addr |-> here]
  <1>1. /\ AtInstruction(0) /\ status = "running" /\ pass_index = 0 /\ k > 0 /\ Advance
        /\ ir' = ir /\ pass_index' = 0 /\ exec_buf' = exec_buf /\ status' = "running"
    BY DEF emit_instruction_calc_offset, args, buffer, AtInstruction, PASS_INDEX_TO_CALC_OFFSETS
  <1>2. here \in Nat
    BY <1>1, AddressAssumption DEF MappedInv, base_addr, TypeInv, TypeOK
  <1>3. addr_transl \in Translators /\ addr_transl.stored_old_addr \in Int
    BY DEF TypeInv, TypeOK, Translators
  <1>4. m \in M /\ m.new_addr = here /\ m.old_addr = addr_transl.stored_old_addr
    BY <1>2, <1>3
  <1>5. PICK o \in addr_transl_insert_if_remembered_addr(addr_transl, here) : addr_transl' = o.t
    BY DEF emit_instruction_calc_offset
  <1> HIDE DEF here, M
  <1>6. \/ addr_transl' = addr_transl
        \/ /\ addr_transl.old_addr_is_stored /\ ~addr_transl'.old_addr_is_stored
           /\ addr_transl'.mappings = Append(addr_transl.mappings, m)
    <2>1. here \in Int
      BY <1>2
    <2> QED
      BY <1>3, <1>5, <2>1, InsertIfRememberedResult
  <1>7. Last' = Last
    <2>1. cur \in Nat /\ k \in Nat
      BY <1>1, EmitFacts
    <2> QED
      BY <1>1, <2>1 DEF Last, Advance
  <1> HIDE DEF m
  <1>8. CASE addr_transl' = addr_transl
    BY <1>1, <1>7, <1>8 DEF MappedInv
  <1>9. CASE /\ addr_transl.old_addr_is_stored /\ ~addr_transl'.old_addr_is_stored
             /\ addr_transl'.mappings = Append(addr_transl.mappings, m)
    <2>1. /\ \A a : HasOld(addr_transl, a) => HasOld(addr_transl', a)
          /\ HasOld(addr_transl', Last)
      <3>1. m.old_addr = Last
        BY <1>1, <1>4, <1>9 DEF MappedInv
      <3> QED
        BY <1>3, <1>4, <1>9, <3>1, HasAppended DEF M
    <2>2. \A i \in 1 .. Len(addr_transl'.mappings) : addr_transl'.mappings[i].new_addr \in Nat
      <3>1. addr_transl.mappings \in Seq(M)
        BY <1>3 DEF M, Translators
      <3> QED
        BY <1>2, <1>4, <1>9, <3>1, AppendFacts DEF MappedInv
    <2> QED
      BY <1>1, <1>7, <1>9, <2>1, <2>2 DEF MappedInv
  <1> QED
    BY <1>6, <1>8, <1>9

LEMMA MappedNext == TypeInv /\ MappedInv /\ [Next]_vars => MappedInv'
  <1> SUFFICES ASSUME TypeInv, MappedInv, [Next]_vars PROVE MappedInv'
    OBVIOUS
  <1> USE DEF PASS_INDEX_TO_CALC_OFFSETS, PASS_INDEX_TO_WRITE, TOTAL_PASS_COUNT
  <1>0. Len(ir) \in Nat /\ cur \in Nat /\ k \in Nat /\ addr_transl \in Translators
    BY ProgramsAssumption DEF TypeInv, TypeOK
  <1>1. CASE NextIr
    <2> DEFINE r == addr_transl_remember_old_addr(addr_transl, cur - 1)
    <2>1. /\ k = 0 /\ k' = 1 /\ cur' = cur /\ cur >= 1 /\ ir' = ir /\ exec_buf' = exec_buf
          /\ pass_index' = pass_index /\ pass_index \in {0, 1} /\ status = "running"
          /\ status' \in {"ERROR", "abort", "running"}
      BY <1>1 DEF NextIr, args, buffer, TypeInv, Control
    <2>2. Last = cur - 2 /\ Last' = cur - 1
      BY <2>1 DEF Last
    <2>3. CASE pass_index = 0
      <3>1. addr_transl' = r.t /\ (status' = "running" => r.res # "ERROR")
        BY <1>1, <2>3 DEF NextIr
      <3>2. /\ r.t.mappings = addr_transl.mappings
            /\ r.res # "ERROR" => /\ ~addr_transl.old_addr_is_stored
                                  /\ r.t.old_addr_is_stored /\ r.t.stored_old_addr = cur - 1
        BY <1>0, <2>1, RememberResult
      <3> HIDE DEF r
      <3>3. \A a : HasOld(addr_transl', a) <=> HasOld(addr_transl, a)
        BY <3>1, <3>2 DEF HasOld
      <3>4. \A i \in 0 .. cur - 1 : i = cur - 1 \/ i \in 0 .. cur - 2
        BY <1>0
      <3>5. status' = "running" =>
              \A i \in 0 .. Last' :
                 HasOld(addr_transl', i) \/ (addr_transl'.old_addr_is_stored /\ i = Last')
        BY <2>1, <2>2, <2>3, <3>1, <3>2, <3>3, <3>4 DEF MappedInv
      <3>6. cur - 1 >= 0
        BY <1>0, <2>1
      <3> QED
        BY <2>1, <2>2, <2>3, <3>1, <3>2, <3>5, <3>6 DEF MappedInv
    <2>4. CASE pass_index = 1
      <3>1. addr_transl' = addr_transl
        BY <1>1, <2>4 DEF NextIr, Outcome
      <3> QED
        BY <2>1, <2>4, <3>1 DEF MappedInv
    <2> QED
      BY <2>1, <2>3, <2>4
  <1>2. CASE emit_instruction_calc_offset
    BY <1>2, MappedCalc
  <1>3. CASE emit_instruction_write
    <2>1. /\ pass_index = 1 /\ pass_index' = 1 /\ status = "running" /\ status' = "running"
          /\ ir' = ir /\ addr_transl' = addr_transl
      BY <1>3 DEF emit_instruction_write, args, AtInstruction
    <2> QED
      BY <2>1 DEF MappedInv
  <1>4. CASE WriteFaults
    <2>1. /\ pass_index = 1 /\ pass_index' = 1 /\ status' = "crash"
          /\ ir' = ir /\ addr_transl' = addr_transl
      BY <1>4 DEF WriteFaults, args, AtInstruction
    <2> QED
      BY <2>1 DEF MappedInv
  <1>5. CASE start_new_pass
    <2>1. /\ k = 0 /\ cur = Len(ir) + 1 /\ pass_index \in {0, 1} /\ status = "running"
          /\ pass_index' = pass_index + 1 /\ ir' = ir /\ addr_transl' = addr_transl
          /\ exec_buf' = exec_buf
      BY <1>5 DEF start_new_pass, args, buffer, TypeInv, Control
    <2>2. Last = Len(ir) - 1
      BY <1>0, <2>1 DEF Last
    <2>3. \A i \in 0 .. Len(ir) - 2 : i \in 0 .. Last /\ i # Last
      BY <1>0, <2>2
    <2>4. pass_index = 0 => \A i \in 0 .. Len(ir) - 2 : HasOld(addr_transl, i)
      BY <2>1, <2>3 DEF MappedInv
    <2>5. \A i \in 0 .. Len(ir) - 2 : HasOld(addr_transl, i)
      BY <2>1, <2>4 DEF MappedInv
    <2>6. pass_index' # 0
      BY <2>1
    <2> QED
      BY <2>1, <2>5, <2>6 DEF MappedInv
  <1>6. CASE UNCHANGED vars
    <2>1. /\ addr_transl' = addr_transl /\ pass_index' = pass_index /\ exec_buf' = exec_buf
          /\ status' = status /\ ir' = ir /\ cur' = cur /\ k' = k
      BY <1>6 DEF vars, args, buffer
    <2> QED
      BY <2>1 DEF MappedInv, Last
  <1> QED
    BY <1>1, <1>2, <1>3, <1>4, <1>5, <1>6 DEF Next, Terminated

LEMMA MappedInit == Init => MappedInv
  <1> SUFFICES ASSUME Init PROVE MappedInv
    OBVIOUS
  <1>1. Len(addr_transl.mappings) = 0 /\ ~addr_transl.old_addr_is_stored
    BY DEF Init, addr_transl_new
  <1>2. Last = -1 /\ status = "running" /\ pass_index = 0 /\ exec_buf \in BufAddrs
    BY DEF Init, Last
  <1> QED
    BY <1>1, <1>2 DEF MappedInv

\* If translate_from_ir succeeds then every IR instruction but the last has an
\* address, whichever calls of realloc and mremap fail.
THEOREM OkTranslates == Spec => []OkMeansMapped
  <1>1. TypeInv /\ MappedInv => OkMeansMapped
    <2> SUFFICES ASSUME TypeInv, MappedInv, status = "OK", NEW i \in 0 .. Len(ir) - 2
                 PROVE  addr_transl_translate(addr_transl, i) # ERROR
      BY DEF OkMeansMapped
    <2>1. HasOld(addr_transl, i) /\ addr_transl \in Translators
      BY DEF MappedInv, TypeInv, TypeOK
    <2>2. PICK j \in 1 .. Len(addr_transl.mappings) :
             addr_transl_translate(addr_transl, i) = addr_transl.mappings[j].new_addr
      BY <2>1, TranslateFinds
    <2>3. addr_transl_translate(addr_transl, i) \in Nat
      BY <2>2 DEF MappedInv
    <2> QED
      BY <2>3 DEF ERROR
  <1> QED
    BY <1>1, MappedInit, MappedNext, TypeInvariant, PTL DEF Spec
-----------------------------------------------------------------------------
(* Where the groups lie.                                                   *)

\* The first m + 1 starts: the groups follow each other without a gap.
Follows(B, p, m) == B[0] = 0 /\ \A c \in 0 .. m - 1 : B[c + 1] = B[c] + GrpSize(p, c)

\* The offset of the group of every IR instruction of a program, in a binary.
Starts(p) == CHOOSE B \in [0 .. Len(p) + 1 -> Nat] : Follows(B, p, Len(p) + 1)

\* The offset of the j-th x64 instruction of the c-th group.
Spot(p, c, j) == Starts(p)[c] + BytesBefore(Grp(p, c), j)

LEMMA GrpGood ==
    ASSUME NEW p \in Programs, NEW c \in 0 .. Len(p)
    PROVE  GoodGroup(Grp(p, c)) /\ GrpSize(p, c) \in Nat /\ Len(Grp(p, c)) \in Nat
  <1>1. GoodGroup(Grp(p, c))
    <2>1. CASE c = 0
      BY <2>1, PreparationGood, AddressAssumption DEF Grp
    <2>2. CASE c # 0
      <3>1. p[c] \in Instr
        BY <2>2, ProgramsAssumption
      <3> QED
        BY <2>2, <3>1, EncodingGood DEF Grp
    <2> QED
      BY <2>1, <2>2
  <1>2. Len(Grp(p, c)) \in Nat /\ Len(Grp(p, c)) + 1 \in 1 .. Len(Grp(p, c)) + 1
    BY <1>1 DEF GoodGroup
  <1> QED
    BY <1>1, <1>2, OffsetStep DEF GrpSize

\* Every program has such a layout: a shortest part of it that had none would
\* be one group longer than one that has.
LEMMA StartsFollow ==
    ASSUME NEW p \in Programs
    PROVE  Starts(p) \in [0 .. Len(p) + 1 -> Nat] /\ Follows(Starts(p), p, Len(p) + 1)
  <1> DEFINE n == Len(p) + 1
             Laid(m) == \E B \in [0 .. m -> Nat] : Follows(B, p, m)
             bad == {m \in 0 .. n : ~Laid(m)}
  <1>1. n \in Nat /\ bad \subseteq Nat
    BY ProgramsAssumption
  <1>2. \A m : m \in bad <=> m \in 0 .. n /\ ~Laid(m)
    OBVIOUS
  <1>3. Laid(0)
    <2>1. [i \in 0 .. 0 |-> 0] \in [0 .. 0 -> Nat] /\ Follows([i \in 0 .. 0 |-> 0], p, 0)
      BY DEF Follows
    <2> QED
      BY <2>1
  <1>4. ASSUME NEW m \in Nat, m + 1 \in 0 .. n, Laid(m) PROVE Laid(m + 1)
    <2>1. PICK B \in [0 .. m -> Nat] : Follows(B, p, m)
      BY <1>4
    <2>2. m \in 0 .. Len(p)
      BY <1>1, <1>4, ProgramsAssumption
    <2>3. B[m] + GrpSize(p, m) \in Nat
      BY <2>2, GrpGood
    <2> DEFINE C == [i \in 0 .. m + 1 |-> IF i = m + 1 THEN B[m] + GrpSize(p, m) ELSE B[i]]
    <2>4. C \in [0 .. m + 1 -> Nat]
      <3> SUFFICES ASSUME NEW i \in 0 .. m + 1
                   PROVE  (IF i = m + 1 THEN B[m] + GrpSize(p, m) ELSE B[i]) \in Nat
        OBVIOUS
      <3>1. i # m + 1 => i \in 0 .. m
        OBVIOUS
      <3> QED
        BY <2>3, <3>1
    <2>5. C[0] = 0
      BY <2>1 DEF Follows
    <2>6. ASSUME NEW c \in 0 .. (m + 1) - 1 PROVE C[c + 1] = C[c] + GrpSize(p, c)
      <3>1. C[c] = B[c] /\ c + 1 \in 0 .. m + 1
        BY <2>6
      <3>2. CASE c = m
        BY <3>1, <3>2
      <3>3. CASE c # m
        <4>1. c \in 0 .. m - 1 /\ c + 1 # m + 1
          BY <3>3
        <4>2. C[c + 1] = B[c + 1]
          BY <3>1, <4>1
        <4> QED
          BY <2>1, <3>1, <4>1, <4>2 DEF Follows
      <3> QED
        BY <3>2, <3>3
    <2> HIDE DEF C
    <2>7. Follows(C, p, m + 1)
      BY <2>5, <2>6 DEF Follows
    <2> QED
      BY <2>4, <2>7
  <1> HIDE DEF Laid, bad
  <1>5. bad = {}
    <2> SUFFICES ASSUME bad # {} PROVE FALSE
      OBVIOUS
    <2>1. PICK m \in bad : \A i \in bad : m <= i
      BY <1>1, LeastMember
    <2>2. m \in 0 .. n /\ ~Laid(m) /\ m # 0 /\ m \in Nat
      BY <1>1, <1>2, <1>3, <2>1
    <2>3. m - 1 \in Nat /\ (m - 1) + 1 = m /\ m - 1 \in 0 .. n
      BY <1>1, <2>2
    <2>4. m - 1 \notin bad
      BY <1>1, <2>1, <2>3
    <2>5. Laid(m - 1)
      BY <1>2, <2>3, <2>4
    <2> QED
      BY <1>4, <2>2, <2>3, <2>5
  <1>6. \E B \in [0 .. n -> Nat] : Follows(B, p, n)
    <2>1. n \in 0 .. n
      BY <1>1
    <2> QED
      BY <1>2, <1>5, <2>1 DEF Laid
  <1> QED
    BY <1>6 DEF Starts

\* A group ends before the next one, and those after it, begin.
LEMMA StartsApart ==
    ASSUME NEW p \in Programs, NEW c \in 0 .. Len(p), NEW d \in 0 .. Len(p), c < d
    PROVE  Starts(p)[c] + GrpSize(p, c) <= Starts(p)[d]
  <1> DEFINE B == Starts(p)
             bad == {m \in c + 1 .. Len(p) : ~(B[c] + GrpSize(p, c) <= B[m])}
  <1>1. /\ Len(p) \in Nat /\ c \in Nat /\ \A m \in 0 .. Len(p) + 1 : B[m] \in Nat
        /\ \A m \in 0 .. Len(p) : B[m + 1] = B[m] + GrpSize(p, m) /\ GrpSize(p, m) \in Nat
    <2>1. Len(p) \in Nat /\ c \in Nat
      BY ProgramsAssumption
    <2>2. B \in [0 .. Len(p) + 1 -> Nat] /\ Follows(B, p, Len(p) + 1)
      BY StartsFollow
    <2>3. \A m \in 0 .. Len(p) : GrpSize(p, m) \in Nat
      BY GrpGood
    <2>4. (Len(p) + 1) - 1 = Len(p)
      BY <2>1
    <2> HIDE DEF B
    <2> QED
      BY <2>1, <2>2, <2>3, <2>4 DEF Follows
  <1>2. bad \subseteq Nat
    BY <1>1
  <1>3. \A m : m \in bad <=> m \in c + 1 .. Len(p) /\ ~(B[c] + GrpSize(p, c) <= B[m])
    OBVIOUS
  <1>4. B[c] \in Nat /\ GrpSize(p, c) \in Nat /\ B[c + 1] = B[c] + GrpSize(p, c)
    BY <1>1
  <1> HIDE DEF bad, B
  <1>5. bad = {}
    <2> SUFFICES ASSUME bad # {} PROVE FALSE
      OBVIOUS
    <2>1. PICK m \in bad : \A i \in bad : m <= i
      BY <1>2, LeastMember
    <2>2. m \in c + 1 .. Len(p) /\ ~(B[c] + GrpSize(p, c) <= B[m])
      BY <1>3, <2>1
    <2>3. m # c + 1
      BY <1>4, <2>2
    <2>4. m - 1 \in c + 1 .. Len(p) /\ (m - 1) + 1 = m /\ m - 1 \in 0 .. Len(p) /\ ~(m <= m - 1)
          /\ m \in 0 .. Len(p) + 1 /\ m - 1 \in 0 .. Len(p) + 1
      BY <1>1, <2>2, <2>3
    <2>5. m - 1 \notin bad
      BY <2>1, <2>4
    <2>6. B[c] + GrpSize(p, c) <= B[m - 1]
      BY <1>3, <2>4, <2>5
    <2>7. B[m] = B[m - 1] + GrpSize(p, m - 1) /\ GrpSize(p, m - 1) \in Nat
      BY <1>1, <2>4
    <2>8. B[m - 1] \in Nat /\ B[m] \in Nat
      BY <1>1, <2>4
    <2> QED
      BY <1>4, <2>2, <2>6, <2>7, <2>8
  <1>6. d \in c + 1 .. Len(p)
    BY <1>1
  <1> QED
    BY <1>3, <1>5, <1>6 DEF B

\* An x64 instruction has at least its opcode: it ends after it begins.
LEMMA NotEmpty == ASSUME NEW x PROVE WellFormed(x) => WrittenBytes(x) >= 1
  BY DEF WrittenBytes, Bytes, SIZEOF_IMM32, SIZEOF_IMM64

LEMMA SevenTerms ==
    ASSUME NEW a \in Nat, NEW b \in Nat, NEW c \in Nat, NEW d \in Nat, NEW e \in Nat,
           NEW f \in Nat, NEW g \in Nat, NEW a2 \in Nat, NEW b2 \in Nat, NEW c2 \in Nat,
           NEW d2 \in Nat, NEW e2 \in Nat, NEW f2 \in Nat, NEW g2 \in Nat,
           a <= a2, b <= b2, c <= c2, d <= d2, e <= e2, f <= f2, g <= g2
    PROVE  a + b + c + d + e + f + g <= a2 + b2 + c2 + d2 + e2 + f2 + g2
  OBVIOUS

\* ... and so the instructions of a group begin before the group ends.
LEMMA InsideGroup ==
    ASSUME NEW g, GoodGroup(g), NEW j \in 1 .. Len(g)
    PROVE  BytesBefore(g, j) \in Nat /\ BytesBefore(g, j) < BytesBefore(g, Len(g) + 1)
  <1>1. Len(g) \in 0 .. 7 /\ j \in Nat /\ j + 1 \in 1 .. Len(g) + 1
    BY DEF GoodGroup
  <1>2. CommandSize(g[j]) \in Nat /\ CommandSize(g[j]) >= 1
    BY SizesAgree, NotEmpty DEF GoodGroup
  <1>3. /\ BytesBefore(g, j + 1) = BytesBefore(g, j) + CommandSize(g[j])
        /\ BytesBefore(g, j) \in Nat /\ BytesBefore(g, j + 1) \in Nat /\ BytesBefore(g, Len(g) + 1) \in Nat
    <2>1. j \in 1 .. Len(g) + 1 /\ Len(g) + 1 \in 1 .. Len(g) + 1
      BY <1>1
    <2> QED
      BY <1>1, <2>1, OffsetStep
  <1>4. \A i \in 1 .. 7 : /\ SizeBefore(g, i, j + 1) \in Nat
                          /\ SizeBefore(g, i, Len(g) + 1) \in Nat
                          /\ SizeBefore(g, i, j + 1) <= SizeBefore(g, i, Len(g) + 1)
    <2>1. \A i \in 1 .. Len(g) : CommandSize(g[i]) \in Nat
      BY SizesAgree DEF GoodGroup
    <2>2. \A i \in 1 .. 7 : (i < j + 1 => i < Len(g) + 1) /\ (i < Len(g) + 1 => i \in 1 .. Len(g))
      BY <1>1
    <2> QED
      BY <2>1, <2>2 DEF SizeBefore
  <1>5. BytesBefore(g, j + 1) <= BytesBefore(g, Len(g) + 1)
    <2> DEFINE a == SizeBefore(g, 1, j + 1)
               b == SizeBefore(g, 2, j + 1)
               c == SizeBefore(g, 3, j + 1)
               d == SizeBefore(g, 4, j + 1)
               e == SizeBefore(g, 5, j + 1)
               f == SizeBefore(g, 6, j + 1)
               h == SizeBefore(g, 7, j + 1)
               a2 == SizeBefore(g, 1, Len(g) + 1)
               b2 == SizeBefore(g, 2, Len(g) + 1)
               c2 == SizeBefore(g, 3, Len(g) + 1)
               d2 == SizeBefore(g, 4, Len(g) + 1)
               e2 == SizeBefore(g, 5, Len(g) + 1)
               f2 == SizeBefore(g, 6, Len(g) + 1)
               h2 == SizeBefore(g, 7, Len(g) + 1)
    <2>1. /\ a \in Nat /\ a2 \in Nat /\ a <= a2
          /\ b \in Nat /\ b2 \in Nat /\ b <= b2
          /\ c \in Nat /\ c2 \in Nat /\ c <= c2
          /\ d \in Nat /\ d2 \in Nat /\ d <= d2
          /\ e \in Nat /\ e2 \in Nat /\ e <= e2
          /\ f \in Nat /\ f2 \in Nat /\ f <= f2
          /\ h \in Nat /\ h2 \in Nat /\ h <= h2
      BY <1>4
    <2>2. /\ BytesBefore(g, j + 1) = a + b + c + d + e + f + h
          /\ BytesBefore(g, Len(g) + 1) = a2 + b2 + c2 + d2 + e2 + f2 + h2
      BY DEF BytesBefore
    <2> HIDE DEF a, b, c, d, e, f, h, a2, b2, c2, d2, e2, f2, h2
    <2>3. a + b + c + d + e + f + h <= a2 + b2 + c2 + d2 + e2 + f2 + h2
      BY <2>1, SevenTerms
    <2> QED
      BY <2>2, <2>3
  <1> QED
    BY <1>2, <1>3, <1>5

\* x64 instructions of different groups begin at different places.
LEMMA SpotsDiffer ==
    ASSUME NEW p \in Programs, NEW c \in 0 .. Len(p), NEW d \in 0 .. Len(p),
           NEW i \in 1 .. Len(Grp(p, c)), NEW j \in 1 .. Len(Grp(p, d)),
           Spot(p, c, i) = Spot(p, d, j)
    PROVE  c = d
  <1> DEFINE B == Starts(p)
             x == BytesBefore(Grp(p, c), i)
             y == BytesBefore(Grp(p, d), j)
  <1>1. /\ x \in Nat /\ x < GrpSize(p, c) /\ GrpSize(p, c) \in Nat
        /\ y \in Nat /\ y < GrpSize(p, d) /\ GrpSize(p, d) \in Nat
    BY GrpGood, InsideGroup DEF GrpSize
  <1>2. B[c] \in Nat /\ B[d] \in Nat /\ c \in Nat /\ d \in Nat
    <2>1. c \in 0 .. Len(p) + 1 /\ d \in 0 .. Len(p) + 1
      BY ProgramsAssumption
    <2> QED
      BY <2>1, StartsFollow
  <1>3. c < d => B[c] + GrpSize(p, c) <= B[d]
    BY StartsApart
  <1>4. d < c => B[d] + GrpSize(p, d) <= B[c]
    BY StartsApart
  <1>5. B[c] + x = B[d] + y
    BY DEF Spot
  <1> HIDE DEF B, x, y
  <1>6. \A b, s, e, u, v \in Nat : u < s /\ b + s <= e => b + u # e + v
    OBVIOUS
  <1>7. ~(c < d)
    BY <1>1, <1>2, <1>3, <1>5, <1>6
  <1>8. ~(d < c)
    BY <1>1, <1>2, <1>4, <1>5, <1>6
  <1> QED
    BY <1>2, <1>7, <1>8

\* Where a pass stands, by the layout of the program.
Reached(p, c, j) == IF j = 0 THEN Starts(p)[c] ELSE Spot(p, c, j)

\* Both passes stand where the layout says; the text lies there; and a mapping
\* points to an x64 instruction of its own IR instruction, to the first one
\* unless realloc failed there.
OwnInv ==
    /\ status = "running" => exec_buf_size = Reached(ir, cur, k)
    /\ \A i \in 1 .. Len(addr_transl.mappings) :
          \E c \in 1 .. Len(ir) : \E j \in 1 .. Len(Grp(ir, c)) :
             /\ addr_transl.mappings[i].old_addr = c - 1
             /\ addr_transl.mappings[i].new_addr = CODE_BASE_ADDR + Spot(ir, c, j)
    /\ \A e \in DOMAIN text :
          /\ text[e].cur \in 0 .. Len(ir) /\ text[e].k \in 1 .. Len(Grp(ir, text[e].cur))
          /\ text[e].at = Spot(ir, text[e].cur, text[e].k)

\* What the emitting actions know of the place they stand at.
LEMMA SpotHere ==
    ASSUME TypeInv, OwnInv, Outputs = {"BINARY"}, NEW pass, AtInstruction(pass)
    PROVE  /\ ir \in Programs /\ Len(ir) \in Nat /\ cur \in 0 .. Len(ir)
           /\ k \in 1 .. Len(Grp(ir, cur)) /\ k \in Nat /\ k # 0
           /\ Group = Grp(ir, cur) /\ exec_buf_size = Spot(ir, cur, k)
           /\ base_addr = CODE_BASE_ADDR
  <1>1. ir \in Programs /\ Len(ir) \in Nat
    BY ProgramsAssumption DEF TypeInv, TypeOK
  <1>2. cur \in 0 .. Len(ir) /\ k \in 1 .. Len(Group) /\ Len(Group) \in 1 .. 7
    BY EmitFacts
  <1>3. Group = Grp(ir, cur) /\ base_addr = CODE_BASE_ADDR
    BY <1>2, GroupIsGrp DEF Group, TypeInv
  <1>4. k \in Nat /\ k # 0
    BY <1>2
  <1> QED
    BY <1>1, <1>2, <1>3, <1>4 DEF OwnInv, AtInstruction, Reached

\* Past an x64 instruction the pass stands at the next one of the layout.
LEMMA ReachedAfter ==
    ASSUME TypeInv, OwnInv, Outputs = {"BINARY"}, NEW pass, AtInstruction(pass), Advance
    PROVE  Reached(ir, cur', k') = exec_buf_size + CommandSize(Group[k])
  <1>1. /\ ir \in Programs /\ Len(ir) \in Nat /\ cur \in 0 .. Len(ir)
        /\ k \in 1 .. Len(Grp(ir, cur)) /\ k \in Nat
        /\ Group = Grp(ir, cur) /\ exec_buf_size = Spot(ir, cur, k)
    BY SpotHere
  <1>2. GoodGroup(Grp(ir, cur)) /\ Len(Grp(ir, cur)) \in Nat
    BY <1>1, GrpGood
  <1>3. /\ BytesBefore(Grp(ir, cur), k + 1) = BytesBefore(Grp(ir, cur), k) + CommandSize(Group[k])
        /\ BytesBefore(Grp(ir, cur), k) \in Nat
    <2>1. k \in 1 .. Len(Grp(ir, cur)) + 1
      BY <1>1, <1>2
    <2> QED
      BY <1>1, <1>2, <2>1, OffsetStep
  <1>4. CommandSize(Group[k]) \in Nat
    BY EmitFacts
  <1>5. /\ Starts(ir)[cur] \in Nat
        /\ Starts(ir)[cur + 1] = Starts(ir)[cur] + GrpSize(ir, cur)
    <2>1. cur \in 0 .. Len(ir) + 1 /\ (Len(ir) + 1) - 1 = Len(ir)
      BY <1>1
    <2> QED
      BY <1>1, <2>1, StartsFollow DEF Follows
  <1>6. CASE k < Len(Group)
    <2>1. k' = k + 1 /\ cur' = cur /\ k' # 0
      BY <1>1, <1>6 DEF Advance
    <2>2. Reached(ir, cur', k') = Starts(ir)[cur] + BytesBefore(Grp(ir, cur), k + 1)
      BY <2>1 DEF Reached, Spot
    <2> QED
      BY <1>1, <1>3, <1>4, <1>5, <2>2 DEF Spot
  <1>7. CASE ~(k < Len(Group))
    <2>1. k' = 0 /\ cur' = cur + 1 /\ k = Len(Grp(ir, cur))
      BY <1>1, <1>2, <1>7 DEF Advance
    <2>2. Reached(ir, cur', k') = Starts(ir)[cur] + BytesBefore(Grp(ir, cur), k + 1)
      BY <1>5, <2>1 DEF Reached, GrpSize
    <2> QED
      BY <1>1, <1>3, <1>4, <1>5, <2>2 DEF Spot
  <1> QED
    BY <1>6, <1>7

\* The step of OwnInv in the first pass: what it maps is the instruction that
\* was begun last, which is the one it stands in.
LEMMA OwnCalc ==
    ASSUME TypeInv, MappedInv, OwnInv, Outputs = {"BINARY"}, emit_instruction_calc_offset
    PROVE  OwnInv'
  <1> DEFINE M == [old_addr : Int, new_addr : Int]
             here == CODE_BASE_ADDR + exec_buf_size
             m == [old_addr |-> addr_transl.stored_old_addr, new_addr |-> here]
  <1>1. /\ AtInstruction(0) /\ status = "running" /\ pass_index = 0 /\ Advance
        /\ ir' = ir /\ text' = text
        /\ exec_buf_size' = exec_buf_size + CommandSize(Group[k])
    BY DEF emit_instruction_calc_offset, args, AtInstruction, PASS_INDEX_TO_CALC_OFFSETS
  <1>2. /\ Len(ir) \in Nat /\ cur \in 0 .. Len(ir) /\ k \in 1 .. Len(Grp(ir, cur))
        /\ k # 0 /\ exec_buf_size = Spot(ir, cur, k) /\ base_addr = CODE_BASE_ADDR
    BY <1>1, SpotHere
  <1>3. exec_buf_size' = Reached(ir', cur', k')
    BY <1>1, ReachedAfter
  <1>4. /\ addr_transl \in Translators /\ addr_transl.mappings \in Seq(M)
        /\ addr_transl.stored_old_addr \in Int /\ here \in Int
    <2>1. here \in Int
      BY AddressAssumption DEF TypeInv, TypeOK
    <2> QED
      BY <2>1 DEF TypeInv, TypeOK, Translators
  <1>5. PICK o \in addr_transl_insert_if_remembered_addr(addr_transl, here) : addr_transl' = o.t
    BY <1>2 DEF emit_instruction_calc_offset
  <1>6. m \in M /\ m.new_addr = here /\ m.old_addr = addr_transl.stored_old_addr
    BY <1>4
  <1>7. \/ addr_transl' = addr_transl
        \/ /\ addr_transl.old_addr_is_stored
           /\ addr_transl'.mappings = Append(addr_transl.mappings, m)
    <2> HIDE DEF here
    <2> QED
      BY <1>4, <1>5, InsertIfRememberedResult
  <1> DEFINE Own(x) == \E c \in 1 .. Len(ir) : \E j \in 1 .. Len(Grp(ir, c)) :
                          x.old_addr = c - 1 /\ x.new_addr = CODE_BASE_ADDR + Spot(ir, c, j)
  <1>8. addr_transl.old_addr_is_stored => Own(m)
    <2> SUFFICES ASSUME addr_transl.old_addr_is_stored PROVE Own(m)
      OBVIOUS
    <2>1. addr_transl.stored_old_addr = cur - 1 /\ cur - 1 >= 0
      BY <1>1, <1>2 DEF MappedInv, Last
    <2>2. cur \in 1 .. Len(ir)
      BY <1>2, <2>1
    <2> HIDE DEF m
    <2> QED
      BY <1>2, <1>6, <2>1, <2>2
  <1>9. \A i \in 1 .. Len(addr_transl.mappings) : Own(addr_transl.mappings[i])
    BY DEF OwnInv
  <1>10. \A i \in 1 .. Len(addr_transl'.mappings) : Own(addr_transl'.mappings[i])
    <2> HIDE DEF Own, m, M
    <2>1. CASE addr_transl' = addr_transl
      BY <1>9, <2>1
    <2>2. CASE /\ addr_transl.old_addr_is_stored
               /\ addr_transl'.mappings = Append(addr_transl.mappings, m)
      <3>1. /\ Len(addr_transl.mappings) \in Nat
            /\ Len(addr_transl'.mappings) = Len(addr_transl.mappings) + 1
            /\ \A i \in 1 .. Len(addr_transl.mappings) :
                  addr_transl'.mappings[i] = addr_transl.mappings[i]
            /\ addr_transl'.mappings[Len(addr_transl.mappings) + 1] = m
        BY <1>4, <1>6, <2>2, AppendFacts
      <3>2. \A i \in 1 .. Len(addr_transl'.mappings) :
               i \in 1 .. Len(addr_transl.mappings) \/ i = Len(addr_transl.mappings) + 1
        BY <3>1
      <3> QED
        BY <1>8, <1>9, <2>2, <3>1, <3>2
    <2> QED
      BY <1>7, <2>1, <2>2
  <1>11. \A e \in DOMAIN text' :
            /\ text'[e].cur \in 0 .. Len(ir') /\ text'[e].k \in 1 .. Len(Grp(ir', text'[e].cur))
            /\ text'[e].at = Spot(ir', text'[e].cur, text'[e].k)
    BY <1>1 DEF OwnInv
  <1>12. \A i \in 1 .. Len(addr_transl'.mappings) :
            \E c \in 1 .. Len(ir') : \E j \in 1 .. Len(Grp(ir', c)) :
               /\ addr_transl'.mappings[i].old_addr = c - 1
               /\ addr_transl'.mappings[i].new_addr = CODE_BASE_ADDR + Spot(ir', c, j)
    BY <1>1, <1>10
  <1> QED
    BY <1>3, <1>11, <1>12 DEF OwnInv

\* ... and in the second one.
LEMMA OwnWrite ==
    ASSUME TypeInv, OwnInv, Outputs = {"BINARY"}, emit_instruction_write
    PROVE  OwnInv'
  <1> DEFINE e == [at |-> exec_buf_size, x |-> Resolved(Group[k]), cur |-> cur, k |-> k]
  <1>1. /\ AtInstruction(1) /\ Advance /\ ir' = ir /\ addr_transl' = addr_transl
        /\ exec_buf_size' = exec_buf_size + WrittenBytes(Group[k]) /\ text' = Append(text, e)
    BY DEF emit_instruction_write, args, PASS_INDEX_TO_WRITE
  <1>2. /\ Len(ir) \in Nat /\ cur \in 0 .. Len(ir) /\ k \in 1 .. Len(Grp(ir, cur))
        /\ k # 0 /\ exec_buf_size = Spot(ir, cur, k) /\ base_addr = CODE_BASE_ADDR
    BY <1>1, SpotHere
  <1>3. exec_buf_size' = Reached(ir', cur', k')
    <2>1. CommandSize(Group[k]) = WrittenBytes(Group[k])
      BY <1>1, EmitFacts
    <2> QED
      BY <1>1, <2>1, ReachedAfter
  <1>4. e.at = exec_buf_size /\ e.cur = cur /\ e.k = k
    OBVIOUS
  <1>6. text \in Seq(Entries)
    BY DEF TypeInv, TypeOK
  <1> HIDE DEF e
  <1>7. \A i \in DOMAIN text' : (i \in DOMAIN text /\ text'[i] = text[i]) \/ text'[i] = e
    BY <1>1, <1>6
  <1>8. \A i \in DOMAIN text' :
            /\ text'[i].cur \in 0 .. Len(ir') /\ text'[i].k \in 1 .. Len(Grp(ir', text'[i].cur))
            /\ text'[i].at = Spot(ir', text'[i].cur, text'[i].k)
    BY <1>1, <1>2, <1>4, <1>7 DEF OwnInv
  <1> QED
    BY <1>1, <1>3, <1>8 DEF OwnInv

LEMMA OwnNext ==
    ASSUME Outputs = {"BINARY"} PROVE TypeInv /\ MappedInv /\ OwnInv /\ [Next]_vars => OwnInv'
  <1> SUFFICES ASSUME TypeInv, MappedInv, OwnInv, [Next]_vars PROVE OwnInv'
    OBVIOUS
  <1> USE DEF PASS_INDEX_TO_CALC_OFFSETS, PASS_INDEX_TO_WRITE, TOTAL_PASS_COUNT
  <1>0. ir \in Programs /\ Len(ir) \in Nat /\ cur \in Nat
    BY ProgramsAssumption DEF TypeInv, TypeOK
  <1>1. CASE NextIr
    <2>1. /\ k = 0 /\ k' = 1 /\ cur' = cur /\ cur \in 1 .. Len(ir) /\ ir' = ir /\ text' = text
          /\ exec_buf_size' = exec_buf_size /\ status = "running"
      BY <1>0, <1>1 DEF NextIr, args, TypeInv, Control
    <2>2. addr_transl'.mappings = addr_transl.mappings
      <3>1. cur - 1 \in Int /\ addr_transl \in Translators
        BY <1>0 DEF TypeInv, TypeOK
      <3> QED
        BY <1>1, <3>1, RememberResult DEF NextIr, Outcome
    <2>3. exec_buf_size' = Reached(ir', cur', k')
      <3>1. BytesBefore(Grp(ir, cur), 1) = 0 /\ Starts(ir)[cur] \in Nat
        <4>1. cur \in 0 .. Len(ir) /\ cur \in 0 .. Len(ir) + 1
          BY <1>0, <2>1
        <4> QED
          BY <1>0, <4>1, GrpGood, OffsetStep, StartsFollow
      <3>2. exec_buf_size = Starts(ir)[cur]
        BY <2>1 DEF OwnInv, Reached
      <3> QED
        BY <2>1, <3>1, <3>2 DEF Reached, Spot
    <2> QED
      BY <2>1, <2>2, <2>3 DEF OwnInv
  <1>2. CASE emit_instruction_calc_offset
    BY <1>2, OwnCalc
  <1>3. CASE emit_instruction_write
    BY <1>3, OwnWrite
  <1>4. CASE WriteFaults
    BY <1>4 DEF WriteFaults, args, OwnInv
  <1>5. CASE start_new_pass
    <2>1. addr_transl' = addr_transl /\ ir' = ir /\ text' = text
      BY <1>5 DEF start_new_pass, args
    <2>2. status' = "running" => exec_buf_size' = 0 /\ cur' = 0 /\ k' = 1
      BY <1>5 DEF start_new_pass
    <2>3. Reached(ir, 0, 1) = 0
      <3>1. Starts(ir)[0] = 0 /\ 0 \in 0 .. Len(ir)
        BY <1>0, StartsFollow DEF Follows
      <3>2. BytesBefore(Grp(ir, 0), 1) = 0
        BY <1>0, <3>1, GrpGood, OffsetStep
      <3> QED
        BY <3>1, <3>2 DEF Reached, Spot
    <2> QED
      BY <2>1, <2>2, <2>3 DEF OwnInv
  <1>6. CASE UNCHANGED vars
    BY <1>6 DEF vars, args, OwnInv
  <1> QED
    BY <1>1, <1>2, <1>3, <1>4, <1>5, <1>6 DEF Next, Terminated

LEMMA OwnInit == ASSUME Outputs = {"BINARY"} PROVE Init => OwnInv
  <1> SUFFICES ASSUME Init PROVE OwnInv
    OBVIOUS
  <1>1. /\ ir \in Programs /\ Len(ir) \in Nat /\ exec_buf_size = 0 /\ cur = 0 /\ k = 1
        /\ text = << >> /\ Len(addr_transl.mappings) = 0
    BY ProgramsAssumption DEF Init, addr_transl_new
  <1>2. Starts(ir)[0] = 0 /\ 0 \in 0 .. Len(ir)
    BY <1>1, StartsFollow DEF Follows
  <1>3. BytesBefore(Grp(ir, 0), 1) = 0
    BY <1>1, <1>2, GrpGood, OffsetStep
  <1>4. Reached(ir, 0, 1) = 0
    BY <1>2, <1>3 DEF Reached, Spot
  <1> QED
    BY <1>1, <1>4 DEF OwnInv

\* In a binary an IR index is translated into code of that very IR
\* instruction, even if the insertion of its address failed and was repeated by
\* a later x64 instruction: the group ends before the next index is remembered.
THEOREM RetriesStayInGroup ==
    ASSUME Outputs = {"BINARY"} PROVE Spec => []MappedToOwnGroup
  <1>1. TypeInv /\ OwnInv => MappedToOwnGroup
    <2> SUFFICES ASSUME TypeInv, OwnInv,
                        NEW i \in DOMAIN addr_transl.mappings, NEW e \in DOMAIN text,
                        addr_transl.mappings[i].new_addr = CODE_BASE_ADDR + text[e].at
                 PROVE  addr_transl.mappings[i].old_addr = text[e].cur - 1
      BY DEF MappedToOwnGroup
    <2>1. ir \in Programs /\ Len(ir) \in Nat /\ CODE_BASE_ADDR \in Nat
      BY ProgramsAssumption, AddressAssumption DEF TypeInv, TypeOK
    <2>2. i \in 1 .. Len(addr_transl.mappings)
      BY SeqElement DEF TypeInv, TypeOK, Translators
    <2>9. PICK c \in 1 .. Len(ir) : \E j \in 1 .. Len(Grp(ir, c)) :
             /\ addr_transl.mappings[i].old_addr = c - 1
             /\ addr_transl.mappings[i].new_addr = CODE_BASE_ADDR + Spot(ir, c, j)
      BY <2>2 DEF OwnInv
    <2>3. PICK j \in 1 .. Len(Grp(ir, c)) :
             /\ addr_transl.mappings[i].old_addr = c - 1
             /\ addr_transl.mappings[i].new_addr = CODE_BASE_ADDR + Spot(ir, c, j)
      BY <2>9
    <2> DEFINE d == text[e].cur
               l == text[e].k
    <2>4. d \in 0 .. Len(ir) /\ l \in 1 .. Len(Grp(ir, d)) /\ text[e].at = Spot(ir, d, l)
      BY DEF OwnInv
    <2>5. c \in 0 .. Len(ir)
      BY <2>1
    <2>6. Spot(ir, c, j) \in Int /\ Spot(ir, d, l) \in Int
      <3>1. ASSUME NEW f \in 0 .. Len(ir), NEW n \in 1 .. Len(Grp(ir, f)) PROVE Spot(ir, f, n) \in Int
        <4>1. BytesBefore(Grp(ir, f), n) \in Nat
          BY <2>1, GrpGood, InsideGroup
        <4>2. f \in 0 .. Len(ir) + 1
          BY <2>1
        <4>3. Starts(ir)[f] \in Nat
          BY <2>1, <4>2, StartsFollow
        <4> QED
          BY <4>1, <4>3 DEF Spot
      <3> QED
        BY <2>4, <2>5, <3>1
    <2>7. Spot(ir, c, j) = Spot(ir, d, l)
      BY <2>1, <2>3, <2>4, <2>6
    <2> HIDE DEF d, l
    <2>8. c = d
      BY <2>1, <2>4, <2>5, <2>7, SpotsDiffer
    <2> QED
      BY <2>3, <2>8 DEF d
  <1>2. Init => OwnInv
    BY OwnInit
  <1>3. TypeInv /\ MappedInv /\ OwnInv /\ [Next]_vars => OwnInv'
    BY OwnNext
  <1> QED
    BY <1>1, <1>2, <1>3, MappedInit, MappedNext, TypeInvariant, PTL DEF Spec
=============================================================================
