---------------------------- MODULE X64Encoding ----------------------------
(***************************************************************************)
(* Which x64 instructions stand for one IR instruction (the emit_*         *)
(* functions of src/src/x64/x64_generators.cpp), which optional fields     *)
(* each of them has, and how many bytes the two passes of x64.cpp take it  *)
(* for.  Opcode, ModRM and SIB bits are abstracted to the mnemonic `op`    *)
(* and the register `reg` they select; the flags require_* are the set     *)
(* `req`; an immediate that depends on the position of the code is left    *)
(* open and named by `fix`.                                                *)
(***************************************************************************)
EXTENDS Ir

CONSTANTS IMM32_HALF,  \* half the range of a 32 bit immediate: 2^31 in the source
          LibAddr      \* address of each stdlib function (enum STDLIB_BINARY_OFFSETS)

ASSUME Imm32Assumption == IMM32_HALF \in Nat \ {0}

LibFuncs == {"INP", "OUT", "SQRT", "HALT"}
ASSUME LibAddrAssumption == LibAddr \in [LibFuncs -> Int]

FIXED_PRECISION_MULTIPLIER == 100
SIZEOF_IMM32   == 4
SIZEOF_IMM64   == 8
EXEC_BUF_THRESHOLD == 15   \* "maximum 15 bytes per x64 instruction"

Fields  == {"REX", "prefix", "ModRM", "SIB", "imm32", "imm64"}
Fixups  == {"none", "abs", "rel"}
CondOps == {"JE_imm", "JNE_imm", "JG_imm", "JNL_imm", "JNGE_imm", "JNG_imm"}
Ops     == {"PUSH_reg", "PUSH_mem", "PUSH_imm", "POP_reg", "POP_mem", "ADD_mem_reg", "SUB_mem_reg",
            "CQO", "IMUL_reg", "IDIV_reg", "MOV_reg_imm64", "MOV_reg_imm32", "CALL_reg", "JMP_reg",
            "CMP_reg_reg", "RET", "none"} \cup CondOps
Regs    == {"RAX", "RBX", "RCX", "RDX", "RDI", "R8", "R12", "none"}
X64Instr == [op : Ops, reg : Regs, req : SUBSET Fields, imm : Int, fix : Fixups]

\* Assigning a wider integer to the field `imm32`, which the processor
\* sign-extends when it executes the instruction.
Imm32(v) == ((v + IMM32_HALF) % (2 * IMM32_HALF)) - IMM32_HALF

Ins(op, reg, req, imm, fix) ==
    [op |-> op, reg |-> reg, req |-> req, imm |-> imm, fix |-> fix]
X(op, reg, req)         == Ins(op, reg, req, 0, "none")
MovImm64(reg, imm, fix) == Ins("MOV_reg_imm64", reg, {"REX", "ModRM", "imm64"}, imm, fix)

\* x64_consts.h numbers the registers unlike ast_converter_generators.cpp: the
\* RDX of the IR (3) is rbx, its RBX (1) is rcx.
RegName(n) == CASE n = 0 -> "RAX" [] n = 1 -> "RCX" [] n = 2 -> "RDX" [] n = 3 -> "RBX"

\* generate_memory_arguments: [r8 + reg + 8 * imm].
MemOperand(op, i) ==
    Ins(op, IF i.need_reg_arg THEN RegName(i.reg_num) ELSE "none",
        {"REX", "ModRM"} \cup (IF i.need_imm_arg THEN {"imm32"} ELSE {})
                         \cup (IF i.need_reg_arg THEN {"SIB"} ELSE {}),
        IF i.need_imm_arg THEN Imm32(i.imm_arg * 8) ELSE 0, "none")

\* Without any operand the instruction is left with opcode zero ("none").  A
\* pop to an immediate fails an assertion: no encoding.
emit_push_or_pop(i) ==
    LET is_push == i.type = "PUSH"
    IN  CASE i.need_mem_arg -> << MemOperand(IF is_push THEN "PUSH_mem" ELSE "POP_mem", i) >>
          [] ~i.need_mem_arg /\ i.need_reg_arg ->
                << X(IF is_push THEN "PUSH_reg" ELSE "POP_reg", RegName(i.reg_num), {}) >>
          [] ~i.need_mem_arg /\ ~i.need_reg_arg /\ i.need_imm_arg ->
                IF is_push
                THEN << Ins("PUSH_imm", "none", {"imm32"},
                            Imm32(i.imm_arg * FIXED_PRECISION_MULTIPLIER), "none") >>
                ELSE << >>
          [] ~i.need_mem_arg /\ ~i.need_reg_arg /\ ~i.need_imm_arg -> << X("none", "none", {}) >>

emit_add_or_sub(i) ==
    << X("POP_reg", "RAX", {}),
       X(IF i.type = "ADD" THEN "ADD_mem_reg" ELSE "SUB_mem_reg", "RAX", {"REX", "ModRM", "SIB"}) >>

\* The fixed point is restored after a product, and prepared before a quotient.
emit_mull_or_div(i) ==
    LET pop2 == X("POP_reg", "R12", {"REX"})
        pop1 == X("POP_reg", "RAX", {})
        cqo  == X("CQO", "none", {"REX"})
        scale     == MovImm64("RCX", FIXED_PRECISION_MULTIPLIER, "none")
        imul(reg) == X("IMUL_reg", reg, {"REX", "ModRM"})
        idiv(reg) == X("IDIV_reg", reg, {"REX", "ModRM"})
        push == X("PUSH_reg", "RAX", {})
    IN  IF i.type = "MUL" THEN << pop2, pop1, cqo, imul("R12"), scale, idiv("RCX"), push >>
                          ELSE << pop2, pop1, cqo, scale, imul("RCX"), idiv("R12"), push >>

R8NotSaved(i) ==
    LET arg  == X("POP_reg", "RDI", {})
        mov  == MovImm64("RAX", LibAddr[i.type], "none")
        call == X("CALL_reg", "RAX", {"ModRM"})
        ret  == X("PUSH_reg", "RAX", {})
    IN  CASE i.type = "INP"  -> << mov, call, ret >>
          [] i.type = "OUT"  -> << arg, mov, call >>
          [] i.type = "SQRT" -> << arg, mov, call, ret >>
          [] i.type = "HALT" -> << mov, call >>
emit_lib_func(i) ==
    LET arg  == X("POP_reg", "RDI", {})
        mov  == MovImm64("RAX", LibAddr[i.type], "none")
        save == X("PUSH_reg", "R8", {"REX"})
        call == X("CALL_reg", "RAX", {"ModRM"})
        back == X("POP_reg", "R8", {"REX"})
        ret  == X("PUSH_reg", "RAX", {})
    IN  CASE i.type = "INP"  -> << mov, save, call, back, ret >>
          [] i.type = "OUT"  -> << arg, mov, save, call, back >>
          [] i.type = "SQRT" -> << arg, mov, save, call, back, ret >>
          [] i.type = "HALT" -> << mov, save, call, back >>

emit_ret == << X("RET", "none", {}) >>

emit_jmp_or_call(i) ==
    << MovImm64("RAX", 0, "abs"),
       X(IF i.type = "CALL" THEN "CALL_reg" ELSE "JMP_reg", "RAX", {"ModRM"}) >>

\* translate_cond_jump_opcode: all six comparisons are signed.
translate_cond_jump_opcode(i) ==
    CASE i.type = "JE" -> "JE_imm"   [] i.type = "JNE" -> "JNE_imm"
      [] i.type = "JA" -> "JG_imm"   [] i.type = "JAE" -> "JNL_imm"
      [] i.type = "JB" -> "JNGE_imm" [] i.type = "JBE" -> "JNG_imm"

emit_cond_jmp(i) ==
    << X("POP_reg", "RCX", {}), X("POP_reg", "RAX", {}), X("CMP_reg_reg", "RAX", {"REX", "ModRM"}),
       Ins(translate_cond_jump_opcode(i), "none", {"prefix", "imm32"}, 0, "rel") >>

\* mov r8, ram_addr
emit_code_preparation(ram_addr) ==
    << Ins("MOV_reg_imm32", "R8", {"REX", "ModRM", "imm32"}, Imm32(ram_addr), "none") >>

\* The whole group of one IR instruction; empty where an assertion fails.
encode_one_ir_instruction(i) ==
    CASE i.type \in {"PUSH", "POP"} -> emit_push_or_pop(i)
      [] i.type \in {"ADD", "SUB"}  -> emit_add_or_sub(i)
      [] i.type \in {"MUL", "DIV"}  -> emit_mull_or_div(i)
      [] i.type \in LibFuncs        -> emit_lib_func(i)
      [] i.type \in {"JMP", "CALL"} -> emit_jmp_or_call(i)
      [] i.type = "RET"             -> emit_ret
      [] i.type \in Jumps           -> emit_cond_jmp(i)
      [] i.type \in Unsupported     -> << >>

Bytes(x, field, size) == IF field \in x.req THEN size ELSE 0

CommandSizeNoPrefix(x) == 1 + Bytes(x, "REX", 1) + Bytes(x, "ModRM", 1) + Bytes(x, "SIB", 1)
                          + Bytes(x, "imm32", SIZEOF_IMM32) + Bytes(x, "imm64", SIZEOF_IMM64)
\* What the first pass adds to the position (emit_instruction_calc_offset).
CommandSize(x) == 1 + Bytes(x, "REX", 1) + Bytes(x, "prefix", 1) + Bytes(x, "ModRM", 1)
                    + Bytes(x, "SIB", 1) + Bytes(x, "imm32", SIZEOF_IMM32)
                    + Bytes(x, "imm64", SIZEOF_IMM64)

\* What the second pass writes (emit_instruction_write, EMIT_OPTIONAL_FIELD),
\* in the order of the bytes.
WrittenBytes(x) == Bytes(x, "REX", 1) + Bytes(x, "prefix", 1) + 1 + Bytes(x, "ModRM", 1)
                     + Bytes(x, "SIB", 1) + Bytes(x, "imm32", SIZEOF_IMM32)
                     + Bytes(x, "imm64", SIZEOF_IMM64)
=============================================================================
