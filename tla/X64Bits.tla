------------------------------ MODULE X64Bits -------------------------------
(***************************************************************************)
(* The bytes of an x64 instruction: what the emit_* functions of           *)
(* src/src/x64/x64_generators.cpp put together from the constants of       *)
(* x64_consts.h, and how a processor reads it.  X64Encoding names the      *)
(* instruction that is meant; nothing here takes that on trust, because    *)
(* the constants are combined by `|`, which hides bits that overlap.       *)
(***************************************************************************)
EXTENDS X64Encoding

\* The bit of a weight, a power of two, in a byte; the operators of C on bytes.
Bit(b, weight) == (b \div weight) % 2
x | y ==
    LET either(weight) == IF Bit(x, weight) = 1 \/ Bit(y, weight) = 1 THEN weight ELSE 0
    IN  either(128) + either(64) + either(32) + either(16)
          + either(8) + either(4) + either(2) + either(1)
x & y == x + y - (x | y)

\* enum REGS.
REGS == [RAX |-> \b0000, RCX |-> \b0001, RDX |-> \b0010, RBX |-> \b0011, RSP |-> \b0100,
         RDI |-> \b0111, R8 |-> \b1000, R12 |-> \b1100]
REG_NUMBERS == 0 .. 15

\* enum x64_OPCODES.  (MOV_reg_imm64 is the code's MOV_reg_imm, a REX byte; the
\* opcode proper is in what the code calls ModRM.)
x64_OPCODES ==
    [PUSH_reg |-> \h50, PUSH_imm |-> \h68, PUSH_mem |-> \hFF, POP_reg |-> \h58, POP_mem |-> \h8F,
     ADD_mem_reg |-> \h01, SUB_mem_reg |-> \h29, IMUL_reg |-> \hF7, IDIV_reg |-> \hF7,
     MOV_reg_imm64 |-> \h48, MOV_reg_imm32 |-> \hC7, CALL_reg |-> \hFF, JMP_reg |-> \hFF,
     CMP_reg_reg |-> \h39, RET |-> \hC3, CQO |-> \h99, none |-> 0,
     JNGE_imm |-> \h8C, JNL_imm |-> \h8D, JE_imm |-> \h84, JNE_imm |-> \h85,
     JNG_imm |-> \h8E, JG_imm |-> \h8F]
CONDJMP_imm_prefix == \h0F

EXTENDED_REG_MASK         == \b1000
LOWER_REG_BITS_MASK       == \b0111
REX_BYTE_IF_NUM_REGS      == \b01000001
REX_BYTE_IF_64_BIT        == \b01001000
IMM_MODRM_MODE_BIT        == \b10000000
DOUBLE_REG_MODRM_MODE_BIT == \b00000100
ONLY_REG_MODRM_MODE_BIT   == \b11000000
MODRM_MUL_REG_BITS == \b00101000
MODRM_DIV_REG_BITS == \b00111000
PUSH_MOD_REG_BITS  == \b00110000
POP_MOD_REG_BITS   == \b00000000
CALL_MOD_REG_BITS  == \b00010000
JMP_MOD_REG_BITS   == \b00100000

MemOps == {"PUSH_mem", "POP_mem"}

EveryRegister(x) ==
    IF x.op \in {"PUSH_reg", "POP_reg"} THEN x64_OPCODES[x.op] | REGS[x.reg] ELSE x64_OPCODES[x.op]
\* A register in the opcode: r12 is combined with it as it is, r8 is not there.
Opcode(x) ==
    IF x.op \in {"PUSH_reg", "POP_reg"} /\ x.reg # "R8"
    THEN x64_OPCODES[x.op] | REGS[x.reg] ELSE x64_OPCODES[x.op]

Rex(x) ==
    (IF (x.op \in MemOps /\ (REGS.R8 & EXTENDED_REG_MASK) # 0) \/ x.reg \in {"R8", "R12"}
     THEN REX_BYTE_IF_NUM_REGS ELSE 0)
      | (IF x.op \in MemOps \cup {"PUSH_reg", "POP_reg"} THEN 0 ELSE REX_BYTE_IF_64_BIT)

\* r8 is the base, for which the REX byte has a bit.
ModRMOfMemory(x) ==
    (IF "imm32" \in x.req THEN IMM_MODRM_MODE_BIT ELSE 0)
      | (IF "SIB" \in x.req THEN DOUBLE_REG_MODRM_MODE_BIT ELSE 0)
      | (IF x.op = "PUSH_mem" THEN PUSH_MOD_REG_BITS ELSE POP_MOD_REG_BITS)

ModRM(x) ==
    CASE x.op \in MemOps -> ModRMOfMemory(x)
      [] x.op \in {"ADD_mem_reg", "SUB_mem_reg"} -> DOUBLE_REG_MODRM_MODE_BIT
      [] x.op = "IMUL_reg" -> ONLY_REG_MODRM_MODE_BIT | MODRM_MUL_REG_BITS | REGS[x.reg]
      [] x.op = "IDIV_reg" -> ONLY_REG_MODRM_MODE_BIT | MODRM_DIV_REG_BITS | REGS[x.reg]
      [] x.op = "MOV_reg_imm64" -> IMM_MODRM_MODE_BIT | (REGS.RDI * 8) | REGS[x.reg]
      [] x.op = "MOV_reg_imm32" -> ONLY_REG_MODRM_MODE_BIT
      [] x.op = "CALL_reg" -> ONLY_REG_MODRM_MODE_BIT | CALL_MOD_REG_BITS | REGS[x.reg]
      [] x.op = "JMP_reg"  -> ONLY_REG_MODRM_MODE_BIT | JMP_MOD_REG_BITS | REGS[x.reg]
      [] x.op = "CMP_reg_reg" -> ONLY_REG_MODRM_MODE_BIT | (REGS.RCX * 8) | REGS.RAX

SIB(x) == IF x.op \in MemOps THEN (REGS.R8 & LOWER_REG_BITS_MASK) | (REGS[x.reg] * 8)
          ELSE REGS.RSP | (REGS.RSP * 8)

Optional(field, x, b) == IF field \in x.req THEN << b >> ELSE << >>
\* The bytes in front of the immediate, in the order of emit_instruction_write,
\* and the size of the immediate.
Head_(x) == Optional("REX", x, Rex(x)) \o Optional("prefix", x, CONDJMP_imm_prefix)
              \o << Opcode(x) >> \o Optional("ModRM", x, ModRM(x)) \o Optional("SIB", x, SIB(x))
ImmSize(x) == Bytes(x, "imm32", SIZEOF_IMM32) + Bytes(x, "imm64", SIZEOF_IMM64)
-----------------------------------------------------------------------------
\* The processor (external): what it does with the bytes of one instruction.
\* `to` and `from` are registers; of a memory operand, base and index.
NoReg == 16
Decoded(op, to, from, size) == [op |-> op, to |-> to, from |-> from, size |-> size]
Garbage == Decoded("none", NoReg, NoReg, 0)

IsRex(b) == b \in \h40 .. \h4F

\* The bytes b behind all REX bytes; of these, the last one counts.
WithRex(b, rex) ==
    LET W == Bit(rex, 8) = 1
        B == 8 * Bit(rex, 1)
        R == 8 * Bit(rex, 4)
        reg_op(first, op, size) == Decoded(op, b[1] - first + B, NoReg, size)
        mod  == b[2] \div 64
        reg  == (b[2] \div 8) % 8
        rm   == b[2] % 8
        disp == CASE mod = 0 -> 0 [] mod = 1 -> 1 [] mod = 2 -> 4
        named == ((b[3] \div 8) % 8) + 8 * Bit(rex, 2)
        index == IF rm = 4 /\ named # REGS.RSP THEN named ELSE NoReg
        memory(op, other) ==
            IF rm = 4 THEN IF Len(b) = 3 /\ b[3] < 64
                           THEN Decoded(op, (b[3] % 8) + B, IF other = NoReg THEN index ELSE other, disp)
                           ELSE Garbage
            ELSE IF Len(b) = 2 THEN Decoded(op, rm + B, other, disp) ELSE Garbage
        register(op, other, size) ==
            IF Len(b) = 2 THEN Decoded(op, rm + B, other, size) ELSE Garbage
    IN  CASE b[1] \in \h50 .. \h57 -> reg_op(\h50, "PUSH_reg", 0)
          [] b[1] \in \h58 .. \h5F -> reg_op(\h58, "POP_reg", 0)
          [] b[1] = \h68 -> Decoded("PUSH_imm", NoReg, NoReg, 4)
          [] b[1] = \hC3 -> Decoded("RET", NoReg, NoReg, 0)
          [] b[1] = \h99 /\ W -> Decoded("CQO", NoReg, NoReg, 0)
          [] b[1] \in \hB8 .. \hBF /\ W -> reg_op(\hB8, "MOV_reg_imm64", 8)
          [] b[1] = \h0F /\ Len(b) = 2 /\ b[2] \in {x64_OPCODES[c] : c \in CondOps} ->
                Decoded(CHOOSE c \in CondOps : x64_OPCODES[c] = b[2], NoReg, NoReg, 4)
          [] b[1] = \hFF /\ mod # 3 /\ reg = 6 -> memory("PUSH_mem", NoReg)
          [] b[1] = \h8F /\ mod # 3 /\ reg = 0 -> memory("POP_mem", NoReg)
          [] b[1] = \h01 /\ mod # 3 /\ W /\ index = NoReg -> memory("ADD_mem_reg", reg + R)
          [] b[1] = \h29 /\ mod # 3 /\ W /\ index = NoReg -> memory("SUB_mem_reg", reg + R)
          [] b[1] = \hFF /\ mod = 3 /\ reg = 2 -> register("CALL_reg", NoReg, 0)
          [] b[1] = \hFF /\ mod = 3 /\ reg = 4 -> register("JMP_reg", NoReg, 0)
          [] b[1] = \hF7 /\ mod = 3 /\ W /\ reg = 5 -> register("IMUL_reg", NoReg, 0)
          [] b[1] = \hF7 /\ mod = 3 /\ W /\ reg = 7 -> register("IDIV_reg", NoReg, 0)
          [] b[1] = \hC7 /\ mod = 3 /\ W /\ reg = 0 -> register("MOV_reg_imm32", NoReg, 4)
          [] b[1] = \h39 /\ mod = 3 /\ W -> register("CMP_reg_reg", reg + R, 0)
          [] OTHER -> Garbage

decode(head) ==
    LET n == CHOOSE i \in 0 .. Len(head) - 1 :
                /\ \A j \in 1 .. i : IsRex(head[j])
                /\ i = Len(head) - 1 \/ ~IsRex(head[i + 1])
    IN  WithRex(SubSeq(head, n + 1, Len(head)), IF n = 0 THEN 0 ELSE head[n])
=============================================================================
