--------------------------------- MODULE Ir ---------------------------------
(***************************************************************************)
(* The intermediate representation (src/src/ir/ir.h, ir.cpp): the linked   *)
(* list of instructions that the front half of the compiler builds and the *)
(* back half reads.  The list is a sequence, and the field `index` that    *)
(* code_insert assigns is one less than the position.                      *)
(***************************************************************************)
EXTENDS Integers, Sequences

\* The types the back end encodes; the enum also has INC, DEC, SIN and COS.
Jumps        == {"JE", "JNE", "JBE", "JB", "JA", "JAE"}
Encodable    == {"PUSH", "POP", "ADD", "SUB", "MUL", "DIV", "RET", "HALT",
                 "INP", "OUT", "SQRT", "CALL", "JMP"} \cup Jumps
Unsupported  == {"INC", "DEC", "SIN", "COS"}
InstrTypes   == Encodable \cup Unsupported

\* struct instruction_t without `index` and `next`.
Instr == [type : InstrTypes, need_imm_arg : BOOLEAN, need_reg_arg : BOOLEAN,
          need_mem_arg : BOOLEAN, reg_num : 0..3, imm_arg : Int]

\* An instruction without operands: `{.type = t}`, every other field zero.
Plain(t) == [type |-> t, need_imm_arg |-> FALSE, need_reg_arg |-> FALSE,
             need_mem_arg |-> FALSE, reg_num |-> 0, imm_arg |-> 0]

WithImm(t, imm)      == [Plain(t) EXCEPT !.need_imm_arg = TRUE, !.imm_arg = imm]
WithReg(t, reg)      == [Plain(t) EXCEPT !.need_reg_arg = TRUE, !.reg_num = reg]
WithMem(t, reg, imm) == [WithImm(t, imm) EXCEPT !.need_mem_arg = TRUE,
                                               !.need_reg_arg = TRUE, !.reg_num = reg]

code_new == << >>
code_insert(code, instruction) == Append(code, instruction)

\* The instruction whose `index` is i, and whether there is one.
At(code, i)    == code[i + 1]
Inside(code, i) == i \in 0 .. Len(code) - 1

\* Instructions whose immediate is the index of another instruction.
IsTransfer(instruction) == instruction.type \in Jumps \cup {"JMP", "CALL"}
=============================================================================
