-------------------------- MODULE X64MachineProofs --------------------------
(***************************************************************************)
(* Theorems about X64Machine: the processor executes what the translation  *)
(* has written, for every IR program whose jumps stay inside of it.        *)
(***************************************************************************)
EXTENDS X64Machine, X64EmitterProofs

-----------------------------------------------------------------------------
(* What is in the buffer: one x64 instruction behind the other, in the     *)
(* order of the IR.                                                        *)

\* The same instruction but for an immediate that depends on the position.
Like(x, y) == /\ x.op = y.op /\ x.reg = y.reg /\ x.req = y.req /\ x.fix = y.fix
              /\ y.fix = "none" => x = y

\* The position behind an instruction, and the instruction that comes next.
End(e) == e.at + WrittenBytes(e.x)
Succeeds(e, c, j) ==
    IF e.k < Len(GroupOf(e.cur)) THEN c = e.cur /\ j = e.k + 1 ELSE c = e.cur + 1 /\ j = 1

\* The beginning of the group of an IR instruction has been written.
Begun(c) == \E d \in 1 .. Len(text) : text[d].cur = c /\ text[d].k = 1

TextInv ==
    /\ pass_index = 0 => text = << >>
    /\ \A d \in 1 .. Len(text) :
          /\ text[d].cur \in 0 .. Len(ir) /\ text[d].k \in 1 .. Len(GroupOf(text[d].cur))
          /\ Like(text[d].x, GroupOf(text[d].cur)[text[d].k])
          /\ End(text[d]) <= exec_buf_size
    /\ text # << >> => text[1].at = 0 /\ text[1].cur = 0 /\ text[1].k = 1
    /\ \A d \in 1 .. Len(text) - 1 :
          text[d + 1].at = End(text[d]) /\ Succeeds(text[d], text[d + 1].cur, text[d + 1].k)
    /\ \A d, e \in 1 .. Len(text) : d < e => End(text[d]) <= text[e].at
    /\ status = "running" /\ pass_index = PASS_INDEX_TO_WRITE =>
          /\ text = << >> => cur = 0 /\ k = 1 /\ exec_buf_size = 0
          /\ text # << >> => /\ exec_buf_size = End(text[Len(text)])
                             /\ Succeeds(text[Len(text)], cur, IF k = 0 THEN 1 ELSE k)
          /\ \A c \in 1 .. Len(ir) : c < cur \/ (c = cur /\ k > 1) => Begun(c)
    /\ status = "OK" =>
          /\ text # << >> /\ exec_buf_size = End(text[Len(text)])
          /\ text[Len(text)].cur = Len(ir) /\ text[Len(text)].k = Len(GroupOf(Len(ir)))
          /\ \A c \in 1 .. Len(ir) : Begun(c)

LEMMA GroupsStay == ASSUME UNCHANGED args PROVE \A c : GroupOf(c)' = GroupOf(c)
  BY DEF args, GroupOf, ram_addr

LEMMA ResolvedLike ==
    ASSUME NEW x, WellFormed(x)
    PROVE  Like(Resolved(x), x) /\ WrittenBytes(Resolved(x)) = WrittenBytes(x)
  <1>1. x \in X64Instr /\ x.fix \in {"none", "abs", "rel"}
    BY DEF WellFormed, X64Instr, Fixups
  <1>2. CASE x.fix = "none"
    BY <1>1, <1>2 DEF Resolved, Like
  <1>3. CASE x.fix = "abs"
    BY <1>1, <1>3 DEF Resolved, Like, X64Instr, WrittenBytes, Bytes
  <1>4. CASE x.fix = "rel"
    BY <1>1, <1>4 DEF Resolved, Like, X64Instr, WrittenBytes, Bytes
  <1> QED
    BY <1>1, <1>2, <1>3, <1>4

LEMMA TextEnds ==
    ASSUME TypeInv, NEW d \in 1 .. Len(text)
    PROVE  text[d].at \in Nat /\ WrittenBytes(text[d].x) \in Nat /\ End(text[d]) \in Nat
  <1>1. text[d] \in Entries
    BY SeqElement DEF TypeInv, TypeOK
  <1>2. text[d].at \in Nat
    BY <1>1 DEF Entries
  <1>3. WrittenBytes(text[d].x) \in Nat
    BY DEF WrittenBytes, Bytes, SIZEOF_IMM32, SIZEOF_IMM64
  <1> QED
    BY <1>2, <1>3 DEF End

LEMMA TextWrite == ASSUME TypeInv, TextInv, emit_instruction_write PROVE TextInv'
  <1> DEFINE n == Len(text)
             x == Resolved(Group[k])
             e == [at |-> exec_buf_size, x |-> x, cur |-> cur, k |-> k]
             s == exec_buf_size
             w == WrittenBytes(Group[k])
  <1>1. /\ AtInstruction(PASS_INDEX_TO_WRITE) /\ text' = Append(text, e) /\ ir' = ir
        /\ exec_buf_size' = s + w /\ status' = status /\ pass_index' = pass_index /\ Advance
        /\ UNCHANGED args /\ status = "running" /\ pass_index = 1
    BY DEF emit_instruction_write, AtInstruction, args, PASS_INDEX_TO_WRITE
  <1>2. /\ cur \in 0 .. Len(ir) /\ k \in 1 .. Len(Group) /\ Len(Group) \in 1 .. 7
        /\ WellFormed(Group[k]) /\ w \in Nat /\ Len(ir) \in Nat /\ s \in Nat /\ n \in Nat
    BY <1>1, EmitFacts DEF TypeInv, TypeOK
  <1>3. Like(x, Group[k]) /\ WrittenBytes(x) = w
    BY <1>2, ResolvedLike
  <1>4. x \in X64Instr
    <2>1. ir \in Seq(Instr)
      BY ProgramsAssumption DEF TypeInv, TypeOK
    <2>2. cur # 0 => ir[cur] \in Instr
      BY <1>2, <2>1, SeqElement
    <2>3. cur = 0 => Group[k].fix = "none"
      BY <1>2 DEF Group, GroupOf, emit_code_preparation, Ins
    <2> QED
      BY <1>1, <2>2, <2>3, ResolvedType
  <1>5. /\ Len(text') = n + 1 /\ text'[n + 1] = e /\ text' # << >>
        /\ \A d \in 1 .. n : text'[d] = text[d]
    <2>1. text \in Seq(Entries)
      BY DEF TypeInv, TypeOK
    <2>2. e \in Entries
      BY <1>2, <1>4 DEF Entries
    <2>3. Append(text, e) # << >>
      BY <1>2, <2>1, <2>2, AppendFacts
    <2> HIDE DEF e
    <2> QED
      BY <1>1, <2>1, <2>2, <2>3, AppendFacts
  <1>6. /\ e.at = s /\ e.cur = cur /\ e.k = k /\ e.x = x /\ End(e) = s + w
        /\ Group = GroupOf(cur) /\ ram_addr' = ram_addr
    BY <1>1, <1>3 DEF End, Group, args, ram_addr
  <1> HIDE DEF e, x
  <1>7. \A d \in 1 .. n : End(text[d]) <= s
    BY DEF TextInv
  <1>8. \A d \in 1 .. n : End(text[d]) \in Nat /\ End(text[d]) <= s + w
    BY <1>2, <1>7, TextEnds
  <1>9. \A d \in 1 .. Len(text') :
           /\ text'[d].cur \in 0 .. Len(ir') /\ text'[d].k \in 1 .. Len(GroupOf(text'[d].cur))
           /\ Like(text'[d].x, GroupOf(text'[d].cur)[text'[d].k])
           /\ End(text'[d]) <= exec_buf_size'
    <2> SUFFICES ASSUME NEW d \in 1 .. n + 1
                 PROVE  /\ text'[d].cur \in 0 .. Len(ir') /\ text'[d].k \in 1 .. Len(GroupOf(text'[d].cur))
                        /\ Like(text'[d].x, GroupOf(text'[d].cur)[text'[d].k])
                        /\ End(text'[d]) <= exec_buf_size'
      BY <1>5
    <2>1. CASE d \in 1 .. n
      BY <1>1, <1>5, <1>6, <1>8, <2>1 DEF TextInv
    <2>2. CASE d = n + 1
      BY <1>1, <1>2, <1>3, <1>5, <1>6, <2>2
    <2> QED
      BY <1>2, <2>1, <2>2
  <1>10. text'[1].at = 0 /\ text'[1].cur = 0 /\ text'[1].k = 1
    <2>1. CASE n = 0
      BY <1>1, <1>5, <1>6, <2>1 DEF TextInv, PASS_INDEX_TO_WRITE
    <2>2. CASE n # 0
      <3>1. 1 \in 1 .. n /\ text # << >>
        BY <1>2, <2>2
      <3>2. text'[1] = text[1]
        BY <1>5, <3>1
      <3>3. text[1].at = 0 /\ text[1].cur = 0 /\ text[1].k = 1
        BY <3>1 DEF TextInv
      <3> QED
        BY <3>2, <3>3
    <2> QED
      BY <2>1, <2>2
  <1>11. ASSUME NEW d \in 1 .. n
         PROVE  /\ text'[d + 1].at = End(text'[d])
                /\ Succeeds(text'[d], text'[d + 1].cur, text'[d + 1].k)
    <2>1. CASE d \in 1 .. n - 1
      <3>1. d + 1 \in 1 .. n /\ d \in 1 .. n
        BY <1>2, <2>1
      <3>2. text'[d] = text[d] /\ text'[d + 1] = text[d + 1]
        BY <1>5, <3>1
      <3>3. text[d + 1].at = End(text[d]) /\ Succeeds(text[d], text[d + 1].cur, text[d + 1].k)
        BY <2>1 DEF TextInv
      <3> QED
        BY <3>2, <3>3
    <2>2. CASE d = n
      BY <1>1, <1>2, <1>5, <1>6, <2>2 DEF TextInv, PASS_INDEX_TO_WRITE
    <2> QED
      BY <1>2, <2>1, <2>2
  <1>12. ASSUME NEW c \in 1 .. n + 1, NEW d \in 1 .. n + 1, c < d
         PROVE  End(text'[c]) <= text'[d].at
    <2>1. CASE d \in 1 .. n
      <3>1. c \in 1 .. n
        BY <1>2, <1>12, <2>1
      <3>2. text'[c] = text[c] /\ text'[d] = text[d]
        BY <1>5, <2>1, <3>1
      <3>3. End(text[c]) <= text[d].at
        BY <1>12, <2>1, <3>1 DEF TextInv
      <3> QED
        BY <3>2, <3>3
    <2>2. CASE d = n + 1
      <3>1. c \in 1 .. n
        BY <1>2, <1>12, <2>2
      <3>2. text'[c] = text[c] /\ text'[d].at = s
        BY <1>5, <1>6, <2>2, <3>1
      <3> QED
        BY <1>7, <3>1, <3>2
    <2> QED
      BY <1>2, <2>1, <2>2
  <1>13. Succeeds(text'[n + 1], cur', IF k' = 0 THEN 1 ELSE k')
    <2>1. text'[n + 1].cur = cur /\ text'[n + 1].k = k
      BY <1>5, <1>6
    <2>2. CASE k < Len(Group)
      BY <1>1, <1>2, <1>6, <2>1, <2>2 DEF Succeeds, Advance
    <2>3. CASE ~(k < Len(Group))
      BY <1>1, <1>6, <2>1, <2>3 DEF Succeeds, Advance
    <2> QED
      BY <2>2, <2>3
  <1>14. ASSUME NEW c \in 1 .. Len(ir), c < cur' \/ (c = cur' /\ k' > 1)
         PROVE  Begun(c)'
    <2>1. CASE c < cur \/ (c = cur /\ k > 1)
      <3>1. PICK d \in 1 .. n : text[d].cur = c /\ text[d].k = 1
        BY <1>1, <2>1 DEF TextInv, Begun, PASS_INDEX_TO_WRITE
      <3> QED
        BY <1>2, <1>5, <3>1 DEF Begun
    <2>2. CASE c = cur /\ k = 1
      <3>1. n + 1 \in 1 .. Len(text') /\ text'[n + 1].cur = c /\ text'[n + 1].k = 1
        BY <1>2, <1>5, <1>6, <2>2
      <3> QED
        BY <3>1 DEF Begun
    <2>3. c < cur \/ (c = cur /\ k > 1) \/ (c = cur /\ k = 1)
      BY <1>1, <1>2, <1>14 DEF Advance
    <2> QED
      BY <2>1, <2>2, <2>3
  <1> QED
    <2>1. \A d \in 1 .. Len(text') - 1 :
             text'[d + 1].at = End(text'[d]) /\ Succeeds(text'[d], text'[d + 1].cur, text'[d + 1].k)
      BY <1>2, <1>5, <1>11
    <2>2. exec_buf_size' = End(text'[Len(text')])
      BY <1>1, <1>5, <1>6
    <2>3. pass_index' # 0 /\ status' # "OK" /\ text' # << >> /\ Len(ir') = Len(ir)
      BY <1>1, <1>5
    <2>4. \A c, d \in 1 .. Len(text') : c < d => End(text'[c]) <= text'[d].at
      BY <1>5, <1>12
    <2>5. Succeeds(text'[Len(text')], cur', IF k' = 0 THEN 1 ELSE k')
      BY <1>5, <1>13
    <2> QED
      BY <1>1, <1>6, <1>9, <1>10, <1>14, <2>1, <2>2, <2>3, <2>4, <2>5 DEF TextInv, Succeeds, GroupOf, End

LEMMA TextNext == TypeInv /\ TextInv /\ [Next]_vars => TextInv'
  <1> SUFFICES ASSUME TypeInv, TextInv, [Next]_vars PROVE TextInv'
    OBVIOUS
  <1>1. CASE emit_instruction_write
    BY <1>1, TextWrite
  <1>2. CASE start_new_pass
    <2>1. /\ status = "running" /\ k = 0 /\ cur = Len(ir) + 1 /\ pass_index' = pass_index + 1
          /\ text' = text /\ ir' = ir /\ \A c : GroupOf(c)' = GroupOf(c)
          /\ Len(ir) \in Nat
      BY <1>2, GroupsStay DEF start_new_pass, args, TypeInv, TypeOK
    <2>2. CASE pass_index = 0
      <3>1. text = << >> /\ cur' = 0 /\ k' = 1 /\ exec_buf_size' = 0 /\ status' = "running"
        BY <1>2, <2>2 DEF start_new_pass, TextInv, TOTAL_PASS_COUNT
      <3>2. Len(text') = 0 /\ pass_index' = 1
        BY <2>1, <2>2, <3>1
      <3> QED
        BY <2>1, <3>1, <3>2 DEF TextInv, PASS_INDEX_TO_WRITE
    <2>3. CASE pass_index = 1
      <3>1. exec_buf_size' = exec_buf_size /\ status' = "OK" /\ pass_index' = 2
        BY <1>2, <2>1, <2>3 DEF start_new_pass, TOTAL_PASS_COUNT
      <3>2. text # << >>
        BY <2>1, <2>3 DEF TextInv, PASS_INDEX_TO_WRITE
      <3>3. exec_buf_size = End(text[Len(text)]) /\ Succeeds(text[Len(text)], Len(ir) + 1, 1)
        BY <2>1, <2>3, <3>2 DEF TextInv, PASS_INDEX_TO_WRITE
      <3> DEFINE e == text[Len(text)]
      <3>4. e.cur \in 0 .. Len(ir) /\ e.k \in 1 .. Len(GroupOf(e.cur)) /\ Len(GroupOf(e.cur)) \in Nat
        <4>1. Len(text) \in 1 .. Len(text)
          BY <3>2, SeqElement DEF TypeInv, TypeOK
        <4>2. e.cur \in 0 .. Len(ir) /\ e.k \in 1 .. Len(GroupOf(e.cur))
          BY <4>1 DEF TextInv
        <4> QED
          BY <4>2, GroupOfGood DEF TypeInv, GoodGroup
      <3>5. e.cur = Len(ir) /\ e.k = Len(GroupOf(Len(ir)))
        BY <2>1, <3>3, <3>4 DEF Succeeds
      <3>6. \A c \in 1 .. Len(ir) : Begun(c)
        BY <2>1, <2>3 DEF TextInv, PASS_INDEX_TO_WRITE
      <3> QED
        BY <2>1, <2>3, <3>1, <3>2, <3>3, <3>5, <3>6 DEF TextInv, Succeeds, Begun
    <2> QED
      BY <2>1, <2>2, <2>3 DEF TypeInv, Control, PASS_INDEX_TO_CALC_OFFSETS, PASS_INDEX_TO_WRITE
  <1>3. CASE NextIr
    <2>1. /\ status = "running" /\ k = 0 /\ k' = 1 /\ status' # "OK" /\ cur' = cur /\ pass_index' = pass_index
          /\ text' = text /\ ir' = ir /\ exec_buf_size' = exec_buf_size
          /\ \A c : GroupOf(c)' = GroupOf(c)
      BY <1>3, GroupsStay DEF NextIr, args
    <2> QED
      BY <2>1 DEF TextInv, Succeeds, Begun
  <1>4. CASE emit_instruction_calc_offset
    <2>1. /\ pass_index = 0 /\ status = "running" /\ text = << >> /\ text' = text
          /\ pass_index' = pass_index /\ status' = status
      BY <1>4 DEF emit_instruction_calc_offset, AtInstruction, TextInv, PASS_INDEX_TO_CALC_OFFSETS
    <2> QED
      BY <2>1 DEF TextInv, PASS_INDEX_TO_WRITE
  <1>5. CASE WriteFaults
    <2>1. /\ status' = "crash" /\ pass_index' = pass_index /\ text' = text /\ ir' = ir
          /\ exec_buf_size' = exec_buf_size /\ \A c : GroupOf(c)' = GroupOf(c)
      BY <1>5, GroupsStay DEF WriteFaults, args
    <2> QED
      BY <2>1 DEF TextInv, Succeeds
  <1>6. CASE UNCHANGED vars
    <2>1. /\ UNCHANGED << pass_index, text, ir, exec_buf_size, status, cur, k >>
          /\ \A c : GroupOf(c)' = GroupOf(c)
      BY <1>6, GroupsStay DEF vars, args
    <2> QED
      BY <2>1 DEF TextInv, Succeeds, Begun
  <1> QED
    BY <1>1, <1>2, <1>3, <1>4, <1>5, <1>6 DEF Next, Terminated

LEMMA TextInit == Init => TextInv
  BY DEF Init, TextInv
-----------------------------------------------------------------------------
(* The bytes.                                                              *)

\* What the emit_* functions mean by an instruction, in the terms of the
\* processor: r8 is the base of an operand in memory, the register its index;
\* add and sub change the top of the stack.
Stacked == {"ADD_mem_reg", "SUB_mem_reg"}
To(x) ==
    IF x.op \in MemOps THEN REGS.R8 ELSE IF x.op \in Stacked THEN REGS.RSP
    ELSE IF x.reg = "none" THEN NoReg ELSE REGS[x.reg]
From(x) ==
    IF x.op = "CMP_reg_reg" THEN REGS.RCX
    ELSE IF x.reg # "none" /\ x.op \in MemOps \cup Stacked THEN REGS[x.reg] ELSE NoReg
Meant(x) == Decoded(x.op, To(x), From(x), ImmSize(x))

\* The constants of x64_consts.h, as they are combined.
LEMMA JoinedOpcodes ==
    /\ 80 | 0 = 80 /\ 80 | 1 = 81 /\ 80 | 2 = 82 /\ 80 | 3 = 83
    /\ 88 | 0 = 88 /\ 88 | 1 = 89 /\ 88 | 2 = 90 /\ 88 | 3 = 91 /\ 88 | 7 = 95 /\ 88 | 12 = 92
  BY DEF |, Bit

LEMMA JoinedRex == 65 | 0 = 65 /\ 0 | 72 = 72 /\ 65 | 72 = 73 /\ 8 & 8 = 8 /\ 8 & 7 = 0
  BY DEF |, &, Bit

LEMMA JoinedModRM ==
    /\ 192 | 40 = 232 /\ 232 | 1 = 233 /\ 232 | 12 = 236
    /\ 192 | 56 = 248 /\ 248 | 1 = 249 /\ 248 | 12 = 252
    /\ 128 | 56 = 184 /\ 184 | 0 = 184 /\ 184 | 1 = 185
    /\ 192 | 16 = 208 /\ 208 | 0 = 208 /\ 192 | 32 = 224 /\ 224 | 0 = 224
    /\ 192 | 8 = 200 /\ 200 | 0 = 200
  BY DEF |, Bit

LEMMA JoinedMemory ==
    /\ 128 | 4 = 132 /\ 128 | 0 = 128 /\ 0 | 4 = 4 /\ 0 | 0 = 0
    /\ 132 | 48 = 180 /\ 128 | 48 = 176 /\ 4 | 48 = 52 /\ 0 | 48 = 48
    /\ 132 | 0 = 132 /\ 4 | 0 = 4
    /\ 0 | 8 = 8 /\ 0 | 16 = 16 /\ 0 | 24 = 24 /\ 4 | 32 = 36
  BY DEF |, Bit

\* The bytes in front of the immediate, by the fields that are there.
LEMMA HeadOnly ==
    ASSUME NEW x, "REX" \notin x.req, "prefix" \notin x.req, "ModRM" \notin x.req, "SIB" \notin x.req,
           Opcode(x) \in Int
    PROVE  Head_(x) \in Seq(Int) /\ Len(Head_(x)) = 1 /\ Head_(x)[1] = Opcode(x)
  BY DEF Head_, Optional
LEMMA HeadRex ==
    ASSUME NEW x, "REX" \in x.req, "prefix" \notin x.req, "ModRM" \notin x.req, "SIB" \notin x.req,
           Opcode(x) \in Int, Rex(x) \in Int
    PROVE  /\ Head_(x) \in Seq(Int) /\ Len(Head_(x)) = 2
           /\ Head_(x)[1] = Rex(x) /\ Head_(x)[2] = Opcode(x)
  BY DEF Head_, Optional
LEMMA HeadPrefix ==
    ASSUME NEW x, "REX" \notin x.req, "prefix" \in x.req, "ModRM" \notin x.req, "SIB" \notin x.req,
           Opcode(x) \in Int
    PROVE  /\ Head_(x) \in Seq(Int) /\ Len(Head_(x)) = 2
           /\ Head_(x)[1] = 15 /\ Head_(x)[2] = Opcode(x)
  BY DEF Head_, Optional, CONDJMP_imm_prefix
LEMMA HeadModRM ==
    ASSUME NEW x, "REX" \notin x.req, "prefix" \notin x.req, "ModRM" \in x.req, "SIB" \notin x.req,
           Opcode(x) \in Int, ModRM(x) \in Int
    PROVE  /\ Head_(x) \in Seq(Int) /\ Len(Head_(x)) = 2
           /\ Head_(x)[1] = Opcode(x) /\ Head_(x)[2] = ModRM(x)
  BY DEF Head_, Optional
LEMMA HeadRexModRM ==
    ASSUME NEW x, "REX" \in x.req, "prefix" \notin x.req, "ModRM" \in x.req, "SIB" \notin x.req,
           Opcode(x) \in Int, Rex(x) \in Int, ModRM(x) \in Int
    PROVE  /\ Head_(x) \in Seq(Int) /\ Len(Head_(x)) = 3
           /\ Head_(x)[1] = Rex(x) /\ Head_(x)[2] = Opcode(x) /\ Head_(x)[3] = ModRM(x)
  BY DEF Head_, Optional
LEMMA HeadAll ==
    ASSUME NEW x, "REX" \in x.req, "prefix" \notin x.req, "ModRM" \in x.req, "SIB" \in x.req,
           Opcode(x) \in Int, Rex(x) \in Int, ModRM(x) \in Int, SIB(x) \in Int
    PROVE  /\ Head_(x) \in Seq(Int) /\ Len(Head_(x)) = 4
           /\ Head_(x)[1] = Rex(x) /\ Head_(x)[2] = Opcode(x) /\ Head_(x)[3] = ModRM(x)
           /\ Head_(x)[4] = SIB(x)
  BY DEF Head_, Optional

\* How many REX bytes are in front.
LEMMA DecodePlain ==
    ASSUME NEW h \in Seq(Int), Len(h) \in 1 .. 4, ~IsRex(h[1])
    PROVE  \E b \in Seq(Int) : /\ decode(h) = WithRex(b, 0) /\ Len(b) = Len(h)
                               /\ \A i \in 1 .. Len(h) : b[i] = h[i]
  <1> DEFINE ok(i) == /\ \A j \in 1 .. i : IsRex(h[j])
                      /\ i = Len(h) - 1 \/ ~IsRex(h[i + 1])
             n == CHOOSE i \in 0 .. Len(h) - 1 : ok(i)
             b == SubSeq(h, n + 1, Len(h))
  <1>1. 0 \in 0 .. Len(h) - 1 /\ ok(0)
    OBVIOUS
  <1>2. \A i \in 0 .. Len(h) - 1 : ok(i) => i = 0
    OBVIOUS
  <1>3. n = 0
    <2> HIDE DEF ok
    <2> QED
      BY <1>1, <1>2
  <1>4. decode(h) = WithRex(b, IF n = 0 THEN 0 ELSE h[n])
    BY DEF decode
  <1> HIDE DEF n
  <1>5. b \in Seq(Int) /\ Len(b) = Len(h) /\ \A i \in 1 .. Len(h) : b[i] = h[i]
    BY <1>3
  <1> QED
    BY <1>3, <1>4, <1>5
LEMMA DecodeRex ==
    ASSUME NEW h \in Seq(Int), Len(h) \in 2 .. 4, IsRex(h[1]), ~IsRex(h[2])
    PROVE  \E b \in Seq(Int) : /\ decode(h) = WithRex(b, h[1]) /\ Len(b) = Len(h) - 1
                               /\ \A i \in 1 .. Len(h) - 1 : b[i] = h[i + 1]
  <1> DEFINE ok(i) == /\ \A j \in 1 .. i : IsRex(h[j])
                      /\ i = Len(h) - 1 \/ ~IsRex(h[i + 1])
             n == CHOOSE i \in 0 .. Len(h) - 1 : ok(i)
             b == SubSeq(h, n + 1, Len(h))
  <1>1. 1 \in 0 .. Len(h) - 1 /\ ok(1)
    OBVIOUS
  <1>2. \A i \in 0 .. Len(h) - 1 : ok(i) => i = 1
    OBVIOUS
  <1>3. n = 1
    <2> HIDE DEF ok
    <2> QED
      BY <1>1, <1>2
  <1>4. decode(h) = WithRex(b, IF n = 0 THEN 0 ELSE h[n])
    BY DEF decode
  <1> HIDE DEF n
  <1>5. /\ b \in Seq(Int) /\ Len(b) = Len(h) - 1
        /\ \A i \in 1 .. Len(h) - 1 : b[i] = h[i + 1]
    BY <1>3
  <1> QED
    BY <1>3, <1>4, <1>5
LEMMA DecodeRex2 ==
    ASSUME NEW h \in Seq(Int), Len(h) = 2, IsRex(h[1]), ~IsRex(h[2])
    PROVE  \E b \in Seq(Int) : decode(h) = WithRex(b, h[1]) /\ Len(b) = 1 /\ b[1] = h[2]
  <1>1. Len(h) \in 2 .. 4
    OBVIOUS
  <1>2. PICK b \in Seq(Int) : /\ decode(h) = WithRex(b, h[1]) /\ Len(b) = Len(h) - 1
                             /\ \A i \in 1 .. Len(h) - 1 : b[i] = h[i + 1]
    BY <1>1, DecodeRex
  <1>3. Len(b) = 1 /\ 1 \in 1 .. Len(h) - 1
    BY <1>2
  <1> QED
    BY <1>2, <1>3
LEMMA DecodeRex3 ==
    ASSUME NEW h \in Seq(Int), Len(h) = 3, IsRex(h[1]), ~IsRex(h[2])
    PROVE  \E b \in Seq(Int) : /\ decode(h) = WithRex(b, h[1]) /\ Len(b) = 2
                               /\ b[1] = h[2] /\ b[2] = h[3]
  <1>1. Len(h) \in 2 .. 4
    OBVIOUS
  <1>2. PICK b \in Seq(Int) : /\ decode(h) = WithRex(b, h[1]) /\ Len(b) = Len(h) - 1
                             /\ \A i \in 1 .. Len(h) - 1 : b[i] = h[i + 1]
    BY <1>1, DecodeRex
  <1>3. Len(b) = 2 /\ 1 \in 1 .. Len(h) - 1 /\ 2 \in 1 .. Len(h) - 1
    BY <1>2
  <1> QED
    BY <1>2, <1>3
LEMMA DecodeRex4 ==
    ASSUME NEW h \in Seq(Int), Len(h) = 4, IsRex(h[1]), ~IsRex(h[2])
    PROVE  \E b \in Seq(Int) : /\ decode(h) = WithRex(b, h[1]) /\ Len(b) = 3
                               /\ b[1] = h[2] /\ b[2] = h[3] /\ b[3] = h[4]
  <1>1. Len(h) \in 2 .. 4
    OBVIOUS
  <1>2. PICK b \in Seq(Int) : /\ decode(h) = WithRex(b, h[1]) /\ Len(b) = Len(h) - 1
                             /\ \A i \in 1 .. Len(h) - 1 : b[i] = h[i + 1]
    BY <1>1, DecodeRex
  <1>3. Len(b) = 3 /\ 1 \in 1 .. Len(h) - 1 /\ 2 \in 1 .. Len(h) - 1 /\ 3 \in 1 .. Len(h) - 1
    BY <1>2
  <1> QED
    BY <1>2, <1>3
LEMMA DecodeTwice ==
    ASSUME NEW h \in Seq(Int), Len(h) = 3, IsRex(h[1]), IsRex(h[2]), ~IsRex(h[3])
    PROVE  \E b \in Seq(Int) : decode(h) = WithRex(b, h[2]) /\ Len(b) = 1 /\ b[1] = h[3]
  <1> DEFINE ok(i) == /\ \A j \in 1 .. i : IsRex(h[j])
                      /\ i = Len(h) - 1 \/ ~IsRex(h[i + 1])
             n == CHOOSE i \in 0 .. Len(h) - 1 : ok(i)
             b == SubSeq(h, n + 1, Len(h))
  <1>1. 2 \in 0 .. Len(h) - 1 /\ ok(2)
    OBVIOUS
  <1>2. \A i \in 0 .. Len(h) - 1 : ok(i) => i = 2
    OBVIOUS
  <1>3. n = 2
    <2> HIDE DEF ok
    <2> QED
      BY <1>1, <1>2
  <1>4. decode(h) = WithRex(b, IF n = 0 THEN 0 ELSE h[n])
    BY DEF decode
  <1> HIDE DEF n
  <1>5. /\ b \in Seq(Int) /\ Len(b) = Len(h) - 2
        /\ \A i \in 1 .. Len(h) - 2 : b[i] = h[i + 2]
    BY <1>3
  <1>6. n # 0 /\ h[n] = h[2]
    BY <1>3
  <1> HIDE DEF b
  <1>7. Len(b) = 1 /\ 1 \in 1 .. Len(h) - 2 /\ 1 + 2 = 3
    BY <1>5
  <1>8. b[1] = h[3]
    BY <1>5, <1>7
  <1>9. decode(h) = WithRex(b, h[2])
    BY <1>4, <1>6
  <1> QED
    BY <1>5, <1>7, <1>8, <1>9

\* What the processor makes of the bytes behind them.
LEMMA RexBits ==
    /\ Bit(0, 1) = 0 /\ Bit(65, 1) = 1 /\ Bit(65, 2) = 0 /\ Bit(65, 4) = 0 /\ Bit(65, 8) = 0
    /\ Bit(72, 1) = 0 /\ Bit(72, 2) = 0 /\ Bit(72, 4) = 0 /\ Bit(72, 8) = 1
    /\ Bit(73, 1) = 1 /\ Bit(73, 2) = 0 /\ Bit(73, 4) = 0 /\ Bit(73, 8) = 1
  BY DEF Bit

LEMMA ReadByOpcode ==
    ASSUME NEW b, NEW r \in {0, 65}, NEW c \in Int, b[1] = c
    PROVE  /\ c \in 80 .. 87 => WithRex(b, r) = Decoded("PUSH_reg", c - 80 + 8 * Bit(r, 1), NoReg, 0)
           /\ c \in 88 .. 95 => WithRex(b, r) = Decoded("POP_reg", c - 88 + 8 * Bit(r, 1), NoReg, 0)
           /\ c = 104 => WithRex(b, r) = Decoded("PUSH_imm", NoReg, NoReg, 4)
           /\ c = 195 => WithRex(b, r) = Decoded("RET", NoReg, NoReg, 0)
           /\ c = 0 => WithRex(b, r) = Garbage
  <1>1. ASSUME c \in 80 .. 87 PROVE WithRex(b, r) = Decoded("PUSH_reg", c - 80 + 8 * Bit(r, 1), NoReg, 0)
    BY <1>1, RexBits DEF WithRex
  <1>2. ASSUME c \in 88 .. 95 PROVE WithRex(b, r) = Decoded("POP_reg", c - 88 + 8 * Bit(r, 1), NoReg, 0)
    BY <1>2, RexBits DEF WithRex
  <1>3. ASSUME c = 104 PROVE WithRex(b, r) = Decoded("PUSH_imm", NoReg, NoReg, 4)
    BY <1>3, RexBits DEF WithRex
  <1>4. ASSUME c = 195 PROVE WithRex(b, r) = Decoded("RET", NoReg, NoReg, 0)
    BY <1>4, RexBits DEF WithRex
  <1>5. ASSUME c = 0 PROVE WithRex(b, r) = Garbage
    BY <1>5, RexBits DEF WithRex
  <1> QED
    BY <1>1, <1>2, <1>3, <1>4, <1>5

LEMMA ReadWide ==
    ASSUME NEW b, NEW c \in Int, b[1] = c
    PROVE  /\ c = 153 => WithRex(b, 72) = Decoded("CQO", NoReg, NoReg, 0)
           /\ c \in 184 .. 191 => WithRex(b, 72) = Decoded("MOV_reg_imm64", c - 184, NoReg, 8)
  <1>1. ASSUME c = 153 PROVE WithRex(b, 72) = Decoded("CQO", NoReg, NoReg, 0)
    BY <1>1, RexBits DEF WithRex
  <1>2. ASSUME c \in 184 .. 191 PROVE WithRex(b, 72) = Decoded("MOV_reg_imm64", c - 184, NoReg, 8)
    BY <1>2, RexBits DEF WithRex
  <1> QED
    BY <1>1, <1>2

LEMMA ReadCond ==
    ASSUME NEW b, NEW r, NEW c \in Int, c = 15, Len(b) = 2, b[1] = c,
           NEW j \in CondOps, b[2] = x64_OPCODES[j]
    PROVE  WithRex(b, r) = Decoded(j, NoReg, NoReg, 4)
  <1>1. \A i \in CondOps : x64_OPCODES[i] = b[2] => i = j
    BY DEF CondOps, x64_OPCODES
  <1>2. (CHOOSE i \in CondOps : x64_OPCODES[i] = b[2]) = j
    BY <1>1
  <1>3. b[2] \in {x64_OPCODES[i] : i \in CondOps}
    OBVIOUS
  <1> DEFINE o == CHOOSE i \in CondOps : x64_OPCODES[i] = b[2]
             codes == {x64_OPCODES[i] : i \in CondOps}
  <1>4. b[2] \in codes => WithRex(b, r) = Decoded(o, NoReg, NoReg, 4)
    <2> HIDE DEF o, codes
    <2> QED
      BY DEF WithRex, o, codes
  <1> QED
    BY <1>2, <1>3, <1>4

LEMMA ReadStacked ==
    ASSUME NEW b, NEW c \in Int, NEW m \in Int, NEW s \in Int, b[1] = c, b[2] = m, b[3] = s,
           Len(b) = 3, m = 4, s = 36
    PROVE  /\ c = 1 => WithRex(b, 72) = Decoded("ADD_mem_reg", 4, 0, 0)
           /\ c = 41 => WithRex(b, 72) = Decoded("SUB_mem_reg", 4, 0, 0)
  BY RexBits DEF WithRex, REGS

LEMMA ReadRegister ==
    ASSUME NEW b, NEW r \in {72, 73}, NEW c \in Int, NEW m \in Int, b[1] = c, b[2] = m, Len(b) = 2
    PROVE  /\ c = 247 /\ m \in {233, 236} =>
                WithRex(b, r) = Decoded("IMUL_reg", m - 232 + 8 * Bit(r, 1), NoReg, 0)
           /\ c = 247 /\ m \in {249, 252} =>
                WithRex(b, r) = Decoded("IDIV_reg", m - 248 + 8 * Bit(r, 1), NoReg, 0)
           /\ c = 199 /\ m = 192 => WithRex(b, r) = Decoded("MOV_reg_imm32", 8 * Bit(r, 1), NoReg, 4)
  <1>0. Bit(r, 1) \in {0, 1} /\ Bit(r, 8) = 1
    BY RexBits
  <1>1. ASSUME c = 247, m = 233 PROVE WithRex(b, r) = Decoded("IMUL_reg", 1 + 8 * Bit(r, 1), NoReg, 0)
    BY <1>0, <1>1 DEF WithRex
  <1>2. ASSUME c = 247, m = 236 PROVE WithRex(b, r) = Decoded("IMUL_reg", 4 + 8 * Bit(r, 1), NoReg, 0)
    BY <1>0, <1>2 DEF WithRex
  <1>3. ASSUME c = 247, m = 249 PROVE WithRex(b, r) = Decoded("IDIV_reg", 1 + 8 * Bit(r, 1), NoReg, 0)
    BY <1>0, <1>3 DEF WithRex
  <1>4. ASSUME c = 247, m = 252 PROVE WithRex(b, r) = Decoded("IDIV_reg", 4 + 8 * Bit(r, 1), NoReg, 0)
    BY <1>0, <1>4 DEF WithRex
  <1>5. ASSUME c = 199, m = 192 PROVE WithRex(b, r) = Decoded("MOV_reg_imm32", 8 * Bit(r, 1), NoReg, 4)
    BY <1>0, <1>5 DEF WithRex
  <1> QED
    BY <1>1, <1>2, <1>3, <1>4, <1>5

LEMMA ReadCmp ==
    ASSUME NEW b, NEW c \in Int, NEW m \in Int, b[1] = c, b[2] = m, Len(b) = 2
    PROVE  c = 57 /\ m = 200 => WithRex(b, 72) = Decoded("CMP_reg_reg", 0, 1, 0)
  BY RexBits DEF WithRex

LEMMA ReadTransfer ==
    ASSUME NEW b, NEW c \in Int, NEW m \in Int, b[1] = c, b[2] = m, Len(b) = 2
    PROVE  /\ c = 255 /\ m = 208 => WithRex(b, 0) = Decoded("CALL_reg", 0, NoReg, 0)
           /\ c = 255 /\ m = 224 => WithRex(b, 0) = Decoded("JMP_reg", 0, NoReg, 0)
  BY RexBits DEF WithRex

LEMMA ReadMemory ==
    ASSUME NEW b, NEW c \in Int, NEW m \in Int, b[1] = c, b[2] = m, Len(b) = 2
    PROVE  /\ c = 255 /\ m = 48 => WithRex(b, 65) = Decoded("PUSH_mem", 8, NoReg, 0)
           /\ c = 255 /\ m = 176 => WithRex(b, 65) = Decoded("PUSH_mem", 8, NoReg, 4)
           /\ c = 143 /\ m = 0 => WithRex(b, 65) = Decoded("POP_mem", 8, NoReg, 0)
           /\ c = 143 /\ m = 128 => WithRex(b, 65) = Decoded("POP_mem", 8, NoReg, 4)
  BY RexBits DEF WithRex

LEMMA ReadIndexed ==
    ASSUME NEW b, NEW c \in Int, NEW m \in Int, NEW s \in Int, b[1] = c, b[2] = m, b[3] = s, Len(b) = 3,
           NEW q \in 0 .. 3, s = 8 * q
    PROVE  /\ c = 255 /\ m = 52 => WithRex(b, 65) = Decoded("PUSH_mem", 8, q, 0)
           /\ c = 255 /\ m = 180 => WithRex(b, 65) = Decoded("PUSH_mem", 8, q, 4)
           /\ c = 143 /\ m = 4 => WithRex(b, 65) = Decoded("POP_mem", 8, q, 0)
           /\ c = 143 /\ m = 132 => WithRex(b, 65) = Decoded("POP_mem", 8, q, 4)
  <1>0. s % 8 = 0 /\ s < 64 /\ (s \div 8) % 8 = q /\ q # 4
    OBVIOUS
  <1>1. ASSUME c = 255, m = 52 PROVE WithRex(b, 65) = Decoded("PUSH_mem", 8, q, 0)
    BY <1>0, <1>1, RexBits DEF WithRex, REGS
  <1>2. ASSUME c = 255, m = 180 PROVE WithRex(b, 65) = Decoded("PUSH_mem", 8, q, 4)
    BY <1>0, <1>2, RexBits DEF WithRex, REGS
  <1>3. ASSUME c = 143, m = 4 PROVE WithRex(b, 65) = Decoded("POP_mem", 8, q, 0)
    BY <1>0, <1>3, RexBits DEF WithRex, REGS
  <1>4. ASSUME c = 143, m = 132 PROVE WithRex(b, 65) = Decoded("POP_mem", 8, q, 4)
    BY <1>0, <1>4, RexBits DEF WithRex, REGS
  <1> QED
    BY <1>1, <1>2, <1>3, <1>4

\* The instructions of the groups.
Shape(x) ==
    \/ x.op \in {"PUSH_reg", "POP_reg"} /\ x.req = {} /\ x.reg \in {"RAX", "RCX", "RDX", "RBX"}
    \/ x.op = "POP_reg" /\ x.req = {} /\ x.reg = "RDI"
    \/ x.op \in {"PUSH_reg", "POP_reg"} /\ x.req = {"REX"} /\ x.reg = "R8"
    \/ x.op = "POP_reg" /\ x.req = {"REX"} /\ x.reg = "R12"
    \/ x.op \in {"none", "RET"} /\ x.req = {} /\ x.reg = "none"
    \/ x.op = "PUSH_imm" /\ x.req = {"imm32"} /\ x.reg = "none"
    \/ x.op = "CQO" /\ x.req = {"REX"} /\ x.reg = "none"
    \/ x.op \in CondOps /\ x.req = {"prefix", "imm32"} /\ x.reg = "none"
    \/ x.op \in Stacked /\ x.req = {"REX", "ModRM", "SIB"} /\ x.reg = "RAX"
    \/ x.op \in {"IMUL_reg", "IDIV_reg"} /\ x.req = {"REX", "ModRM"} /\ x.reg \in {"RCX", "R12"}
    \/ x.op = "MOV_reg_imm64" /\ x.req = {"REX", "ModRM", "imm64"} /\ x.reg \in {"RAX", "RCX"}
    \/ x.op = "MOV_reg_imm32" /\ x.req = {"REX", "ModRM", "imm32"} /\ x.reg = "R8"
    \/ x.op \in {"CALL_reg", "JMP_reg"} /\ x.req = {"ModRM"} /\ x.reg = "RAX"
    \/ x.op = "CMP_reg_reg" /\ x.req = {"REX", "ModRM"} /\ x.reg = "RAX"
    \/ /\ x.op \in MemOps /\ {"REX", "ModRM"} \subseteq x.req
       /\ x.req \subseteq {"REX", "ModRM", "SIB", "imm32"}
       /\ IF "SIB" \in x.req THEN x.reg \in {"RAX", "RCX", "RDX", "RBX"} ELSE x.reg = "none"

LEMMA MeansShort ==
    ASSUME NEW x, x.req = {},
           \/ x.op \in {"PUSH_reg", "POP_reg"} /\ x.reg \in {"RAX", "RCX", "RDX", "RBX"}
           \/ x.op = "POP_reg" /\ x.reg = "RDI"
           \/ x.op \in {"none", "RET"} /\ x.reg = "none"
    PROVE  decode(Head_(x)) = IF x.op = "none" THEN Garbage ELSE Meant(x)
  <1> DEFINE c == Opcode(x)
             h == Head_(x)
             R == REGS[x.reg]
  <1>1. CASE x.op \in {"PUSH_reg", "POP_reg"}
    <2>1. R \in {0, 1, 2, 3, 7} /\ (x.op = "PUSH_reg" => R # 7) /\ x.reg \notin {"none", "R8"}
      BY <1>1 DEF REGS
    <2>2. /\ x.op = "PUSH_reg" => c = 80 + R
          /\ x.op = "POP_reg" => c = 88 + R
      BY <1>1, <2>1, JoinedOpcodes DEF Opcode, x64_OPCODES
    <2>3. c \in Int /\ ~IsRex(c) /\ c \in 80 .. 95
      BY <1>1, <2>1, <2>2 DEF IsRex
    <2>4. h \in Seq(Int) /\ Len(h) = 1 /\ h[1] = c
      BY <2>3, HeadOnly
    <2> HIDE DEF h, c, R
    <2>5. PICK b \in Seq(Int) : decode(h) = WithRex(b, 0) /\ Len(b) = 1 /\ b[1] = c
      BY <2>3, <2>4, DecodePlain
    <2>6. WithRex(b, 0) = Decoded(x.op, R, NoReg, 0)
      <3>1. CASE x.op = "PUSH_reg"
        <4>1. c \in 80 .. 87 /\ c - 80 + 8 * Bit(0, 1) = R
          BY <2>1, <2>2, <3>1, RexBits
        <4> QED
          BY <2>3, <2>5, <3>1, <4>1, ReadByOpcode
      <3>2. CASE x.op = "POP_reg"
        <4>1. c \in 88 .. 95 /\ c - 88 + 8 * Bit(0, 1) = R
          BY <2>1, <2>2, <3>2, RexBits
        <4> QED
          BY <2>3, <2>5, <3>2, <4>1, ReadByOpcode
      <3> QED
        BY <1>1, <3>1, <3>2
    <2>7. Meant(x) = Decoded(x.op, R, NoReg, 0)
      BY <1>1, <2>1 DEF Meant, To, From, ImmSize, Bytes, MemOps, Stacked, R
    <2> QED
      BY <1>1, <2>5, <2>6, <2>7 DEF h
  <1>2. CASE x.op \in {"none", "RET"} /\ x.reg = "none"
    <2>1. (x.op = "none" => c = 0) /\ (x.op = "RET" => c = 195)
      BY <1>2 DEF Opcode, x64_OPCODES
    <2>2. c \in Int /\ ~IsRex(c)
      BY <1>2, <2>1 DEF IsRex
    <2>4. h \in Seq(Int) /\ Len(h) = 1 /\ h[1] = c
      BY <2>2, HeadOnly
    <2> HIDE DEF h, c
    <2>5. PICK b \in Seq(Int) : decode(h) = WithRex(b, 0) /\ Len(b) = 1 /\ b[1] = c
      BY <2>2, <2>4, DecodePlain
    <2>6. WithRex(b, 0) = IF x.op = "none" THEN Garbage ELSE Decoded("RET", NoReg, NoReg, 0)
      BY <1>2, <2>1, <2>5, ReadByOpcode
    <2>7. x.op = "RET" => Meant(x) = Decoded("RET", NoReg, NoReg, 0)
      BY <1>2 DEF Meant, To, From, ImmSize, Bytes, MemOps, Stacked
    <2> QED
      BY <1>2, <2>5, <2>6, <2>7 DEF h
  <1> QED
    BY <1>1, <1>2

LEMMA MeansHighRegister ==
    ASSUME NEW x, x.req = {"REX"},
           \/ x.op \in {"PUSH_reg", "POP_reg"} /\ x.reg = "R8"
           \/ x.op = "POP_reg" /\ x.reg = "R12"
           \/ x.op = "CQO" /\ x.reg = "none"
    PROVE  decode(Head_(x)) = Meant(x)
  <1> DEFINE c == Opcode(x)
             r == Rex(x)
             h == Head_(x)
             R == REGS[x.reg]
  <1>1. /\ x.op = "PUSH_reg" => c = 80 /\ R = 8 /\ x.reg \notin {"none"}
        /\ x.op = "POP_reg" /\ x.reg = "R8" => c = 88 /\ R = 8
        /\ x.op = "POP_reg" /\ x.reg = "R12" => c = 92 /\ R = 12
        /\ x.op = "CQO" => c = 153
    BY JoinedOpcodes DEF Opcode, x64_OPCODES, REGS
  <1>2. (x.op # "CQO" => r = 65) /\ (x.op = "CQO" => r = 72)
    BY JoinedRex DEF Rex, MemOps, REX_BYTE_IF_NUM_REGS, REX_BYTE_IF_64_BIT
  <1>3. c \in Int /\ r \in Int /\ ~IsRex(c) /\ IsRex(r)
    BY <1>1, <1>2 DEF IsRex
  <1>4. h \in Seq(Int) /\ Len(h) = 2 /\ h[1] = r /\ h[2] = c
    BY <1>3, HeadRex
  <1> HIDE DEF h, c, r, R
  <1>6. PICK b \in Seq(Int) : decode(h) = WithRex(b, r) /\ Len(b) = 1 /\ b[1] = c
    BY <1>3, <1>4, DecodeRex2
  <1>7. CASE x.op = "CQO"
    <2>1. WithRex(b, r) = Decoded("CQO", NoReg, NoReg, 0)
      BY <1>1, <1>2, <1>3, <1>6, <1>7, ReadWide
    <2>2. Meant(x) = Decoded("CQO", NoReg, NoReg, 0)
      BY <1>7 DEF Meant, To, From, ImmSize, Bytes, MemOps, Stacked
    <2> QED
      BY <1>6, <2>1, <2>2 DEF h
  <1>8. CASE x.op # "CQO"
    <2>1. WithRex(b, r) = Decoded(x.op, R, NoReg, 0)
      <3>1. CASE x.op = "PUSH_reg"
        <4>1. c \in 80 .. 87 /\ c - 80 + 8 * Bit(65, 1) = R /\ r = 65
          BY <1>1, <1>2, <3>1, RexBits
        <4> QED
          BY <1>3, <1>6, <3>1, <4>1, ReadByOpcode
      <3>2. CASE x.op = "POP_reg"
        <4>1. c \in 88 .. 95 /\ c - 88 + 8 * Bit(65, 1) = R /\ r = 65
          BY <1>1, <1>2, <3>2, RexBits
        <4> QED
          BY <1>3, <1>6, <3>2, <4>1, ReadByOpcode
      <3> QED
        BY <1>8, <3>1, <3>2
    <2>2. Meant(x) = Decoded(x.op, R, NoReg, 0)
      BY <1>8 DEF Meant, To, From, ImmSize, Bytes, MemOps, Stacked, R
    <2> QED
      BY <1>6, <2>1, <2>2 DEF h
  <1> QED
    BY <1>7, <1>8

LEMMA MeansImmediate ==
    ASSUME NEW x, x.reg = "none",
           \/ x.op = "PUSH_imm" /\ x.req = {"imm32"}
           \/ x.op \in CondOps /\ x.req = {"prefix", "imm32"}
    PROVE  decode(Head_(x)) = Meant(x)
  <1> DEFINE c == Opcode(x)
             h == Head_(x)
  <1>1. Meant(x) = Decoded(x.op, NoReg, NoReg, 4)
    BY DEF Meant, To, From, ImmSize, Bytes, MemOps, Stacked, CondOps, SIZEOF_IMM32
  <1>2. CASE x.op = "PUSH_imm"
    <2>1. c = 104 /\ c \in Int /\ ~IsRex(c) /\ x.req = {"imm32"}
      BY <1>2 DEF Opcode, x64_OPCODES, IsRex, CondOps
    <2>2. h \in Seq(Int) /\ Len(h) = 1 /\ h[1] = c
      BY <2>1, HeadOnly
    <2> HIDE DEF h, c
    <2>3. PICK b \in Seq(Int) : decode(h) = WithRex(b, 0) /\ Len(b) = 1 /\ b[1] = c
      BY <2>1, <2>2, DecodePlain
    <2>4. WithRex(b, 0) = Decoded("PUSH_imm", NoReg, NoReg, 4)
      BY <2>1, <2>3, ReadByOpcode
    <2> QED
      BY <1>1, <1>2, <2>3, <2>4 DEF h
  <1>3. CASE x.op \in CondOps
    <2>1. c = x64_OPCODES[x.op] /\ c \in Int /\ x.req = {"prefix", "imm32"}
      BY <1>3 DEF Opcode, x64_OPCODES, CondOps
    <2>2. h \in Seq(Int) /\ Len(h) = 2 /\ h[1] = 15 /\ h[2] = c /\ ~IsRex(15)
      BY <2>1, HeadPrefix DEF IsRex
    <2> HIDE DEF h, c
    <2>3. PICK b \in Seq(Int) : decode(h) = WithRex(b, 0) /\ Len(b) = 2 /\ b[1] = 15 /\ b[2] = c
      BY <2>2, DecodePlain
    <2>4. WithRex(b, 0) = Decoded(x.op, NoReg, NoReg, 4)
      BY <1>3, <2>1, <2>3, ReadCond
    <2> QED
      BY <1>1, <2>3, <2>4 DEF h
  <1> QED
    BY <1>2, <1>3

LEMMA MeansRegister ==
    ASSUME NEW x,
           \/ /\ x.op \in {"IMUL_reg", "IDIV_reg"} /\ x.req = {"REX", "ModRM"} /\ x.reg \in {"RCX", "R12"}
           \/ x.op = "MOV_reg_imm32" /\ x.req = {"REX", "ModRM", "imm32"} /\ x.reg = "R8"
           \/ x.op = "CMP_reg_reg" /\ x.req = {"REX", "ModRM"} /\ x.reg = "RAX"
    PROVE  decode(Head_(x)) = Meant(x)
  <1> DEFINE c == Opcode(x)
             r == Rex(x)
             m == ModRM(x)
             h == Head_(x)
             B == 8 * Bit(r, 1)
  <1>1. /\ x.op \in {"IMUL_reg", "IDIV_reg"} => c = 247
        /\ x.op = "MOV_reg_imm32" => c = 199
        /\ x.op = "CMP_reg_reg" => c = 57
    BY DEF Opcode, x64_OPCODES
  <1>2. r = IF x.reg \in {"R8", "R12"} THEN 73 ELSE 72
    BY JoinedRex DEF Rex, MemOps, REX_BYTE_IF_NUM_REGS, REX_BYTE_IF_64_BIT
  <1>3. /\ x.op = "IMUL_reg" => m = IF x.reg = "RCX" THEN 233 ELSE 236
        /\ x.op = "IDIV_reg" => m = IF x.reg = "RCX" THEN 249 ELSE 252
        /\ x.op = "MOV_reg_imm32" => m = 192
        /\ x.op = "CMP_reg_reg" => m = 200
    BY JoinedModRM DEF ModRM, MemOps, ONLY_REG_MODRM_MODE_BIT, MODRM_MUL_REG_BITS, MODRM_DIV_REG_BITS, REGS
  <1>4. c \in Int /\ r \in {72, 73} /\ m \in Int /\ ~IsRex(c) /\ IsRex(r)
    BY <1>1, <1>2, <1>3 DEF IsRex
  <1>5. h \in Seq(Int) /\ Len(h) = 3 /\ h[1] = r /\ h[2] = c /\ h[3] = m
    BY <1>4, HeadRexModRM
  <1> HIDE DEF h, c, r, m
  <1>7. PICK b \in Seq(Int) : decode(h) = WithRex(b, r) /\ Len(b) = 2 /\ b[1] = c /\ b[2] = m
    BY <1>4, <1>5, DecodeRex3
  <1>8. CASE x.op = "CMP_reg_reg"
    <2>1. Meant(x) = Decoded("CMP_reg_reg", 0, 1, 0)
      <3>1. x.reg = "RAX" /\ x.req = {"REX", "ModRM"}
        BY <1>8
      <3>2. To(x) = 0 /\ From(x) = 1
        BY <1>8, <3>1 DEF To, From, MemOps, Stacked, REGS
      <3>3. ImmSize(x) = 0
        BY <3>1 DEF ImmSize, Bytes
      <3> QED
        BY <1>8, <3>2, <3>3 DEF Meant
    <2>2. c = 57 /\ m = 200 /\ r = 72
      <3>1. x.reg = "RAX"
        BY <1>8
      <3>2. c = 57 /\ m = 200
        BY <1>1, <1>3, <1>8
      <3> QED
        BY <1>2, <3>1, <3>2
    <2>3. WithRex(b, 72) = Decoded("CMP_reg_reg", 0, 1, 0)
      <3>1. c \in Int /\ m \in Int /\ b[1] = c /\ b[2] = m /\ Len(b) = 2
        BY <1>4, <1>7
      <3> QED
        BY <2>2, <3>1, ReadCmp
    <2> QED
      BY <1>7, <2>1, <2>2, <2>3 DEF h
  <1>9. CASE x.op = "MOV_reg_imm32"
    <2>1. Meant(x) = Decoded("MOV_reg_imm32", 8, NoReg, 4)
      <3>1. x.reg = "R8" /\ x.req = {"REX", "ModRM", "imm32"}
        BY <1>9
      <3>2. To(x) = 8 /\ From(x) = NoReg
        BY <1>9, <3>1 DEF To, From, MemOps, Stacked, REGS
      <3>3. ImmSize(x) = 4
        BY <3>1 DEF ImmSize, Bytes, SIZEOF_IMM32
      <3> QED
        BY <1>9, <3>2, <3>3 DEF Meant
    <2>2. r = 73 /\ B = 8 /\ c = 199 /\ m = 192
      <3>1. x.reg = "R8"
        BY <1>9
      <3>2. c = 199 /\ m = 192
        BY <1>1, <1>3, <1>9
      <3>3. r = 73
        BY <1>2, <3>1
      <3> QED
        BY <3>2, <3>3, RexBits
    <2>3. WithRex(b, r) = Decoded("MOV_reg_imm32", B, NoReg, 4)
      <3>1. /\ r \in {72, 73} /\ c \in Int /\ m \in Int
            /\ b[1] = c /\ b[2] = m /\ Len(b) = 2
        BY <1>4, <1>7
      <3> QED
        BY <2>2, <3>1, ReadRegister
    <2> QED
      BY <1>7, <2>1, <2>2, <2>3 DEF h
  <1>10. CASE x.op \in {"IMUL_reg", "IDIV_reg"}
    <2>1. Meant(x) = Decoded(x.op, REGS[x.reg], NoReg, 0) /\ x.reg \in {"RCX", "R12"}
      BY <1>10 DEF Meant, To, From, ImmSize, Bytes, MemOps, Stacked
    <2>2. CASE x.reg = "RCX"
      <3>1. r = 72 /\ B = 0 /\ REGS[x.reg] = 1 /\ c = 247
        BY <1>1, <1>2, <1>10, <2>2, RexBits DEF REGS
      <3>2. CASE x.op = "IMUL_reg"
        <4>1. m = 233 /\ m - 232 + B = REGS[x.reg]
          BY <1>3, <2>2, <3>1, <3>2
        <4> QED
          BY <1>4, <1>7, <2>1, <3>1, <3>2, <4>1, ReadRegister DEF h
      <3>3. CASE x.op = "IDIV_reg"
        <4>1. m = 249 /\ m - 248 + B = REGS[x.reg]
          BY <1>3, <2>2, <3>1, <3>3
        <4> QED
          BY <1>4, <1>7, <2>1, <3>1, <3>3, <4>1, ReadRegister DEF h
      <3> QED
        BY <1>10, <3>2, <3>3
    <2>3. CASE x.reg = "R12"
      <3>1. r = 73 /\ B = 8 /\ REGS[x.reg] = 12 /\ c = 247
        BY <1>1, <1>2, <1>10, <2>3, RexBits DEF REGS
      <3>2. CASE x.op = "IMUL_reg"
        <4>1. m = 236 /\ m - 232 + B = REGS[x.reg]
          BY <1>3, <2>3, <3>1, <3>2
        <4> QED
          BY <1>4, <1>7, <2>1, <3>1, <3>2, <4>1, ReadRegister DEF h
      <3>3. CASE x.op = "IDIV_reg"
        <4>1. m = 252 /\ m - 248 + B = REGS[x.reg]
          BY <1>3, <2>3, <3>1, <3>3
        <4> QED
          BY <1>4, <1>7, <2>1, <3>1, <3>3, <4>1, ReadRegister DEF h
      <3> QED
        BY <1>10, <3>2, <3>3
    <2> QED
      BY <2>1, <2>2, <2>3
  <1> QED
    BY <1>8, <1>9, <1>10

LEMMA MeansLiteral ==
    ASSUME NEW x, x.op = "MOV_reg_imm64", x.req = {"REX", "ModRM", "imm64"}, x.reg \in {"RAX", "RCX"}
    PROVE  decode(Head_(x)) = Meant(x)
  <1> DEFINE c == Opcode(x)
             r == Rex(x)
             m == ModRM(x)
             h == Head_(x)
  <1>1. c = 72 /\ r = 72
    BY JoinedRex DEF Opcode, x64_OPCODES, Rex, MemOps, REX_BYTE_IF_64_BIT
  <1>2. m = 184 + REGS[x.reg] /\ REGS[x.reg] \in {0, 1}
    BY JoinedModRM DEF ModRM, MemOps, IMM_MODRM_MODE_BIT, REGS
  <1>3. c \in Int /\ r \in Int /\ m \in Int /\ IsRex(r) /\ IsRex(c) /\ ~IsRex(m)
    BY <1>1, <1>2 DEF IsRex
  <1>4. h \in Seq(Int) /\ Len(h) = 3 /\ h[1] = r /\ h[2] = c /\ h[3] = m
    BY <1>3, HeadRexModRM
  <1>5. Meant(x) = Decoded("MOV_reg_imm64", REGS[x.reg], NoReg, 8)
    BY DEF Meant, To, From, ImmSize, Bytes, MemOps, Stacked, SIZEOF_IMM64
  <1> HIDE DEF h, c, r, m
  <1>6. PICK b \in Seq(Int) : decode(h) = WithRex(b, 72) /\ Len(b) = 1 /\ b[1] = m
    BY <1>1, <1>3, <1>4, DecodeTwice
  <1>7. m \in 184 .. 191 /\ m - 184 = REGS[x.reg]
    BY <1>2
  <1> QED
    BY <1>3, <1>5, <1>6, <1>7, ReadWide DEF h

LEMMA MeansTransfer ==
    ASSUME NEW x, x.op \in {"CALL_reg", "JMP_reg"}, x.req = {"ModRM"}, x.reg = "RAX"
    PROVE  decode(Head_(x)) = Meant(x)
  <1> DEFINE c == Opcode(x)
             m == ModRM(x)
             h == Head_(x)
  <1>1. c = 255 /\ (x.op = "CALL_reg" => m = 208) /\ (x.op = "JMP_reg" => m = 224)
    BY JoinedModRM DEF Opcode, x64_OPCODES, ModRM, MemOps, ONLY_REG_MODRM_MODE_BIT, REGS,
                       CALL_MOD_REG_BITS, JMP_MOD_REG_BITS
  <1>2. c \in Int /\ m \in Int /\ ~IsRex(c)
    BY <1>1 DEF IsRex
  <1>3. h \in Seq(Int) /\ Len(h) = 2 /\ h[1] = c /\ h[2] = m
    BY <1>2, HeadModRM
  <1>4. Meant(x) = Decoded(x.op, 0, NoReg, 0)
    BY DEF Meant, To, From, ImmSize, Bytes, MemOps, Stacked, REGS
  <1> HIDE DEF h, c, m
  <1>5. PICK b \in Seq(Int) : decode(h) = WithRex(b, 0) /\ Len(b) = 2 /\ b[1] = c /\ b[2] = m
    BY <1>2, <1>3, DecodePlain
  <1>6. WithRex(b, 0) = Decoded(x.op, 0, NoReg, 0)
    BY <1>1, <1>2, <1>5, ReadTransfer
  <1> QED
    BY <1>4, <1>5, <1>6 DEF h

LEMMA MeansStacked ==
    ASSUME NEW x, x.op \in Stacked, x.req = {"REX", "ModRM", "SIB"}, x.reg = "RAX"
    PROVE  decode(Head_(x)) = Meant(x)
  <1> DEFINE c == Opcode(x)
             r == Rex(x)
             m == ModRM(x)
             s == SIB(x)
             h == Head_(x)
  <1>1. (x.op = "ADD_mem_reg" => c = 1) /\ (x.op = "SUB_mem_reg" => c = 41) /\ r = 72 /\ m = 4 /\ s = 36
    BY JoinedRex, JoinedMemory DEF Opcode, x64_OPCODES, Rex, ModRM, SIB, MemOps, Stacked, REGS,
                                   REX_BYTE_IF_64_BIT, DOUBLE_REG_MODRM_MODE_BIT
  <1>2. c \in Int /\ r \in Int /\ m \in Int /\ s \in Int /\ IsRex(r) /\ ~IsRex(c)
    BY <1>1 DEF IsRex, Stacked
  <1>3. h \in Seq(Int) /\ Len(h) = 4 /\ h[1] = r /\ h[2] = c /\ h[3] = m /\ h[4] = s
    BY <1>2, HeadAll
  <1>4. Meant(x) = Decoded(x.op, 4, 0, 0)
    BY DEF Meant, To, From, ImmSize, Bytes, MemOps, Stacked, REGS
  <1> HIDE DEF h, c, r, m, s
  <1>5. PICK b \in Seq(Int) : decode(h) = WithRex(b, r) /\ Len(b) = 3 /\ b[1] = c /\ b[2] = m /\ b[3] = s
    BY <1>2, <1>3, DecodeRex4
  <1>6. WithRex(b, 72) = Decoded(x.op, 4, 0, 0)
    BY <1>1, <1>2, <1>5, ReadStacked DEF Stacked
  <1> QED
    BY <1>1, <1>4, <1>5, <1>6 DEF h

\* A word of memory: at r8, with a register as index, a displacement, or both.
LEMMA MeansMemory ==
    ASSUME NEW x, x.op \in MemOps, "REX" \in x.req, "ModRM" \in x.req, "prefix" \notin x.req,
           "imm64" \notin x.req,
           IF "SIB" \in x.req THEN x.reg \in {"RAX", "RCX", "RDX", "RBX"} ELSE x.reg = "none"
    PROVE  decode(Head_(x)) = Meant(x)
  <1> DEFINE c == Opcode(x)
             r == Rex(x)
             m == ModRM(x)
             s == SIB(x)
             h == Head_(x)
             q == REGS[x.reg]
             t == ImmSize(x)
  <1>1. (x.op = "PUSH_mem" => c = 255) /\ (x.op = "POP_mem" => c = 143) /\ x.op \in {"PUSH_mem", "POP_mem"}
    BY DEF Opcode, x64_OPCODES, MemOps
  <1>2. r = 65
    BY JoinedRex DEF Rex, MemOps, REX_BYTE_IF_NUM_REGS, REX_BYTE_IF_64_BIT, EXTENDED_REG_MASK, REGS
  <1>3. m = ModRMOfMemory(x)
    <2>1. x.op \in MemOps
      OBVIOUS
    <2> QED
      BY <1>1, <2>1, Zenon DEF ModRM
  <1>4. t = IF "imm32" \in x.req THEN 4 ELSE 0
    BY DEF ImmSize, Bytes, SIZEOF_IMM32
  <1>5. /\ x.op = "PUSH_mem" /\ "SIB" \notin x.req => m = IF t = 4 THEN 176 ELSE 48
        /\ x.op = "PUSH_mem" /\ "SIB" \in x.req => m = IF t = 4 THEN 180 ELSE 52
        /\ x.op = "POP_mem" /\ "SIB" \notin x.req => m = IF t = 4 THEN 128 ELSE 0
        /\ x.op = "POP_mem" /\ "SIB" \in x.req => m = IF t = 4 THEN 132 ELSE 4
    <2>1. CASE "SIB" \in x.req
      <3>1. CASE "imm32" \in x.req
        BY <1>1, <1>3, <1>4, <2>1, <3>1, JoinedMemory DEF ModRMOfMemory, IMM_MODRM_MODE_BIT,
           DOUBLE_REG_MODRM_MODE_BIT, PUSH_MOD_REG_BITS, POP_MOD_REG_BITS
      <3>2. CASE "imm32" \notin x.req
        BY <1>1, <1>3, <1>4, <2>1, <3>2, JoinedMemory DEF ModRMOfMemory, IMM_MODRM_MODE_BIT,
           DOUBLE_REG_MODRM_MODE_BIT, PUSH_MOD_REG_BITS, POP_MOD_REG_BITS
      <3> QED
        BY <3>1, <3>2
    <2>2. CASE "SIB" \notin x.req
      <3>1. CASE "imm32" \in x.req
        BY <1>1, <1>3, <1>4, <2>2, <3>1, JoinedMemory DEF ModRMOfMemory, IMM_MODRM_MODE_BIT,
           DOUBLE_REG_MODRM_MODE_BIT, PUSH_MOD_REG_BITS, POP_MOD_REG_BITS
      <3>2. CASE "imm32" \notin x.req
        BY <1>1, <1>3, <1>4, <2>2, <3>2, JoinedMemory DEF ModRMOfMemory, IMM_MODRM_MODE_BIT,
           DOUBLE_REG_MODRM_MODE_BIT, PUSH_MOD_REG_BITS, POP_MOD_REG_BITS
      <3> QED
        BY <3>1, <3>2
    <2> QED
      BY <2>1, <2>2
  <1>6. c \in Int /\ r \in Int /\ m \in Int /\ IsRex(r) /\ ~IsRex(c) /\ t \in {0, 4}
    BY <1>1, <1>2, <1>4, <1>5 DEF IsRex
  <1>7. CASE "SIB" \in x.req
    <2>1. q \in 0 .. 3 /\ s = 8 * q /\ s \in Int /\ x.reg # "none"
      BY <1>7, JoinedRex, JoinedMemory DEF SIB, REGS, LOWER_REG_BITS_MASK
    <2>2. h \in Seq(Int) /\ Len(h) = 4 /\ h[1] = r /\ h[2] = c /\ h[3] = m /\ h[4] = s
      BY <1>6, <1>7, <2>1, HeadAll
    <2>3. Meant(x) = Decoded(x.op, 8, q, t)
      BY <1>1, <2>1 DEF Meant, To, From, MemOps, Stacked, REGS
    <2> HIDE DEF h, c, r, m, s, q, t
    <2>4. PICK b \in Seq(Int) : decode(h) = WithRex(b, r) /\ Len(b) = 3 /\ b[1] = c /\ b[2] = m /\ b[3] = s
      BY <1>6, <2>2, DecodeRex4
    <2>5. WithRex(b, 65) = Decoded(x.op, 8, q, t)
      <3>1. x.op = "PUSH_mem" => c = 255 /\ m = IF t = 4 THEN 180 ELSE 52
        BY <1>1, <1>5, <1>7
      <3>2. x.op = "POP_mem" => c = 143 /\ m = IF t = 4 THEN 132 ELSE 4
        BY <1>1, <1>5, <1>7
      <3>3. /\ c = 255 /\ m = 52 => WithRex(b, 65) = Decoded("PUSH_mem", 8, q, 0)
            /\ c = 255 /\ m = 180 => WithRex(b, 65) = Decoded("PUSH_mem", 8, q, 4)
            /\ c = 143 /\ m = 4 => WithRex(b, 65) = Decoded("POP_mem", 8, q, 0)
            /\ c = 143 /\ m = 132 => WithRex(b, 65) = Decoded("POP_mem", 8, q, 4)
        <4>1. /\ c \in Int /\ m \in Int /\ s \in Int /\ q \in 0 .. 3 /\ s = 8 * q
              /\ b[1] = c /\ b[2] = m /\ b[3] = s /\ Len(b) = 3
          BY <1>6, <2>1, <2>4
        <4> QED
          BY <4>1, ReadIndexed
      <3>4. x.op \in {"PUSH_mem", "POP_mem"}
        BY <1>1
      <3>5. CASE t = 4
        BY <3>1, <3>2, <3>3, <3>4, <3>5
      <3>6. CASE t = 0
        BY <3>1, <3>2, <3>3, <3>4, <3>6
      <3> QED
        BY <1>6, <3>5, <3>6
    <2> QED
      BY <1>2, <2>3, <2>4, <2>5 DEF h
  <1>8. CASE "SIB" \notin x.req
    <2>1. h \in Seq(Int) /\ Len(h) = 3 /\ h[1] = r /\ h[2] = c /\ h[3] = m
      BY <1>6, <1>8, HeadRexModRM
    <2>2. Meant(x) = Decoded(x.op, 8, NoReg, t)
      BY <1>1, <1>8 DEF Meant, To, From, MemOps, Stacked, REGS
    <2> HIDE DEF h, c, r, m, s, q, t
    <2>3. PICK b \in Seq(Int) : decode(h) = WithRex(b, r) /\ Len(b) = 2 /\ b[1] = c /\ b[2] = m
      BY <1>6, <2>1, DecodeRex3
    <2>4. WithRex(b, 65) = Decoded(x.op, 8, NoReg, t)
      <3>1. CASE t = 4
        BY <1>1, <1>5, <1>6, <1>8, <2>3, <3>1, ReadMemory
      <3>2. CASE t = 0
        BY <1>1, <1>5, <1>6, <1>8, <2>3, <3>2, ReadMemory
      <3> QED
        BY <1>6, <3>1, <3>2
    <2> QED
      BY <1>2, <2>2, <2>3, <2>4 DEF h
  <1> QED
    BY <1>7, <1>8

\* The bytes of every instruction that a group may hold are read back as it.
LEMMA ShapeDecoded ==
    ASSUME NEW x, Shape(x)
    PROVE  decode(Head_(x)) = IF x.op = "none" THEN Garbage ELSE Meant(x)
  <1>1. CASE x.op \in {"PUSH_reg", "POP_reg"}
    <2>1. x.op \notin CondOps \cup MemOps \cup Stacked /\ x.op # "none"
      BY <1>1 DEF CondOps, MemOps, Stacked
    <2>2. CASE x.req = {}
      BY <1>1, <2>1, <2>2, MeansShort DEF Shape
    <2>3. CASE x.req # {}
      BY <1>1, <2>1, <2>3, MeansHighRegister DEF Shape
    <2> QED
      BY <2>2, <2>3
  <1>2. CASE x.op \in {"none", "RET"}
    BY <1>2, MeansShort DEF Shape, CondOps, MemOps, Stacked
  <1>3. CASE x.op = "CQO"
    BY <1>3, MeansHighRegister DEF Shape, CondOps, MemOps, Stacked
  <1>4. CASE x.op = "PUSH_imm" \/ x.op \in CondOps
    BY <1>4, MeansImmediate DEF Shape, CondOps, MemOps, Stacked
  <1>5. CASE x.op \in Stacked
    BY <1>5, MeansStacked DEF Shape, CondOps, MemOps, Stacked
  <1>6. CASE x.op \in {"IMUL_reg", "IDIV_reg", "MOV_reg_imm32", "CMP_reg_reg"}
    BY <1>6, MeansRegister DEF Shape, CondOps, MemOps, Stacked
  <1>7. CASE x.op = "MOV_reg_imm64"
    BY <1>7, MeansLiteral DEF Shape, CondOps, MemOps, Stacked
  <1>8. CASE x.op \in {"CALL_reg", "JMP_reg"}
    BY <1>8, MeansTransfer DEF Shape, CondOps, MemOps, Stacked
  <1>9. CASE x.op \in MemOps
    BY <1>9, MeansMemory DEF Shape, CondOps, MemOps, Stacked
  <1> QED
    BY <1>1, <1>2, <1>3, <1>4, <1>5, <1>6, <1>7, <1>8, <1>9 DEF Shape
-----------------------------------------------------------------------------
(* What the groups are made of.                                            *)

\* The instruction that takes the target of a transfer from a register; the
\* one that saves r8 before a call of the library, and the one that restores it.
Goes(x)  == x.op \in {"CALL_reg", "JMP_reg"}
Saves(x) == x.op = "PUSH_reg" /\ x.reg = "R8"
Backs(x) == x.op = "POP_reg" /\ x.reg = "R8"
\* The target is put into rax: the address of code, or of the library.
Aims(x, fix) == x.op = "MOV_reg_imm64" /\ x.reg = "RAX" /\ x.fix = fix
Ordinary(x)  == ~Goes(x) /\ ~Saves(x) /\ ~Backs(x)

\* An instruction of the group of i, and two that follow each other.
Member(i, x) ==
    /\ Shape(x) /\ x.op # "MOV_reg_imm32"
    /\ x.fix # "none" => IsTransfer(i) /\ i.type \notin LibFuncs
    /\ x.fix = "abs" => x.op = "MOV_reg_imm64"
    /\ x.op \in CondOps => x.fix = "rel"
    /\ Saves(x) \/ Backs(x) => i.type \in LibFuncs
Follow(i, x, y) ==
    /\ Saves(y) => Aims(x, "none") /\ x.imm = LibAddr[i.type]
    /\ Goes(y) => IF i.type \in LibFuncs THEN Saves(x) ELSE Aims(x, "abs")
    /\ Backs(y) <=> x.op = "CALL_reg"
    /\ x.op # "JMP_reg"

Built(i, g) ==
    /\ \A j \in 1 .. Len(g) : Member(i, g[j])
    /\ \A j \in 1 .. Len(g) - 1 : Follow(i, g[j], g[j + 1])
    /\ Len(g) > 0 => Ordinary(g[1])
    /\ Len(g) > 0 /\ Goes(g[Len(g)]) => i.type \notin LibFuncs
    /\ i.type \notin LibFuncs => \A j \in 1 .. Len(g) : Goes(g[j]) => j = Len(g)

\* Members that have no part in a transfer.
Inner(i, x) == Member(i, x) /\ Ordinary(x) /\ x.fix = "none"

LEMMA InnerBuilt ==
    ASSUME NEW i, NEW g \in Seq(X64Instr), \A j \in 1 .. Len(g) : Inner(i, g[j])
    PROVE  Built(i, g)
  <1>1. \A j \in 1 .. Len(g) - 1 : j \in 1 .. Len(g) /\ j + 1 \in 1 .. Len(g)
    OBVIOUS
  <1>2. \A j \in 1 .. Len(g) - 1 : Follow(i, g[j], g[j + 1])
    BY <1>1 DEF Inner, Ordinary, Follow, Goes
  <1>3. Len(g) > 0 => 1 \in 1 .. Len(g) /\ Len(g) \in 1 .. Len(g)
    OBVIOUS
  <1> QED
    BY <1>2, <1>3 DEF Inner, Ordinary, Built

LEMMA InnerX ==
    ASSUME NEW i, NEW op, NEW reg, NEW req, Shape(X(op, reg, req)), op \notin CondOps,
           op \notin {"CALL_reg", "JMP_reg", "MOV_reg_imm32", "MOV_reg_imm64"}, reg # "R8"
    PROVE  Inner(i, X(op, reg, req))
  BY DEF X, Ins, Inner, Member, Ordinary, Goes, Saves, Backs

LEMMA PushPopBuilt ==
    ASSUME NEW i \in Instr, i.type \in {"PUSH", "POP"} PROVE Built(i, emit_push_or_pop(i))
  <1> DEFINE g == emit_push_or_pop(i)
  <1>1. GoodGroup(g)
    BY PushPopGood
  <1>2. i.reg_num \in 0 .. 3 /\ RegName(i.reg_num) \in {"RAX", "RCX", "RDX", "RBX"}
    BY DEF Instr, RegName
  <1>3. ASSUME NEW x, g = << x >>, Inner(i, x) PROVE Built(i, g)
    <2> HIDE DEF g
    <2>1. Len(g) = 1 /\ g[1] = x /\ g \in Seq(X64Instr)
      BY <1>1, <1>3 DEF GoodGroup
    <2>2. \A j \in 1 .. Len(g) : Inner(i, g[j])
      BY <1>3, <2>1
    <2> QED
      BY <2>1, <2>2, InnerBuilt
  <1>4. CASE i.need_mem_arg
    <2> DEFINE op == IF i.type = "PUSH" THEN "PUSH_mem" ELSE "POP_mem"
               x  == MemOperand(op, i)
    <2>1. g = << x >>
      BY <1>4 DEF emit_push_or_pop
    <2>2. x.op = op /\ x.fix = "none"
      BY DEF MemOperand, Ins
    <2>3. /\ "REX" \in x.req /\ "ModRM" \in x.req
          /\ x.req \subseteq {"REX", "ModRM", "SIB", "imm32"}
          /\ IF "SIB" \in x.req THEN x.reg = RegName(i.reg_num) ELSE x.reg = "none"
      BY DEF MemOperand, Ins
    <2>4. Shape(x)
      BY <1>2, <2>2, <2>3 DEF Shape, MemOps
    <2>5. Inner(i, x)
      BY <2>2, <2>4 DEF Inner, Member, Ordinary, Goes, Saves, Backs, CondOps
    <2> QED
      BY <1>3, <2>1, <2>5
  <1>5. CASE ~i.need_mem_arg /\ i.need_reg_arg
    <2> DEFINE op  == IF i.type = "PUSH" THEN "PUSH_reg" ELSE "POP_reg"
               reg == RegName(i.reg_num)
    <2>1. g = << X(op, reg, {}) >>
      BY <1>5 DEF emit_push_or_pop
    <2>2. Shape(X(op, reg, {})) /\ reg # "R8"
      BY <1>2 DEF Shape, X, Ins
    <2>3. Inner(i, X(op, reg, {}))
      <3> HIDE DEF reg
      <3> QED
        BY <2>2, InnerX DEF CondOps
    <2> QED
      BY <1>3, <2>1, <2>3
  <1>6. CASE ~i.need_mem_arg /\ ~i.need_reg_arg /\ i.need_imm_arg
    <2> DEFINE x == Ins("PUSH_imm", "none", {"imm32"}, Imm32(i.imm_arg * FIXED_PRECISION_MULTIPLIER), "none")
    <2>1. g = IF i.type = "PUSH" THEN << x >> ELSE << >>
      BY <1>6 DEF emit_push_or_pop
    <2>2. Inner(i, x)
      BY DEF Ins, Inner, Member, Shape, Ordinary, Goes, Saves, Backs, CondOps
    <2>3. CASE i.type = "PUSH"
      BY <1>3, <2>1, <2>2, <2>3
    <2>4. CASE i.type # "PUSH"
      <3>1. g = << >>
        BY <2>1, <2>4
      <3>2. << >> \in Seq(X64Instr) /\ \A j \in 1 .. Len(<< >>) : Inner(i, << >>[j])
        OBVIOUS
      <3>3. Built(i, << >>)
        BY <3>2, InnerBuilt
      <3> QED
        BY <3>1, <3>3
    <2> QED
      BY <2>3, <2>4
  <1>7. CASE ~i.need_mem_arg /\ ~i.need_reg_arg /\ ~i.need_imm_arg
    <2>1. g = << X("none", "none", {}) >>
      BY <1>7 DEF emit_push_or_pop
    <2>2. Inner(i, X("none", "none", {}))
      BY InnerX DEF CondOps, Shape, X, Ins
    <2> QED
      BY <1>3, <2>1, <2>2
  <1> QED
    BY <1>4, <1>5, <1>6, <1>7

LEMMA ArithmeticBuilt ==
    ASSUME NEW i
    PROVE  Built(i, emit_add_or_sub(i)) /\ Built(i, emit_mull_or_div(i)) /\ Built(i, emit_ret)
  <1> DEFINE op == IF i.type = "ADD" THEN "ADD_mem_reg" ELSE "SUB_mem_reg"
             a  == X("POP_reg", "RAX", {})
             b  == X(op, "RAX", {"REX", "ModRM", "SIB"})
             pop2 == X("POP_reg", "R12", {"REX"})
             cqo  == X("CQO", "none", {"REX"})
             scale == MovImm64("RCX", FIXED_PRECISION_MULTIPLIER, "none")
             push == X("PUSH_reg", "RAX", {})
             m1 == X("IMUL_reg", "R12", {"REX", "ModRM"})
             m2 == X("IDIV_reg", "RCX", {"REX", "ModRM"})
             d1 == X("IMUL_reg", "RCX", {"REX", "ModRM"})
             d2 == X("IDIV_reg", "R12", {"REX", "ModRM"})
             ret == X("RET", "none", {})
  <1>1. Inner(i, a) /\ Inner(i, pop2) /\ Inner(i, cqo) /\ Inner(i, push) /\ Inner(i, ret)
    BY InnerX DEF CondOps, Shape, X, Ins
  <1>2. Inner(i, b)
    BY InnerX DEF CondOps, Shape, X, Ins, Stacked
  <1>3. Inner(i, m1) /\ Inner(i, m2) /\ Inner(i, d1) /\ Inner(i, d2)
    BY InnerX DEF CondOps, Shape, X, Ins
  <1>4. Inner(i, scale)
    BY DEF MovImm64, Ins, Inner, Member, Shape, Ordinary, Goes, Saves, Backs, CondOps
  <1>5. emit_add_or_sub(i) = << a, b >> /\ emit_ret = << ret >>
    BY DEF emit_add_or_sub, emit_ret
  <1>6. emit_mull_or_div(i) = IF i.type = "MUL" THEN << pop2, a, cqo, m1, scale, m2, push >>
                                                ELSE << pop2, a, cqo, scale, d1, d2, push >>
    BY DEF emit_mull_or_div
  <1>7. GoodGroup(emit_add_or_sub(i)) /\ GoodGroup(emit_mull_or_div(i)) /\ GoodGroup(emit_ret)
    BY AddSubGood, MulDivGood, XGood, SingletonGood DEF emit_ret, Ops, Regs
  <1> HIDE DEF a, b, pop2, cqo, scale, push, m1, m2, d1, d2, ret
  <1>8. ASSUME NEW g, GoodGroup(g), \A j \in 1 .. Len(g) : Inner(i, g[j]) PROVE Built(i, g)
    BY <1>8, InnerBuilt DEF GoodGroup
  <1>9. \A j \in 1 .. Len(<< a, b >>) : Inner(i, << a, b >>[j])
    BY <1>1, <1>2
  <1>10. \A j \in 1 .. Len(<< ret >>) : Inner(i, << ret >>[j])
    BY <1>1
  <1>11. \A j \in 1 .. Len(<< pop2, a, cqo, m1, scale, m2, push >>) :
            Inner(i, << pop2, a, cqo, m1, scale, m2, push >>[j])
    BY <1>1, <1>3, <1>4
  <1>12. \A j \in 1 .. Len(<< pop2, a, cqo, scale, d1, d2, push >>) :
            Inner(i, << pop2, a, cqo, scale, d1, d2, push >>[j])
    BY <1>1, <1>3, <1>4
  <1>13. Built(i, emit_mull_or_div(i))
    <2>1. CASE i.type = "MUL"
      BY <1>6, <1>7, <1>8, <1>11, <2>1
    <2>2. CASE i.type # "MUL"
      BY <1>6, <1>7, <1>8, <1>12, <2>2
    <2> QED
      BY <2>1, <2>2
  <1> QED
    BY <1>5, <1>7, <1>8, <1>9, <1>10, <1>13

LEMMA TransferBuilt ==
    ASSUME NEW i \in Instr
    PROVE  /\ i.type \in {"JMP", "CALL"} => Built(i, emit_jmp_or_call(i))
           /\ i.type \in Jumps => Built(i, emit_cond_jmp(i))
  <1>1. ASSUME i.type \in {"JMP", "CALL"} PROVE Built(i, emit_jmp_or_call(i))
    <2> DEFINE mov == MovImm64("RAX", 0, "abs")
               op  == IF i.type = "CALL" THEN "CALL_reg" ELSE "JMP_reg"
               go  == X(op, "RAX", {"ModRM"})
    <2>1. Member(i, mov) /\ Ordinary(mov) /\ Aims(mov, "abs") /\ ~Goes(mov)
      BY <1>1
      DEF MovImm64, Ins, Member, Shape, Ordinary, Goes, Saves, Backs, CondOps, Aims, IsTransfer, LibFuncs
    <2>2. Member(i, go) /\ Goes(go) /\ ~Saves(go) /\ ~Backs(go)
      BY <1>1 DEF X, Ins, Member, Shape, Goes, Saves, Backs, CondOps
    <2>3. i.type \notin LibFuncs
      BY <1>1 DEF LibFuncs
    <2>4. Follow(i, mov, go)
      BY <2>1, <2>2, <2>3 DEF Follow, Goes
    <2>5. emit_jmp_or_call(i) = << mov, go >>
      BY DEF emit_jmp_or_call
    <2> HIDE DEF mov, go
    <2> QED
      BY <2>1, <2>2, <2>3, <2>4, <2>5 DEF Built
  <1>2. ASSUME i.type \in Jumps PROVE Built(i, emit_cond_jmp(i))
    <2> DEFINE pop2 == X("POP_reg", "RCX", {})
               pop1 == X("POP_reg", "RAX", {})
               cmp  == X("CMP_reg_reg", "RAX", {"REX", "ModRM"})
               jcc  == Ins(translate_cond_jump_opcode(i), "none", {"prefix", "imm32"}, 0, "rel")
    <2>1. Inner(i, pop2) /\ Inner(i, pop1) /\ Inner(i, cmp)
      BY InnerX DEF CondOps, Shape, X, Ins
    <2>2. translate_cond_jump_opcode(i) \in CondOps
      BY <1>2 DEF translate_cond_jump_opcode, Jumps, CondOps
    <2>3. i.type \notin LibFuncs /\ IsTransfer(i)
      BY <1>2 DEF LibFuncs, Jumps, IsTransfer
    <2>4. jcc.op \in CondOps /\ jcc.fix = "rel" /\ jcc.req = {"prefix", "imm32"} /\ jcc.reg = "none"
      BY <2>2 DEF Ins
    <2> HIDE DEF jcc
    <2>5. Shape(jcc)
      BY <2>4 DEF Shape
    <2>6. Member(i, jcc) /\ Ordinary(jcc)
      BY <2>3, <2>4, <2>5 DEF Member, Ordinary, Goes, Saves, Backs, CondOps
    <2>7. emit_cond_jmp(i) = << pop2, pop1, cmp, jcc >>
      BY DEF emit_cond_jmp, jcc
    <2> HIDE DEF pop2, pop1, cmp
    <2>8. Follow(i, pop2, pop1) /\ Follow(i, pop1, cmp) /\ Follow(i, cmp, jcc)
      BY <2>1, <2>6 DEF Follow, Inner, Ordinary, Goes
    <2> QED
      BY <2>1, <2>3, <2>6, <2>7, <2>8 DEF Built, Inner, Ordinary
  <1> QED
    BY <1>1, <1>2

LEMMA LibFuncBuilt ==
    ASSUME NEW i \in Instr, i.type \in LibFuncs PROVE Built(i, emit_lib_func(i))
  <1> DEFINE arg  == X("POP_reg", "RDI", {})
             mov  == MovImm64("RAX", LibAddr[i.type], "none")
             save == X("PUSH_reg", "R8", {"REX"})
             call == X("CALL_reg", "RAX", {"ModRM"})
             back == X("POP_reg", "R8", {"REX"})
             ret  == X("PUSH_reg", "RAX", {})
  <1>1. Inner(i, arg) /\ Inner(i, ret)
    BY InnerX DEF CondOps, Shape, X, Ins
  <1>2. Inner(i, mov) /\ Aims(mov, "none") /\ mov.imm = LibAddr[i.type]
    BY DEF MovImm64, Ins, Inner, Member, Shape, Ordinary, Goes, Saves, Backs, CondOps, Aims
  <1>3. /\ Member(i, save) /\ Saves(save) /\ ~Goes(save) /\ ~Backs(save)
        /\ Member(i, call) /\ Goes(call) /\ ~Saves(call) /\ ~Backs(call) /\ call.op = "CALL_reg"
        /\ Member(i, back) /\ Backs(back) /\ ~Goes(back) /\ ~Saves(back)
    BY DEF X, Ins, Member, Shape, Goes, Saves, Backs, CondOps
  <1>4. /\ i.type = "INP"  => emit_lib_func(i) = << mov, save, call, back, ret >>
        /\ i.type = "OUT"  => emit_lib_func(i) = << arg, mov, save, call, back >>
        /\ i.type = "SQRT" => emit_lib_func(i) = << arg, mov, save, call, back, ret >>
        /\ i.type = "HALT" => emit_lib_func(i) = << mov, save, call, back >>
    BY DEF emit_lib_func
  <1> HIDE DEF arg, mov, save, call, back, ret
  <1>5. /\ Follow(i, arg, mov) /\ Follow(i, mov, save) /\ Follow(i, save, call)
        /\ Follow(i, call, back) /\ Follow(i, back, ret)
    BY <1>1, <1>2, <1>3 DEF Follow, Inner, Ordinary, Goes
  <1>6. /\ Built(i, << mov, save, call, back, ret >>)
        /\ Built(i, << arg, mov, save, call, back >>)
        /\ Built(i, << arg, mov, save, call, back, ret >>)
        /\ Built(i, << mov, save, call, back >>)
    BY <1>1, <1>2, <1>3, <1>5 DEF Built, Inner, Ordinary
  <1> QED
    BY <1>4, <1>6 DEF LibFuncs

LEMMA EncodingBuilt ==
    ASSUME NEW i \in Instr PROVE Built(i, encode_one_ir_instruction(i))
  <1>1. CASE i.type \in {"PUSH", "POP"}
    BY <1>1, PushPopBuilt DEF encode_one_ir_instruction, LibFuncs, Jumps, Unsupported
  <1>2. CASE i.type \in {"ADD", "SUB"}
    BY <1>2, ArithmeticBuilt DEF encode_one_ir_instruction, LibFuncs, Jumps, Unsupported
  <1>3. CASE i.type \in {"MUL", "DIV"}
    BY <1>3, ArithmeticBuilt DEF encode_one_ir_instruction, LibFuncs, Jumps, Unsupported
  <1>4. CASE i.type \in LibFuncs
    BY <1>4, LibFuncBuilt DEF encode_one_ir_instruction, LibFuncs, Jumps, Unsupported
  <1>5. CASE i.type \in {"JMP", "CALL"}
    BY <1>5, TransferBuilt DEF encode_one_ir_instruction, LibFuncs, Jumps, Unsupported
  <1>6. CASE i.type = "RET"
    BY <1>6, ArithmeticBuilt DEF encode_one_ir_instruction, LibFuncs, Jumps, Unsupported
  <1>7. CASE i.type \in Jumps
    BY <1>7, TransferBuilt DEF encode_one_ir_instruction, LibFuncs, Jumps, Unsupported
  <1>8. CASE i.type \in Unsupported
    <2>1. encode_one_ir_instruction(i) = << >>
      BY <1>8 DEF encode_one_ir_instruction, LibFuncs, Jumps, Unsupported
    <2>2. << >> \in Seq(X64Instr) /\ \A j \in 1 .. Len(<< >>) : Inner(i, << >>[j])
      OBVIOUS
    <2>3. Built(i, << >>)
      BY <2>2, InnerBuilt
    <2> QED
      BY <2>1, <2>3
  <1> QED
    BY <1>1, <1>2, <1>3, <1>4, <1>5, <1>6, <1>7, <1>8
    DEF Instr, InstrTypes, Encodable, Unsupported, Jumps, LibFuncs
-----------------------------------------------------------------------------
(* The text of a program that has been translated.                         *)

\* A binary as it is linked: the library in front of the code, the addresses
\* in 32 bits, and the jumps of the programs inside of them.
Linked ==
    /\ Outputs = {"BINARY"} /\ RAM_BASE_ADDR < IMM32_HALF
    /\ \A f \in LibFuncs : LibAddr[f] \in 1 .. CODE_BASE_ADDR - 1
    /\ \A p \in Programs : \A i \in 1 .. Len(p) : IsTransfer(p[i]) => Inside(p, p[i].imm_arg)

Settled == TypeInv /\ TextInv /\ JumpsLand /\ status = "OK"

Place(d) == base_addr + text[d].at
\* The last instruction of a group.
Closes(d) == text[d].k = Len(GroupOf(text[d].cur))

LEMMA LaidTypes ==
    ASSUME Settled, Linked
    PROVE  /\ base_addr = CODE_BASE_ADDR /\ base_addr \in Nat /\ base_addr > 0
           /\ ram_addr = RAM_BASE_ADDR /\ ram_addr \in Nat
           /\ exec_buf_size \in Nat /\ ir \in Seq(Instr) /\ ir \in Programs
           /\ Len(text) \in Nat /\ Len(text) >= 1 /\ CodeEnd = base_addr + End(text[Len(text)])
           /\ \A f \in LibFuncs : LibAddr[f] \in Nat /\ LibAddr[f] > 0 /\ LibAddr[f] < base_addr
  <1>1. output_type = "BINARY" /\ ir \in Programs /\ exec_buf_size \in Nat /\ text \in Seq(Entries)
    BY DEF Settled, TypeInv, TypeOK, Linked
  <1>2. text # << >> /\ exec_buf_size = End(text[Len(text)])
    BY DEF Settled, TextInv
  <1>3. Len(text) \in Nat /\ Len(text) >= 1
    BY <1>1, <1>2
  <1>4. \A f \in LibFuncs : LibAddr[f] \in Nat /\ LibAddr[f] > 0 /\ LibAddr[f] < CODE_BASE_ADDR
    BY AddressAssumption DEF Linked
  <1>5. "INP" \in LibFuncs
    BY DEF LibFuncs
  <1>6. CODE_BASE_ADDR > 0 /\ CODE_BASE_ADDR \in Nat /\ RAM_BASE_ADDR \in Nat
    BY <1>4, <1>5, AddressAssumption
  <1>7. base_addr = CODE_BASE_ADDR /\ ram_addr = RAM_BASE_ADDR
    BY <1>1 DEF base_addr, ram_addr
  <1> QED
    BY <1>1, <1>2, <1>3, <1>4, <1>6, <1>7, ProgramsAssumption DEF CodeEnd

\* Where an instruction lies, and what it is.
LEMMA LaidEntry ==
    ASSUME Settled, Linked, NEW d \in 1 .. Len(text)
    PROVE  /\ text[d].at \in Nat /\ WrittenBytes(text[d].x) \in Nat /\ WrittenBytes(text[d].x) >= 1
           /\ End(text[d]) \in Nat /\ text[d].at < End(text[d]) /\ End(text[d]) <= exec_buf_size
           /\ text[d].cur \in 0 .. Len(ir) /\ text[d].k \in 1 .. Len(GroupOf(text[d].cur))
           /\ Len(GroupOf(text[d].cur)) \in Nat /\ text[d].x.imm \in Int
           /\ Like(text[d].x, GroupOf(text[d].cur)[text[d].k])
  <1>1. text[d] \in Entries
    BY SeqElement DEF Settled, TypeInv, TypeOK
  <1>2. text[d].at \in Nat /\ WrittenBytes(text[d].x) \in Nat /\ End(text[d]) \in Nat
    BY TextEnds DEF Settled
  <1>3. WrittenBytes(text[d].x) >= 1
    BY DEF WrittenBytes, Bytes, SIZEOF_IMM32, SIZEOF_IMM64
  <1>4. /\ text[d].cur \in 0 .. Len(ir) /\ text[d].k \in 1 .. Len(GroupOf(text[d].cur))
        /\ Like(text[d].x, GroupOf(text[d].cur)[text[d].k]) /\ End(text[d]) <= exec_buf_size
    BY DEF Settled, TextInv
  <1>5. text[d].at < End(text[d])
    BY <1>2, <1>3 DEF End
  <1>6. text[d].x.imm \in Int
    BY <1>1 DEF Entries, X64Instr
  <1>7. Len(GroupOf(text[d].cur)) \in Nat
    BY <1>4, GroupOfGood DEF Settled, TypeInv, GoodGroup
  <1> QED
    BY <1>2, <1>3, <1>4, <1>5, <1>6, <1>7

LEMMA LaidApart ==
    ASSUME Settled, Linked
    PROVE  /\ \A d, e \in 1 .. Len(text) : Place(d) = Place(e) => d = e
           /\ \A d \in 1 .. Len(text) : /\ Place(d) >= base_addr /\ Place(d) < CodeEnd
                                        /\ Place(d) \in Nat
           /\ CodeEnd >= base_addr /\ CodeEnd \in Nat
  <1>1. base_addr \in Nat /\ exec_buf_size \in Nat /\ CodeEnd = base_addr + exec_buf_size
    BY LaidTypes DEF CodeEnd
  <1>2. ASSUME NEW d \in 1 .. Len(text), NEW e \in 1 .. Len(text), d < e PROVE Place(d) # Place(e)
    <2>1. text[d].at \in Nat /\ text[e].at \in Nat /\ text[d].at < End(text[d]) /\ End(text[d]) \in Nat
      BY LaidEntry
    <2>2. End(text[d]) <= text[e].at
      BY <1>2 DEF Settled, TextInv
    <2> QED
      BY <1>1, <2>1, <2>2 DEF Place
  <1>3. ASSUME NEW d \in 1 .. Len(text)
        PROVE  Place(d) >= base_addr /\ Place(d) < CodeEnd /\ Place(d) \in Nat
    <2>1. /\ text[d].at \in Nat /\ text[d].at < End(text[d]) /\ End(text[d]) \in Nat
          /\ End(text[d]) <= exec_buf_size
      BY LaidEntry
    <2> QED
      BY <1>1, <2>1 DEF Place
  <1>4. \A d, e \in 1 .. Len(text) : d < e \/ e < d \/ d = e
    BY LaidTypes
  <1> QED
    BY <1>1, <1>2, <1>3, <1>4

\* The first instruction sets r8; the others are members of their groups.
LEMMA LaidFirst ==
    ASSUME Settled, Linked, NEW d \in 1 .. Len(text), text[d].cur = 0
    PROVE  /\ text[d].x.op = "MOV_reg_imm32" /\ text[d].x.reg = "R8" /\ text[d].x.fix = "none"
           /\ text[d].x.imm = ram_addr /\ Shape(text[d].x) /\ Closes(d)
  <1>1. GroupOf(0) = emit_code_preparation(ram_addr)
    BY DEF GroupOf
  <1>2. Imm32(ram_addr) = ram_addr
    BY LaidTypes, Imm32Fits, Imm32Assumption DEF Linked
  <1> DEFINE y == Ins("MOV_reg_imm32", "R8", {"REX", "ModRM", "imm32"}, ram_addr, "none")
  <1>3. GroupOf(0) = << y >>
    BY <1>1, <1>2 DEF emit_code_preparation
  <1>4. text[d].k \in 1 .. Len(GroupOf(0)) /\ Like(text[d].x, GroupOf(0)[text[d].k])
    BY LaidEntry
  <1>5. text[d].k = 1 /\ Len(GroupOf(0)) = 1 /\ GroupOf(0)[1] = y
    <2> HIDE DEF y
    <2> QED
      BY <1>3, <1>4
  <1>6. text[d].x = y
    BY <1>4, <1>5 DEF Like, Ins
  <1>7. Shape(y)
    BY DEF Shape, Ins
  <1>8. y.op = "MOV_reg_imm32" /\ y.reg = "R8" /\ y.fix = "none" /\ y.imm = ram_addr
    BY DEF Ins
  <1> HIDE DEF y
  <1> QED
    BY <1>5, <1>6, <1>7, <1>8 DEF Closes

LEMMA LikeMember ==
    ASSUME NEW i, NEW x, NEW y, Like(x, y)
    PROVE  /\ Shape(y) => Shape(x)
           /\ Member(i, y) => Member(i, x)
           /\ Ordinary(y) => Ordinary(x) 
           /\ Goes(y) <=> Goes(x)
  <1>1. x.op = y.op /\ x.reg = y.reg /\ x.req = y.req /\ x.fix = y.fix
    BY DEF Like
  <1>2. Shape(y) => Shape(x)
    BY <1>1 DEF Shape
  <1>3. Member(i, y) => Member(i, x)
    BY <1>1, <1>2 DEF Member, Saves, Backs
  <1> QED
    BY <1>1, <1>2, <1>3 DEF Ordinary, Goes, Saves, Backs

LEMMA LikeFollow ==
    ASSUME NEW i, NEW x, NEW y, NEW v, NEW w, Like(x, v), Like(y, w), Follow(i, v, w)
    PROVE  Follow(i, x, y)
  <1>1. x.op = v.op /\ x.reg = v.reg /\ x.fix = v.fix /\ y.op = w.op /\ y.reg = w.reg
    BY DEF Like
  <1>2. v.fix = "none" => x.imm = v.imm
    BY DEF Like
  <1> QED
    BY <1>1, <1>2 DEF Follow, Goes, Saves, Backs, Aims

LEMMA LaidMember ==
    ASSUME Settled, Linked, NEW d \in 1 .. Len(text), text[d].cur # 0
    PROVE  /\ text[d].cur \in 1 .. Len(ir) /\ ir[text[d].cur] \in Instr
           /\ Member(ir[text[d].cur], text[d].x)
           /\ text[d].k = 1 => Ordinary(text[d].x)
           /\ Goes(text[d].x) =>
                 IF ir[text[d].cur].type \in LibFuncs THEN ~Closes(d) ELSE Closes(d)
  <1> DEFINE c == text[d].cur
             i == ir[c]
             g == GroupOf(c)
             j == text[d].k
  <1>1. c \in 1 .. Len(ir) /\ i \in Instr
    <2>1. c \in 0 .. Len(ir) /\ ir \in Seq(Instr)
      BY LaidEntry, LaidTypes
    <2>2. c \in 1 .. Len(ir)
      BY <2>1
    <2> QED
      BY <2>1, <2>2, SeqElement
  <1>2. Built(i, g)
    BY <1>1, EncodingBuilt DEF GroupOf
  <1>3. j \in 1 .. Len(g) /\ Len(g) \in Nat /\ Like(text[d].x, g[j])
    BY LaidEntry
  <1> HIDE DEF c, i, g, j
  <1>4. Member(i, g[j])
    BY <1>2, <1>3 DEF Built
  <1>5. Len(g) > 0
    BY <1>3
  <1>6. j = 1 => Ordinary(g[j])
    BY <1>2, <1>5 DEF Built
  <1>7. Goes(g[j]) => IF i.type \in LibFuncs THEN j # Len(g) ELSE j = Len(g)
    BY <1>2, <1>3, <1>5 DEF Built
  <1> QED
    BY <1>1, <1>3, <1>4, <1>6, <1>7, LikeMember DEF Closes, c, i, g, j

\* Two instructions that lie one behind the other: of one group, or the end of
\* one and the beginning of the next.
LEMMA LaidNext ==
    ASSUME Settled, Linked, NEW d \in 1 .. Len(text) - 1
    PROVE  /\ d + 1 \in 1 .. Len(text) /\ d \in 1 .. Len(text)
           /\ Place(d + 1) = base_addr + End(text[d])
           /\ \/ /\ ~Closes(d) /\ text[d].cur # 0 /\ text[d + 1].cur = text[d].cur
                 /\ Follow(ir[text[d].cur], text[d].x, text[d + 1].x)
              \/ Closes(d) /\ text[d + 1].cur > 0 /\ text[d + 1].k = 1
  <1>1. d + 1 \in 1 .. Len(text) /\ d \in 1 .. Len(text)
    BY LaidTypes
  <1>2. text[d + 1].at = End(text[d]) /\ Succeeds(text[d], text[d + 1].cur, text[d + 1].k)
    BY DEF Settled, TextInv
  <1> DEFINE c == text[d].cur
             g == GroupOf(c)
             j == text[d].k
  <1>3. c \in 0 .. Len(ir) /\ j \in 1 .. Len(g) /\ Len(g) \in Nat /\ Like(text[d].x, g[j]) /\ Len(ir) \in Nat
    BY <1>1, LaidEntry, LaidTypes
  <1>4. Like(text[d + 1].x, GroupOf(text[d + 1].cur)[text[d + 1].k])
    BY <1>1, LaidEntry
  <1>5. CASE j < Len(g)
    <2>1. text[d + 1].cur = c /\ text[d + 1].k = j + 1 /\ ~Closes(d)
      BY <1>2, <1>3, <1>5 DEF Succeeds, Closes
    <2>2. c # 0
      BY <1>1, <2>1, LaidFirst
    <2>3. Built(ir[c], g)
      BY <1>1, <2>2, LaidMember, EncodingBuilt DEF GroupOf
    <2>4. j \in 1 .. Len(g) - 1
      BY <1>3, <1>5
    <2>5. Follow(ir[c], g[j], g[j + 1])
      BY <2>3, <2>4 DEF Built
    <2>6. Follow(ir[c], text[d].x, text[d + 1].x)
      BY <1>3, <1>4, <2>1, <2>5, LikeFollow
    <2> QED
      BY <1>1, <1>2, <2>1, <2>2, <2>6 DEF Place
  <1>6. CASE ~(j < Len(g))
    <2>1. text[d + 1].cur = c + 1 /\ text[d + 1].k = 1
      BY <1>2, <1>6 DEF Succeeds
    <2>2. Closes(d)
      BY <1>3, <1>6 DEF Closes
    <2>3. c + 1 > 0
      BY <1>3
    <2> QED
      BY <1>1, <1>2, <2>1, <2>2, <2>3 DEF Place
  <1> QED
    BY <1>5, <1>6

\* Behind the end of a group there is another one, or the end of the code.
LEMMA LaidClose ==
    ASSUME Settled, Linked, NEW d \in 1 .. Len(text), Closes(d)
    PROVE  AtGroup(base_addr + End(text[d]))
  <1>1. CASE d = Len(text)
    BY <1>1, LaidTypes DEF AtGroup
  <1>2. CASE d # Len(text)
    <2>1. d \in 1 .. Len(text) - 1
      BY <1>2, LaidTypes
    <2>2. d + 1 \in 1 .. Len(text) /\ Place(d + 1) = base_addr + End(text[d])
      BY <2>1, LaidNext
    <2>3. text[d + 1].cur > 0 /\ text[d + 1].k = 1
      BY <2>1, LaidNext
    <2>4. DOMAIN text = 1 .. Len(text)
      BY DEF Settled, TypeInv, TypeOK
    <2>5. d + 1 \in GroupsAt(base_addr + End(text[d]))
      BY <2>2, <2>3, <2>4 DEF GroupsAt, Place
    <2> QED
      BY <2>5 DEF AtGroup
  <1> QED
    BY <1>1, <1>2

\* A jump or a call that has been written leads to the beginning of a group.
LEMMA LaidLanding ==
    ASSUME Settled, Linked, NEW d \in 1 .. Len(text), text[d].x.fix # "none"
    PROVE  AtGroup(Landing(text[d]))
  <1>1. text[d].cur # 0
    BY LaidFirst
  <1> DEFINE c == text[d].cur
             n == ir[c].imm_arg
  <1>2. c \in 1 .. Len(ir) /\ IsTransfer(ir[c])
    BY <1>1, LaidMember DEF Member
  <1>3. Inside(ir, n)
    BY <1>2, LaidTypes DEF Linked
  <1>4. n \in Int /\ n + 1 \in 1 .. Len(ir) /\ n + 1 > 0
    BY <1>3, LaidTypes DEF Inside
  <1>5. PICK e \in 1 .. Len(text) : text[e].cur = n + 1 /\ text[e].k = 1
    BY <1>4 DEF Settled, TextInv, Begun
  <1>6. DOMAIN text = 1 .. Len(text)
    BY DEF Settled, TypeInv, TypeOK
  <1>7. Landing(text[d]) = base_addr + text[e].at
    <2>1. text[e].cur - 1 = n /\ text[e].cur > 0 /\ text[e].k = 1
      <3> HIDE DEF n
      <3> QED
        BY <1>4, <1>5
    <2> QED
      BY <1>6, <2>1 DEF Settled, JumpsLand
  <1>8. e \in GroupsAt(Landing(text[d]))
    BY <1>4, <1>5, <1>6, <1>7 DEF GroupsAt
  <1> QED
    BY <1>8 DEF AtGroup
-----------------------------------------------------------------------------
(* The state of the processor.                                             *)

\* An address of code, wherever it is kept, is that of a group.
Safe(w) == w \in Words /\ (w.kind = "code" => AtGroup(w.v))
Kept(r, s, m) ==
    /\ r \in [REG_NUMBERS -> Words] /\ \A n \in REG_NUMBERS : Safe(r[n])
    /\ s \in Seq(Words) /\ \A n \in 1 .. Len(s) : Safe(s[n])
    /\ \A a \in DOMAIN m : a \in 0 .. RAMSIZE - QWORD /\ Safe(m[a])

\* What is expected in front of an instruction: the target in rax, if it goes
\* there or will soon; the address of ram in r8, unless r8 is to be restored,
\* and on the stack from when r8 is saved until then.
Aimed(d, r) ==
    LET i == ir[text[d].cur]
    IN  IF i.type \in LibFuncs THEN r[REGS.RAX] = Num(LibAddr[i.type]) ELSE r[REGS.RAX].kind = "code"
Ready(d, r, s) ==
    /\ Goes(text[d].x) \/ Saves(text[d].x) => Aimed(d, r)
    /\ Goes(text[d].x) /\ ir[text[d].cur].type \in LibFuncs => s # << >> /\ s[1] = Num(ram_addr)
    /\ IF Backs(text[d].x) THEN s # << >> /\ s[1] = Num(ram_addr)
       ELSE text[d].cur # 0 => r[REGS.R8] = Num(ram_addr)

\* The processor is in the code, or behind its end.
Arrived(p, r, s) ==
    /\ p = CodeEnd \/ \E d \in 1 .. Len(text) : p = Place(d)
    /\ \A d \in 1 .. Len(text) : p = Place(d) => Ready(d, r, s)
    /\ p = CodeEnd => r[REGS.R8] = Num(ram_addr)
\* It is in the library, and returns to where r8 is restored.
Called(s) ==
    \E d \in 1 .. Len(text) : /\ Backs(text[d].x) /\ Len(s) >= 2
                              /\ s[1] = Code(Place(d)) /\ s[2] = Num(ram_addr)

Fine(p, r, s, m) ==
    /\ s \in Seq(Words)
    /\ IF p \in Library THEN Called(s) /\ Kept(r, Tail(s), m)
                        ELSE Arrived(p, r, s) /\ Kept(r, s, m)

LEMMA SafeWords == /\ \A v \in Int : Safe(Num(v)) /\ Num(v) \in Words
                   /\ Safe(Undetermined) /\ Undetermined \in Words
                   /\ \A v \in Int : Code(v) \in Words
                   /\ \A v \in Int : AtGroup(v) => Safe(Code(v))
  BY DEF Safe, Words, Num, Undetermined, Code

LEMMA KeptReg ==
    ASSUME NEW r, NEW s, NEW m, Kept(r, s, m), NEW t \in REG_NUMBERS, NEW w, Safe(w)
    PROVE  Kept([r EXCEPT ![t] = w], s, m)
  <1> DEFINE q == [r EXCEPT ![t] = w]
  <1>1. w \in Words /\ r \in [REG_NUMBERS -> Words]
    BY DEF Safe, Kept
  <1>2. q \in [REG_NUMBERS -> Words] /\ \A n \in REG_NUMBERS : q[n] = IF n = t THEN w ELSE r[n]
    BY <1>1
  <1> HIDE DEF q
  <1>3. \A n \in REG_NUMBERS : Safe(q[n])
    BY <1>2 DEF Kept
  <1>4. Kept(q, s, m)
    BY <1>2, <1>3 DEF Kept
  <1> QED
    BY <1>4 DEF q

LEMMA KeptPush ==
    ASSUME NEW r, NEW s, NEW m, Kept(r, s, m), NEW w, Safe(w)
    PROVE  Kept(r, << w >> \o s, m) /\ << w >> \o s # << >> /\ (<< w >> \o s)[1] = w
  <1> DEFINE q == << w >> \o s
  <1>1. w \in Words /\ s \in Seq(Words)
    BY DEF Safe, Kept
  <1>2. /\ q \in Seq(Words) /\ Len(q) = Len(s) + 1 /\ q[1] = w /\ q # << >>
        /\ \A n \in 1 .. Len(q) : n # 1 => q[n] = s[n - 1]
    BY <1>1
  <1>3. Len(s) \in Nat
    BY <1>1
  <1> HIDE DEF q
  <1>4. ASSUME NEW n \in 1 .. Len(q) PROVE Safe(q[n])
    <2>1. CASE n = 1
      BY <1>2, <2>1
    <2>2. CASE n # 1
      <3>1. n - 1 \in 1 .. Len(s) /\ q[n] = s[n - 1]
        BY <1>2, <1>3, <2>2
      <3> QED
        BY <3>1 DEF Kept
    <2> QED
      BY <2>1, <2>2
  <1>5. Kept(r, q, m)
    BY <1>2, <1>4 DEF Kept
  <1> QED
    BY <1>2, <1>5 DEF q

\* A word on top that need not be safe: the address to return to.
LEMMA KeptUnder ==
    ASSUME NEW r, NEW s, NEW m, Kept(r, s, m), NEW w \in Words
    PROVE  /\ << w >> \o s \in Seq(Words) /\ Kept(r, Tail(<< w >> \o s), m)
           /\ Len(<< w >> \o s) = Len(s) + 1 /\ (<< w >> \o s)[1] = w
           /\ s # << >> => (<< w >> \o s)[2] = s[1]
  <1> DEFINE q == << w >> \o s
             t == Tail(q)
  <1>1. s \in Seq(Words) /\ Len(s) \in Nat
    BY DEF Kept
  <1>2. /\ q \in Seq(Words) /\ Len(q) = Len(s) + 1 /\ q[1] = w
        /\ \A n \in 1 .. Len(s) : q[n + 1] = s[n]
    BY <1>1
  <1>3. t \in Seq(Words) /\ Len(t) = Len(q) - 1 /\ \A n \in 1 .. Len(t) : t[n] = q[n + 1]
    <2> HIDE DEF q
    <2> QED
      BY <1>1, <1>2
  <1>4. s # << >> => 1 \in 1 .. Len(s) /\ 1 + 1 = 2
    BY <1>1
  <1> HIDE DEF q, t
  <1>5. \A n \in 1 .. Len(t) : n \in 1 .. Len(s) /\ t[n] = s[n]
    BY <1>1, <1>2, <1>3
  <1>6. Kept(r, t, m)
    BY <1>3, <1>5 DEF Kept
  <1>7. s # << >> => q[2] = s[1]
    BY <1>2, <1>4
  <1> QED
    BY <1>2, <1>6, <1>7 DEF q, t

LEMMA KeptPop ==
    ASSUME NEW r, NEW s, NEW m, Kept(r, s, m), s # << >>
    PROVE  Kept(r, Tail(s), m) /\ Safe(Head(s)) /\ Head(s) = s[1]
  <1> DEFINE q == Tail(s)
  <1>1. s \in Seq(Words) /\ Len(s) \in Nat /\ Len(s) >= 1
    BY DEF Kept
  <1>2. q \in Seq(Words) /\ Len(q) = Len(s) - 1 /\ \A n \in 1 .. Len(q) : q[n] = s[n + 1]
    BY <1>1
  <1>3. Head(s) = s[1] /\ 1 \in 1 .. Len(s)
    BY <1>1
  <1> HIDE DEF q
  <1>4. ASSUME NEW n \in 1 .. Len(q) PROVE Safe(q[n])
    <2>1. n + 1 \in 1 .. Len(s) /\ q[n] = s[n + 1]
      BY <1>1, <1>2
    <2> QED
      BY <2>1 DEF Kept
  <1>5. Kept(r, q, m)
    BY <1>2, <1>4 DEF Kept
  <1>6. Safe(Head(s))
    BY <1>3 DEF Kept
  <1> QED
    BY <1>3, <1>5, <1>6 DEF q

LEMMA KeptStore ==
    ASSUME NEW r, NEW s, NEW m, Kept(r, s, m), NEW a \in 0 .. RAMSIZE - QWORD, NEW w, Safe(w)
    PROVE  Kept(r, s, Store(m, a, w))
  BY DEF Kept, Store

LEMMA KeptLoad ==
    ASSUME NEW r, NEW s, NEW m, Kept(r, s, m), NEW a
    PROVE  Safe(Load(m, a))
  BY SafeWords DEF Kept, Load

\* Only the code that is meant is there.
LEMMA LibraryApart ==
    ASSUME Settled, Linked
    PROVE  /\ \A d \in 1 .. Len(text) : Place(d) \notin Library /\ Place(d) # 0 /\ Place(d) # CodeEnd
           /\ CodeEnd \notin Library /\ CodeEnd # 0 /\ 0 \notin Library
           /\ \A f \in LibFuncs : LibAddr[f] \in Library
  <1>1. ASSUME NEW p \in Library PROVE p \in Nat /\ p > 0 /\ p < base_addr
    BY <1>1, LaidTypes DEF Library
  <1>2. base_addr \in Nat /\ base_addr > 0
    BY LaidTypes
  <1>3. \A p \in Library : p # 0 /\ \A v \in Nat : v >= base_addr => p # v
    BY <1>1, <1>2
  <1>4. ASSUME NEW d \in 1 .. Len(text)
        PROVE  Place(d) \notin Library /\ Place(d) # 0 /\ Place(d) # CodeEnd
    <2>1. Place(d) \in Nat /\ Place(d) >= base_addr /\ Place(d) < CodeEnd /\ CodeEnd \in Nat
      BY LaidApart
    <2>2. Place(d) \notin Library
      BY <1>3, <2>1
    <2> QED
      BY <1>2, <2>1, <2>2
  <1>5. CodeEnd \in Nat /\ CodeEnd >= base_addr
    BY LaidApart
  <1>6. CodeEnd \notin Library
    BY <1>3, <1>5
  <1>7. \A f \in LibFuncs : LibAddr[f] \in Library
    BY DEF Library
  <1> QED
    BY <1>2, <1>3, <1>4, <1>5, <1>6, <1>7

LEMMA ArriveGroup ==
    ASSUME Settled, Linked, NEW p, AtGroup(p), NEW r, NEW s, r[REGS.R8] = Num(ram_addr)
    PROVE  Arrived(p, r, s) /\ p \notin Library /\ p # 0
  <1>1. DOMAIN text = 1 .. Len(text)
    BY DEF Settled, TypeInv, TypeOK
  <1>2. CASE p = CodeEnd
    BY <1>2, LibraryApart DEF Arrived
  <1>3. CASE p # CodeEnd
    <2>1. PICK e \in 1 .. Len(text) : p = Place(e) /\ text[e].k = 1 /\ text[e].cur > 0
      BY <1>1, <1>3 DEF AtGroup, GroupsAt, Place
    <2>2. text[e].cur # 0
      BY <2>1, LaidEntry
    <2>3. Ordinary(text[e].x)
      BY <2>1, <2>2, LaidMember
    <2>4. Ready(e, r, s)
      BY <2>3 DEF Ready, Ordinary
    <2>5. \A d \in 1 .. Len(text) : p = Place(d) => d = e
      BY <2>1, LaidApart
    <2>6. p \notin Library /\ p # 0 /\ p # CodeEnd
      BY <2>1, LibraryApart
    <2> QED
      BY <2>1, <2>4, <2>5, <2>6 DEF Arrived
  <1> QED
    BY <1>2, <1>3

\* On to the next instruction.
LEMMA ArriveNext ==
    ASSUME Settled, Linked, NEW d \in 1 .. Len(text), NEW r, NEW s,
           Closes(d) => r[REGS.R8] = Num(ram_addr),
           ~Closes(d) => Ready(d + 1, r, s)
    PROVE  LET p == base_addr + End(text[d]) IN Arrived(p, r, s) /\ p \notin Library /\ p # 0
  <1> DEFINE p == base_addr + End(text[d])
  <1>1. CASE Closes(d)
    BY <1>1, LaidClose, ArriveGroup
  <1>2. CASE ~Closes(d)
    <2>1. d # Len(text)
      BY <1>2 DEF Settled, TextInv, Closes
    <2>2. d \in 1 .. Len(text) - 1
      BY <2>1, LaidTypes
    <2>3. d + 1 \in 1 .. Len(text) /\ Place(d + 1) = p
      BY <2>2, LaidNext
    <2>4. \A e \in 1 .. Len(text) : p = Place(e) => e = d + 1
      BY <2>3, LaidApart
    <2>5. p \notin Library /\ p # 0 /\ p # CodeEnd
      BY <2>3, LibraryApart
    <2> QED
      BY <1>2, <2>3, <2>4, <2>5 DEF Arrived
  <1> QED
    BY <1>1, <1>2

\* ... after an instruction that does not go elsewhere: r8 points to ram, and
\* rax is what it has been made.
LEMMA Proceed ==
    ASSUME Settled, Linked, NEW d \in 1 .. Len(text), NEW r, NEW s, NEW t,
           ~Goes(text[d].x), t[REGS.R8] = Num(ram_addr),
           Aims(text[d].x, "none") => t[REGS.RAX] = Num(text[d].x.imm),
           Aims(text[d].x, "abs") => t[REGS.RAX].kind = "code",
           Saves(text[d].x) => /\ Aimed(d, r) /\ t[REGS.RAX] = r[REGS.RAX]
                               /\ s # << >> /\ s[1] = Num(ram_addr)
    PROVE  LET p == base_addr + End(text[d]) IN Arrived(p, t, s) /\ p \notin Library /\ p # 0
  <1>1. ASSUME ~Closes(d) PROVE Ready(d + 1, t, s)
    <2>1. d # Len(text)
      BY <1>1 DEF Settled, TextInv, Closes
    <2>2. d \in 1 .. Len(text) - 1
      BY <2>1, LaidTypes
    <2> DEFINE x == text[d].x
               y == text[d + 1].x
               i == ir[text[d].cur]
    <2>3. /\ text[d].cur # 0 /\ text[d + 1].cur = text[d].cur /\ Follow(i, x, y)
      BY <1>1, <2>2, LaidNext
    <2>4. ~Backs(y)
      BY <2>3 DEF Follow, Goes
    <2>5. ASSUME Saves(y) PROVE Aimed(d + 1, t)
      <3>1. i.type \in LibFuncs
        <4>1. d + 1 \in 1 .. Len(text)
          BY <2>2, LaidNext
        <4> QED
          BY <2>3, <2>5, <4>1, LaidMember DEF Member
      <3>2. t[REGS.RAX] = Num(LibAddr[i.type])
        BY <2>3, <2>5 DEF Follow
      <3> QED
        BY <2>3, <3>1, <3>2 DEF Aimed
    <2>6. ASSUME Goes(y)
          PROVE  Aimed(d + 1, t) /\ (i.type \in LibFuncs => s # << >> /\ s[1] = Num(ram_addr))
      <3>1. CASE i.type \in LibFuncs
        BY <2>3, <2>6, <3>1 DEF Follow, Aimed
      <3>2. CASE i.type \notin LibFuncs
        BY <2>3, <2>6, <3>2 DEF Follow, Aimed
      <3> QED
        BY <3>1, <3>2
    <2> QED
      BY <2>3, <2>4, <2>5, <2>6 DEF Ready
  <1> QED
    BY <1>1, ArriveNext

\* The instruction that is read is the one that has been written.
Means(d, i) ==
    LET x == text[d].x
    IN  /\ rip = Place(d) /\ Shape(x) /\ i.op = x.op /\ i.to = To(x) /\ i.from = From(x)
        /\ i.imm = x.imm /\ i.is_code = (x.fix = "abs") /\ i.next = base_addr + End(text[d])

LEMMA LaidShape == ASSUME Settled, Linked, NEW d \in 1 .. Len(text) PROVE Shape(text[d].x)
  BY LaidFirst, LaidMember DEF Member

LEMMA FetchedMeans ==
    ASSUME Settled, Linked, Fetched.op # "none"
    PROVE  \E d \in 1 .. Len(text) : Means(d, Fetched)
  <1> DEFINE here == {e \in DOMAIN text : base_addr + text[e].at = rip}
             d == CHOOSE e \in here : TRUE
             x == text[d].x
             c == decode(Head_(x))
             i == WhatIs(IF c.size = ImmSize(x) THEN c ELSE Garbage, text[d])
  <1>1. DOMAIN text = 1 .. Len(text)
    BY DEF Settled, TypeInv, TypeOK
  <1>2. here # {}
    BY DEF Fetched, WhatIs, Garbage, Decoded
  <1>3. d \in here
    BY <1>2
  <1>4. d \in 1 .. Len(text) /\ rip = Place(d)
    BY <1>1, <1>3 DEF Place
  <1>5. Fetched = i
    BY <1>2 DEF Fetched
  <1> HIDE DEF d
  <1>6. Shape(x) /\ text[d].at \in Nat /\ WrittenBytes(x) \in Nat /\ base_addr \in Nat
    BY <1>4, LaidShape, LaidEntry, LaidTypes
  <1>7. c = IF x.op = "none" THEN Garbage ELSE Meant(x)
    BY <1>6, ShapeDecoded
  <1> HIDE DEF c
  <1>8. i.next = base_addr + End(text[d])
    BY <1>4, <1>6 DEF WhatIs, End, Place
  <1>9. i.op # "none"
    BY <1>5
  <1>10. c = Meant(x) /\ c.size = ImmSize(x)
    BY <1>7, <1>9 DEF WhatIs, Garbage, Decoded
  <1>11. i.op = x.op /\ i.to = To(x) /\ i.from = From(x) /\ i.imm = x.imm /\ i.is_code = (x.fix = "abs")
    BY <1>10 DEF WhatIs, Meant, Decoded
  <1> QED
    BY <1>4, <1>5, <1>6, <1>8, <1>11 DEF Means
-----------------------------------------------------------------------------
(* The steps of the processor.                                             *)

\* The registers of an instruction.
LEMMA Registers ==
    ASSUME NEW x, Shape(x)
    PROVE  /\ x.op \in {"PUSH_reg", "POP_reg", "IMUL_reg", "IDIV_reg", "MOV_reg_imm64", "MOV_reg_imm32"}
                 => To(x) = REGS[x.reg] /\ To(x) \in REG_NUMBERS
           /\ x.op \in {"POP_reg", "MOV_reg_imm64"} /\ ~Backs(x) => To(x) # REGS.R8
           /\ x.op = "MOV_reg_imm32" \/ Backs(x) => To(x) = REGS.R8
           /\ Goes(x) => To(x) = REGS.RAX
           /\ x.op = "CMP_reg_reg" => To(x) = REGS.RAX /\ From(x) = REGS.RCX
           /\ x.op \in Stacked => From(x) = REGS.RAX
           /\ x.op \in MemOps => To(x) = REGS.R8
           /\ Aims(x, "none") \/ Aims(x, "abs") => To(x) = REGS.RAX
  <1>1. x.op \in {"PUSH_reg", "POP_reg"} =>
           /\ To(x) = REGS[x.reg] /\ x.reg \in {"RAX", "RCX", "RDX", "RBX", "RDI", "R8", "R12"}
    BY DEF Shape, CondOps, Stacked, MemOps, To
  <1>2. x.op \in {"IMUL_reg", "IDIV_reg", "MOV_reg_imm64", "MOV_reg_imm32"} =>
           /\ To(x) = REGS[x.reg]
           /\ x.op \in {"IMUL_reg", "IDIV_reg"} => x.reg \in {"RCX", "R12"}
           /\ x.op = "MOV_reg_imm64" => x.reg \in {"RAX", "RCX"}
           /\ x.op = "MOV_reg_imm32" => x.reg = "R8"
    BY DEF Shape, CondOps, Stacked, MemOps, To
  <1>3. Goes(x) \/ x.op = "CMP_reg_reg" \/ x.op \in Stacked => x.reg = "RAX" /\ x.op \notin MemOps
    BY DEF Goes, Shape, CondOps, Stacked, MemOps
  <1>4. Goes(x) => To(x) = REGS.RAX
    BY <1>3 DEF Goes, Stacked, To
  <1>5. x.op = "CMP_reg_reg" => To(x) = REGS.RAX /\ From(x) = REGS.RCX
    BY <1>3 DEF Stacked, To, From
  <1>6. x.op \in Stacked => From(x) = REGS.RAX
    BY <1>3 DEF Stacked, From
  <1>7. x.op \in MemOps => To(x) = REGS.R8
    BY DEF To
  <1>8. Aims(x, "none") \/ Aims(x, "abs") => To(x) = REGS.RAX
    BY <1>2 DEF Aims, REGS
  <1>9. \A reg \in {"RAX", "RCX", "RDX", "RBX", "RDI", "R8", "R12"} :
           REGS[reg] \in REG_NUMBERS /\ (reg # "R8" => REGS[reg] # REGS.R8)
    BY DEF REGS, REG_NUMBERS
  <1>10. Backs(x) => x.op = "POP_reg" /\ x.reg = "R8"
    BY DEF Backs
  <1>11. x.op = "POP_reg" /\ ~Backs(x) => x.reg # "R8"
    BY DEF Backs
  <1>12. REGS["R8"] = REGS.R8
    OBVIOUS
  <1> QED
    BY <1>1, <1>2, <1>4, <1>5, <1>6, <1>7, <1>8, <1>9, <1>10, <1>11, <1>12

\* Where a step begins.
LEMMA StepFacts ==
    ASSUME Settled, Linked, rip \notin Library, Fine(rip, regs, stack, ram), Fetched.op # "none"
    PROVE  /\ Kept(regs, stack, ram)
           /\ \E d \in 1 .. Len(text) :
                 /\ Means(d, Fetched) /\ Ready(d, regs, stack) /\ text[d].x.imm \in Int
                 /\ Fetched.op # "MOV_reg_imm32" => text[d].cur # 0
  <1>1. Kept(regs, stack, ram) /\ Arrived(rip, regs, stack)
    BY DEF Fine
  <1>2. PICK d \in 1 .. Len(text) : Means(d, Fetched)
    BY FetchedMeans
  <1>3. rip = Place(d) /\ Fetched.op = text[d].x.op
    BY <1>2 DEF Means
  <1>4. Ready(d, regs, stack)
    BY <1>1, <1>3 DEF Arrived
  <1>5. text[d].x.imm \in Int
    BY LaidEntry
  <1>6. Fetched.op # "MOV_reg_imm32" => text[d].cur # 0
    BY <1>3, LaidFirst
  <1> QED
    BY <1>1, <1>2, <1>4, <1>5, <1>6

\* On to the next instruction, for all that do not touch r8 and rax in earnest.
LEMMA StepOn ==
    ASSUME Settled, Linked, NEW i, NEW d \in 1 .. Len(text), Means(d, i), text[d].cur # 0,
           Ready(d, regs, stack), i.op \notin {"CALL_reg", "JMP_reg", "MOV_reg_imm64"}, ~Backs(text[d].x),
           NEW r, NEW s, NEW m, Kept(r, s, m), r[REGS.R8] = regs[REGS.R8],
           i.op = "PUSH_reg" => r = regs /\ s # << >> /\ s[1] = regs[i.to]
    PROVE  Fine(i.next, r, s, m)
  <1> DEFINE x == text[d].x
             p == base_addr + End(text[d])
  <1>1. i.op = x.op /\ i.next = p
    BY DEF Means
  <1>2. ~Goes(x) /\ ~Aims(x, "none") /\ ~Aims(x, "abs")
    BY <1>1 DEF Goes, Aims
  <1>3. r[REGS.R8] = Num(ram_addr)
    BY DEF Ready
  <1>4. Saves(x) => /\ Aimed(d, regs) /\ r[REGS.RAX] = regs[REGS.RAX]
                    /\ s # << >> /\ s[1] = Num(ram_addr)
    <2>1. Saves(x) => i.to = REGS.R8 /\ i.op = "PUSH_reg"
      BY <1>1, Registers DEF Means, Saves
    <2> QED
      BY <1>3, <2>1 DEF Ready
  <1>5. Arrived(p, r, s) /\ p \notin Library
    BY <1>2, <1>3, <1>4, Proceed
  <1> QED
    BY <1>1, <1>5 DEF Fine, Kept

LEMMA PushFine ==
    ASSUME Settled, Linked, rip \notin Library, Fine(rip, regs, stack, ram), Push(Fetched)
    PROVE  Fine(rip', regs', stack', ram')
  <1> DEFINE i == Fetched
             w == CASE i.op = "PUSH_imm" -> Num(i.imm) [] i.op = "PUSH_reg" -> regs[i.to]
                    [] i.op = "PUSH_mem" -> Load(ram, Offset(i))
  <1>1. /\ i.op \in {"PUSH_imm", "PUSH_reg", "PUSH_mem"} /\ rip' = i.next /\ regs' = regs /\ ram' = ram
        /\ stack' = << w >> \o stack
    BY DEF Push, Step
  <1> HIDE DEF w
  <1>2. /\ Kept(regs, stack, ram) /\ i.op # "none" /\ i.op # "MOV_reg_imm32"
    BY <1>1, StepFacts
  <1>3. PICK d \in 1 .. Len(text) : /\ Means(d, i) /\ Ready(d, regs, stack) /\ text[d].x.imm \in Int
                                    /\ text[d].cur # 0
    BY <1>2, StepFacts
  <1>4. /\ i.op = text[d].x.op /\ i.to = To(text[d].x) /\ i.imm \in Int /\ Shape(text[d].x)
    BY <1>3 DEF Means
  <1>5. Safe(w)
    <2>1. CASE i.op = "PUSH_imm"
      BY <1>4, <2>1, SafeWords DEF w
    <2>2. CASE i.op = "PUSH_reg"
      <3>1. w = regs[i.to] /\ i.to \in REG_NUMBERS
        BY <1>4, <2>2, Registers DEF w
      <3> QED
        BY <1>2, <3>1 DEF Kept
    <2>3. CASE i.op = "PUSH_mem"
      <3>1. w = Load(ram, Offset(i))
        BY <2>3 DEF w
      <3> QED
        BY <1>2, <3>1, KeptLoad
    <2> QED
      BY <1>1, <2>1, <2>2, <2>3
  <1>6. /\ Kept(regs, << w >> \o stack, ram)
        /\ i.op = "PUSH_reg" => << w >> \o stack # << >> /\ (<< w >> \o stack)[1] = regs[i.to]
    <2>1. i.op = "PUSH_reg" => w = regs[i.to]
      BY DEF w
    <2> QED
      BY <1>2, <1>5, <2>1, KeptPush
  <1>7. ~Backs(text[d].x) /\ i.op \notin {"CALL_reg", "JMP_reg", "MOV_reg_imm64"}
    BY <1>1, <1>4 DEF Backs
  <1>8. Fine(i.next, regs, << w >> \o stack, ram)
    BY <1>3, <1>6, <1>7, StepOn
  <1> QED
    BY <1>1, <1>8

LEMMA PopRegFine ==
    ASSUME Settled, Linked, rip \notin Library, Fine(rip, regs, stack, ram), PopReg(Fetched)
    PROVE  Fine(rip', regs', stack', ram')
  <1> DEFINE i == Fetched
             r == [regs EXCEPT ![i.to] = Head(stack)]
  <1>1. /\ i.op = "POP_reg" /\ rip' = i.next /\ regs' = r /\ ram' = ram
        /\ stack' = Tail(stack) /\ stack # << >>
    BY DEF PopReg, Step, Faulty, Reads
  <1>2. /\ Kept(regs, stack, ram) /\ i.op # "none" /\ i.op # "MOV_reg_imm32"
    BY <1>1, StepFacts
  <1>3. PICK d \in 1 .. Len(text) : /\ Means(d, i) /\ Ready(d, regs, stack) /\ text[d].x.imm \in Int
                                    /\ text[d].cur # 0
    BY <1>2, StepFacts
  <1>4. i.op = text[d].x.op /\ i.to = To(text[d].x) /\ Shape(text[d].x) /\ i.next = base_addr + End(text[d])
    BY <1>3 DEF Means
  <1>5. i.to \in REG_NUMBERS /\ (~Backs(text[d].x) => i.to # REGS.R8) /\ (Backs(text[d].x) => i.to = REGS.R8)
    BY <1>1, <1>4, Registers
  <1>6. Kept(regs, Tail(stack), ram) /\ Safe(Head(stack)) /\ Head(stack) = stack[1]
    BY <1>1, <1>2, KeptPop
  <1>7. Kept(r, Tail(stack), ram)
    BY <1>5, <1>6, KeptReg
  <1>8. regs \in [REG_NUMBERS -> Words] /\ REGS.R8 \in REG_NUMBERS
    BY <1>2 DEF Kept, REGS, REG_NUMBERS
  <1>9. CASE ~Backs(text[d].x)
    <2>1. r[REGS.R8] = regs[REGS.R8]
      BY <1>5, <1>8, <1>9
    <2> HIDE DEF r
    <2>2. i.op \notin {"CALL_reg", "JMP_reg", "MOV_reg_imm64", "PUSH_reg"}
      BY <1>1
    <2>3. Fine(i.next, r, Tail(stack), ram)
      BY <1>3, <1>7, <1>9, <2>1, <2>2, StepOn
    <2> QED
      BY <1>1, <2>3
  <1>10. CASE Backs(text[d].x)
    <2>1. r[REGS.R8] = Num(ram_addr)
      BY <1>3, <1>5, <1>6, <1>8, <1>10 DEF Ready
    <2>2. ~Goes(text[d].x) /\ ~Aims(text[d].x, "none") /\ ~Aims(text[d].x, "abs") /\ ~Saves(text[d].x)
      BY <1>1, <1>4 DEF Goes, Aims, Saves
    <2> HIDE DEF r
    <2>3. Arrived(i.next, r, Tail(stack)) /\ i.next \notin Library
      BY <1>4, <2>1, <2>2, Proceed
    <2> QED
      BY <1>1, <1>7, <2>3 DEF Fine, Kept
  <1> QED
    BY <1>9, <1>10

LEMMA PopMemFine ==
    ASSUME Settled, Linked, rip \notin Library, Fine(rip, regs, stack, ram), PopMem(Fetched)
    PROVE  Fine(rip', regs', stack', ram')
  <1> DEFINE i == Fetched
             m == Store(ram, Offset(i), Head(stack))
  <1>1. /\ i.op = "POP_mem" /\ rip' = i.next /\ regs' = regs /\ ram' = m
        /\ stack' = Tail(stack) /\ stack # << >> /\ Offset(i) \in 0 .. RAMSIZE - QWORD
    BY DEF PopMem, Step, Faulty, Reads, MemOps, InRam
  <1>2. /\ Kept(regs, stack, ram) /\ i.op # "none" /\ i.op # "MOV_reg_imm32"
    BY <1>1, StepFacts
  <1>3. PICK d \in 1 .. Len(text) : Means(d, i) /\ Ready(d, regs, stack) /\ text[d].cur # 0
    BY <1>2, StepFacts
  <1>4. i.op = text[d].x.op
    BY <1>3 DEF Means
  <1>5. Kept(regs, Tail(stack), ram) /\ Safe(Head(stack))
    BY <1>1, <1>2, KeptPop
  <1>6. Kept(regs, Tail(stack), m)
    BY <1>1, <1>5, KeptStore
  <1> HIDE DEF m
  <1>7. ~Backs(text[d].x) /\ i.op \notin {"CALL_reg", "JMP_reg", "MOV_reg_imm64", "PUSH_reg"}
    BY <1>1, <1>4 DEF Backs
  <1>8. Fine(i.next, regs, Tail(stack), m)
    BY <1>3, <1>6, <1>7, StepOn
  <1> QED
    BY <1>1, <1>8

LEMMA AddSubFine ==
    ASSUME Settled, Linked, rip \notin Library, Fine(rip, regs, stack, ram), AddSub(Fetched)
    PROVE  Fine(rip', regs', stack', ram') /\ flags' \in Words \X Words
  <1> DEFINE i == Fetched
             a == Head(stack)
             b == regs[i.from]
             w == IF ~Numbers2(a, b) THEN Undetermined
                  ELSE Num(IF i.op = "ADD_mem_reg" THEN a.v + b.v ELSE a.v - b.v)
  <1>1. /\ i.op \in {"ADD_mem_reg", "SUB_mem_reg"} /\ rip' = i.next /\ regs' = regs /\ ram' = ram
        /\ stack' = << w >> \o Tail(stack) /\ stack # << >>
        /\ flags' = << Undetermined, Undetermined >>
    BY DEF AddSub, Step, Faulty, Reads
  <1>2. /\ Kept(regs, stack, ram) /\ i.op # "none" /\ i.op # "MOV_reg_imm32"
    BY <1>1, StepFacts
  <1>3. PICK d \in 1 .. Len(text) : Means(d, i) /\ Ready(d, regs, stack) /\ text[d].cur # 0
    BY <1>2, StepFacts
  <1>4. i.op = text[d].x.op /\ i.from = From(text[d].x) /\ Shape(text[d].x)
    BY <1>3 DEF Means
  <1>5. i.from = REGS.RAX /\ REGS.RAX \in REG_NUMBERS
    BY <1>1, <1>4, Registers DEF Stacked, REGS, REG_NUMBERS
  <1>6. Kept(regs, Tail(stack), ram) /\ Safe(a) /\ Safe(b)
    BY <1>1, <1>2, <1>5, KeptPop DEF Kept
  <1>7. a.v \in Int /\ b.v \in Int
    BY <1>6 DEF Safe, Words
  <1>8. Safe(w)
    <2> HIDE DEF a, b
    <2>1. a.v + b.v \in Int /\ a.v - b.v \in Int
      BY <1>7
    <2> QED
      BY <2>1, SafeWords
  <1> HIDE DEF w
  <1>9. Kept(regs, << w >> \o Tail(stack), ram)
    BY <1>6, <1>8, KeptPush
  <1>10. ~Backs(text[d].x) /\ i.op \notin {"CALL_reg", "JMP_reg", "MOV_reg_imm64", "PUSH_reg"}
    BY <1>1, <1>4 DEF Backs
  <1>11. Fine(i.next, regs, << w >> \o Tail(stack), ram)
    BY <1>3, <1>9, <1>10, StepOn
  <1> QED
    BY <1>1, <1>11, SafeWords

LEMMA MovFine ==
    ASSUME Settled, Linked, rip \notin Library, Fine(rip, regs, stack, ram), Mov(Fetched)
    PROVE  Fine(rip', regs', stack', ram')
  <1> DEFINE i == Fetched
             w == IF i.is_code THEN Code(i.imm) ELSE Num(i.imm)
             r == [regs EXCEPT ![i.to] = w]
  <1>1. /\ i.op \in {"MOV_reg_imm64", "MOV_reg_imm32"} /\ rip' = i.next /\ regs' = r /\ ram' = ram
        /\ stack' = stack
    BY DEF Mov, Step
  <1>2. Kept(regs, stack, ram) /\ i.op # "none"
    BY <1>1, StepFacts
  <1>3. PICK d \in 1 .. Len(text) : /\ Means(d, i) /\ Ready(d, regs, stack) /\ text[d].x.imm \in Int
                                    /\ i.op # "MOV_reg_imm32" => text[d].cur # 0
    BY <1>2, StepFacts
  <1> DEFINE x == text[d].x
  <1>4. /\ i.op = x.op /\ i.to = To(x) /\ Shape(x) /\ i.next = base_addr + End(text[d])
        /\ i.imm = x.imm /\ i.is_code = (x.fix = "abs")
    BY <1>3 DEF Means
  <1>5. i.to \in REG_NUMBERS /\ REGS.R8 \in REG_NUMBERS /\ REGS.RAX \in REG_NUMBERS
    BY <1>1, <1>4, Registers DEF REGS, REG_NUMBERS
  <1>6. Safe(w)
    <2>1. CASE x.fix = "abs"
      <3>1. AtGroup(x.imm)
        BY <2>1, LaidLanding DEF Landing
      <3>2. w = Code(x.imm)
        BY <1>4, <2>1
      <3> QED
        BY <1>3, <3>1, <3>2, SafeWords
    <2>2. CASE x.fix # "abs"
      <3>1. w = Num(x.imm)
        BY <1>4, <2>2
      <3> QED
        BY <1>3, <3>1, SafeWords
    <2> QED
      BY <2>1, <2>2
  <1>7. Kept(r, stack, ram)
    BY <1>2, <1>5, <1>6, KeptReg
  <1>8. /\ regs \in [REG_NUMBERS -> Words]
        /\ \A n \in REG_NUMBERS : r[n] = IF n = i.to THEN w ELSE regs[n]
    BY <1>2, <1>5 DEF Kept
  <1>9. r[REGS.R8] = Num(ram_addr)
    <2>1. CASE i.op = "MOV_reg_imm64"
      <3>1. ~Backs(x) /\ i.to # REGS.R8
        BY <1>4, <2>1, Registers DEF Backs
      <3>2. regs[REGS.R8] = Num(ram_addr)
        BY <1>3, <2>1, <3>1 DEF Ready
      <3> QED
        BY <1>5, <1>8, <3>1, <3>2
    <2>2. CASE i.op = "MOV_reg_imm32"
      <3>1. text[d].cur = 0
        BY <1>4, <2>2, LaidMember DEF Member
      <3>2. x.imm = ram_addr /\ x.fix = "none"
        BY <3>1, LaidFirst
      <3>3. i.to = REGS.R8
        BY <1>4, <2>2, Registers
      <3> QED
        BY <1>4, <1>5, <1>8, <3>2, <3>3
    <2> QED
      BY <1>1, <2>1, <2>2
  <1>10. /\ Aims(x, "none") => r[REGS.RAX] = Num(x.imm)
         /\ Aims(x, "abs") => r[REGS.RAX].kind = "code"
    <2>1. CASE Aims(x, "none")
      <3>1. i.to = REGS.RAX /\ w = Num(x.imm) /\ x.fix = "none"
        BY <1>4, <2>1, Registers DEF Aims
      <3> QED
        BY <1>5, <1>8, <3>1 DEF Aims
    <2>2. CASE Aims(x, "abs")
      <3>1. i.to = REGS.RAX /\ w = Code(x.imm) /\ x.fix = "abs"
        BY <1>4, <2>2, Registers DEF Aims
      <3> QED
        BY <1>5, <1>8, <3>1 DEF Aims, Code
    <2> QED
      BY <2>1, <2>2
  <1> HIDE DEF r
  <1>11. ~Goes(x) /\ ~Saves(x)
    BY <1>1, <1>4 DEF Goes, Saves
  <1>12. Arrived(i.next, r, stack) /\ i.next \notin Library
    BY <1>4, <1>9, <1>10, <1>11, Proceed
  <1> QED
    BY <1>1, <1>7, <1>12 DEF Fine, Kept

LEMMA QuotientType ==
    ASSUME NEW a \in Int, NEW b \in Int, b # 0 PROVE Quotient(a, b) \in Int /\ Remainder(a, b) \in Int
  <1> DEFINE n == Magnitude_(a)
             m == Magnitude_(b)
  <1>1. n \in Int /\ m \in Int /\ m > 0
    BY DEF Magnitude_
  <1>2. n \div m \in Int
    <2> HIDE DEF n, m
    <2> QED
      BY <1>1
  <1> DEFINE q == n \div m
  <1>3. Quotient(a, b) = IF (a < 0) = (b < 0) THEN q ELSE -q
    BY DEF Quotient
  <1> HIDE DEF q, n, m
  <1>4. q \in Int
    BY <1>2 DEF q
  <1>5. Quotient(a, b) \in Int
    BY <1>3, <1>4
  <1> QED
    BY <1>5 DEF Remainder

\* A number in rdx:rax, and the whole of both.
LEMMA KeptWide ==
    ASSUME NEW s, NEW m, Kept(regs, s, m), NEW w, Safe(w)
    PROVE  Kept(Wide(w), s, m) /\ Wide(w)[REGS.R8] = regs[REGS.R8]
  <1>1. Safe(High(w))
    BY SafeWords DEF High
  <1>2. /\ REGS.RAX \in REG_NUMBERS /\ REGS.RDX \in REG_NUMBERS /\ REGS.R8 \in REG_NUMBERS
        /\ REGS.RAX # REGS.R8 /\ REGS.RDX # REGS.R8
    BY DEF REGS, REG_NUMBERS
  <1> DEFINE one == [regs EXCEPT ![REGS.RAX] = w]
             two == [one EXCEPT ![REGS.RDX] = High(w)]
  <1>3. Wide(w) = two
    BY DEF Wide
  <1>4. Kept(one, s, m)
    BY <1>2, KeptReg
  <1>5. Kept(two, s, m)
    <2> HIDE DEF one
    <2> QED
      BY <1>1, <1>2, <1>4, KeptReg
  <1>6. regs \in [REG_NUMBERS -> Words]
    BY DEF Kept
  <1>7. two[REGS.R8] = regs[REGS.R8]
    BY <1>2, <1>6
  <1> QED
    BY <1>3, <1>5, <1>7

LEMMA KeptPair ==
    ASSUME NEW s, NEW m, Kept(regs, s, m), NEW v, Safe(v), NEW w, Safe(w)
    PROVE  LET r == [regs EXCEPT ![REGS.RAX] = v, ![REGS.RDX] = w]
           IN  Kept(r, s, m) /\ r[REGS.R8] = regs[REGS.R8]
  <1>1. /\ REGS.RAX \in REG_NUMBERS /\ REGS.RDX \in REG_NUMBERS /\ REGS.R8 \in REG_NUMBERS
        /\ REGS.RAX # REGS.R8 /\ REGS.RDX # REGS.R8
    BY DEF REGS, REG_NUMBERS
  <1> DEFINE one == [regs EXCEPT ![REGS.RAX] = v]
             two == [one EXCEPT ![REGS.RDX] = w]
  <1>2. Kept(one, s, m)
    BY <1>1, KeptReg
  <1>3. Kept(two, s, m)
    <2> HIDE DEF one
    <2> QED
      BY <1>1, <1>2, KeptReg
  <1>4. regs \in [REG_NUMBERS -> Words]
    BY DEF Kept
  <1>5. two[REGS.R8] = regs[REGS.R8]
    BY <1>1, <1>4
  <1> QED
    BY <1>3, <1>5

LEMMA MulDivFine ==
    ASSUME Settled, Linked, rip \notin Library, Fine(rip, regs, stack, ram), MulDiv(Fetched)
    PROVE  Fine(rip', regs', stack', ram') /\ flags' \in Words \X Words
  <1> DEFINE i == Fetched
             a == regs[REGS.RAX]
             b == regs[i.to]
  <1>1. /\ i.op \in {"CQO", "IMUL_reg", "IDIV_reg"} /\ rip' = i.next /\ ram' = ram /\ stack' = stack
        /\ flags' = << Undetermined, Undetermined >>
        /\ i.op = "IDIV_reg" => regs[i.to] # Num(0)
    BY DEF MulDiv, Step, Faulty
  <1>2. /\ Kept(regs, stack, ram) /\ i.op # "none" /\ i.op # "MOV_reg_imm32"
    BY <1>1, StepFacts
  <1>3. PICK d \in 1 .. Len(text) : Means(d, i) /\ Ready(d, regs, stack) /\ text[d].cur # 0
    BY <1>2, StepFacts
  <1>4. i.op = text[d].x.op /\ i.to = To(text[d].x) /\ Shape(text[d].x)
    BY <1>3 DEF Means
  <1>5. Safe(a) /\ a.v \in Int
    BY <1>2 DEF Kept, Safe, Words, REGS, REG_NUMBERS
  <1>6. i.op # "CQO" => Safe(b) /\ b \in Words /\ b.v \in Int
    <2>1. i.op # "CQO" => i.to \in REG_NUMBERS
      BY <1>1, <1>4, Registers
    <2> QED
      BY <1>2, <2>1 DEF Kept, Safe, Words
  <1>7. Kept(regs', stack, ram) /\ regs'[REGS.R8] = regs[REGS.R8]
    <2>1. CASE i.op = "CQO"
      <3>1. regs' = Wide(a)
        BY <2>1 DEF MulDiv
      <3> QED
        BY <1>2, <1>5, <3>1, KeptWide
    <2>2. CASE i.op = "IMUL_reg"
      <3> DEFINE w == IF Numbers2(a, b) THEN Num(a.v * b.v) ELSE Undetermined
      <3>1. regs' = Wide(w)
        BY <2>2 DEF MulDiv
      <3>2. a.v * b.v \in Int
        <4>1. ASSUME NEW p \in Int, NEW q \in Int PROVE p * q \in Int
          OBVIOUS
        <4> QED
          BY <1>5, <1>6, <2>2, <4>1
      <3>3. Safe(w)
        BY <3>2, SafeWords
      <3> HIDE DEF w
      <3> QED
        BY <1>2, <3>1, <3>3, KeptWide
    <2>3. CASE i.op = "IDIV_reg"
      <3>1. CASE IsWide /\ b.kind = "num"
        <4> DEFINE q == Num(Quotient(a.v, b.v))
                   e == Num(Remainder(a.v, b.v))
        <4>1. regs' = [regs EXCEPT ![REGS.RAX] = q, ![REGS.RDX] = e]
          BY <2>3, <3>1 DEF MulDiv
        <4>2. b.v # 0
          <5>1. b = Num(b.v)
            BY <1>6, <2>3, <3>1 DEF Words, Num
          <5> QED
            BY <1>1, <2>3, <5>1
        <4>3. Safe(q) /\ Safe(e)
          BY <1>5, <1>6, <2>3, <4>2, QuotientType, SafeWords
        <4> HIDE DEF q, e
        <4> QED
          BY <1>2, <4>1, <4>3, KeptPair
      <3>2. CASE ~(IsWide /\ b.kind = "num")
        <4>1. regs' = [regs EXCEPT ![REGS.RAX] = Undetermined, ![REGS.RDX] = Undetermined]
          BY <2>3, <3>2 DEF MulDiv
        <4> QED
          BY <1>2, <4>1, KeptPair, SafeWords
      <3> QED
        BY <3>1, <3>2
    <2> QED
      BY <1>1, <2>1, <2>2, <2>3
  <1>8. ~Backs(text[d].x) /\ i.op \notin {"CALL_reg", "JMP_reg", "MOV_reg_imm64", "PUSH_reg"}
    BY <1>1, <1>4 DEF Backs
  <1>9. Fine(i.next, regs', stack, ram)
    BY <1>3, <1>7, <1>8, StepOn
  <1> QED
    BY <1>1, <1>9, SafeWords

LEMMA CmpFine ==
    ASSUME Settled, Linked, rip \notin Library, Fine(rip, regs, stack, ram), Cmp(Fetched)
    PROVE  Fine(rip', regs', stack', ram') /\ flags' \in Words \X Words
  <1> DEFINE i == Fetched
  <1>1. /\ i.op = "CMP_reg_reg" /\ rip' = i.next /\ regs' = regs /\ ram' = ram /\ stack' = stack
        /\ flags' = << regs[i.to], regs[i.from] >>
    BY DEF Cmp, Step
  <1>2. /\ Kept(regs, stack, ram) /\ i.op # "none" /\ i.op # "MOV_reg_imm32"
    BY <1>1, StepFacts
  <1>3. PICK d \in 1 .. Len(text) : Means(d, i) /\ Ready(d, regs, stack) /\ text[d].cur # 0
    BY <1>2, StepFacts
  <1>4. i.op = text[d].x.op /\ i.to = To(text[d].x) /\ i.from = From(text[d].x) /\ Shape(text[d].x)
    BY <1>3 DEF Means
  <1>5. regs[i.to] \in Words /\ regs[i.from] \in Words
    <2>1. i.to \in REG_NUMBERS /\ i.from \in REG_NUMBERS
      BY <1>1, <1>4, Registers DEF REGS, REG_NUMBERS
    <2> QED
      BY <1>2, <2>1 DEF Kept
  <1>6. ~Backs(text[d].x) /\ i.op \notin {"CALL_reg", "JMP_reg", "MOV_reg_imm64", "PUSH_reg"}
    BY <1>1, <1>4 DEF Backs
  <1>7. Fine(i.next, regs, stack, ram)
    BY <1>2, <1>3, <1>6, StepOn
  <1> QED
    BY <1>1, <1>5, <1>7

LEMMA JccFine ==
    ASSUME Settled, Linked, rip \notin Library, Fine(rip, regs, stack, ram), Jcc(Fetched)
    PROVE  Fine(rip', regs', stack', ram')
  <1> DEFINE i == Fetched
  <1>1. /\ i.op \in CondOps /\ rip' \in {i.next, i.next + i.imm} /\ regs' = regs /\ ram' = ram
        /\ stack' = stack
    BY DEF Jcc
  <1>2. i.op \notin {"none", "MOV_reg_imm32", "CALL_reg", "JMP_reg", "MOV_reg_imm64", "PUSH_reg", "POP_reg"}
    BY <1>1 DEF CondOps
  <1>3. Kept(regs, stack, ram)
    BY <1>2, StepFacts
  <1>4. PICK d \in 1 .. Len(text) : /\ Means(d, i) /\ Ready(d, regs, stack) /\ text[d].cur # 0
                                    /\ text[d].x.imm \in Int
    BY <1>2, StepFacts
  <1>5. i.op = text[d].x.op /\ i.next = base_addr + End(text[d]) /\ i.imm = text[d].x.imm
    BY <1>4 DEF Means
  <1>6. ~Backs(text[d].x)
    BY <1>2, <1>5 DEF Backs
  <1>7. Fine(i.next, regs, stack, ram)
    BY <1>2, <1>3, <1>4, <1>6, StepOn
  <1>8. Fine(i.next + i.imm, regs, stack, ram)
    <2>1. text[d].x.fix = "rel"
      BY <1>1, <1>4, <1>5, LaidMember DEF Member
    <2>2. AtGroup(Landing(text[d]))
      BY <2>1, LaidLanding
    <2>3. Landing(text[d]) = i.next + i.imm
      <3>1. /\ text[d].at \in Nat /\ WrittenBytes(text[d].x) \in Nat /\ base_addr \in Nat
        BY LaidEntry, LaidTypes
      <3>2. Landing(text[d]) = base_addr + text[d].at + WrittenBytes(text[d].x) + text[d].x.imm
        BY <2>1 DEF Landing
      <3> QED
        BY <1>4, <1>5, <3>1, <3>2 DEF End
    <2>4. regs[REGS.R8] = Num(ram_addr)
      BY <1>4, <1>6 DEF Ready
    <2>5. Arrived(i.next + i.imm, regs, stack) /\ i.next + i.imm \notin Library
      BY <2>2, <2>3, <2>4, ArriveGroup
    <2> QED
      BY <1>3, <2>5 DEF Fine, Kept
  <1> QED
    BY <1>1, <1>7, <1>8

LEMMA JumpFine ==
    ASSUME Settled, Linked, rip \notin Library, Fine(rip, regs, stack, ram), Jump(Fetched)
    PROVE  Fine(rip', regs', stack', ram') /\ rip' # 0
  <1> DEFINE i == Fetched
             c == Code(i.next)
  <1>1. /\ i.op \in {"CALL_reg", "JMP_reg"} /\ rip' = regs[i.to].v /\ regs' = regs /\ ram' = ram
        /\ stack' = IF i.op = "CALL_reg" THEN << c >> \o stack ELSE stack
    BY DEF Jump
  <1>2. /\ Kept(regs, stack, ram) /\ i.op # "none" /\ i.op # "MOV_reg_imm32"
    BY <1>1, StepFacts
  <1>3. PICK d \in 1 .. Len(text) : Means(d, i) /\ Ready(d, regs, stack) /\ text[d].cur # 0
    BY <1>2, StepFacts
  <1> DEFINE x == text[d].x
             ins == ir[text[d].cur]
  <1>4. i.op = x.op /\ i.to = To(x) /\ Shape(x) /\ i.next = base_addr + End(text[d])
    BY <1>3 DEF Means
  <1>5. Goes(x) /\ ~Backs(x)
    BY <1>1, <1>4 DEF Goes, Backs
  <1>6. i.to = REGS.RAX /\ REGS.RAX \in REG_NUMBERS
    BY <1>4, <1>5, Registers DEF REGS, REG_NUMBERS
  <1>7. Aimed(d, regs) /\ regs[REGS.R8] = Num(ram_addr)
    BY <1>3, <1>5 DEF Ready
  <1>8. i.next \in Int
    BY <1>4, LaidEntry, LaidTypes
  <1>9. CASE ins.type \in LibFuncs
    <2>1. ~Closes(d) /\ d # Len(text)
      <3>1. ~Closes(d)
        BY <1>3, <1>5, <1>9, LaidMember
      <3> QED
        BY <3>1 DEF Settled, TextInv, Closes
    <2>2. d \in 1 .. Len(text) - 1
      BY <2>1, LaidTypes
    <2>3. d + 1 \in 1 .. Len(text) /\ Place(d + 1) = i.next /\ Follow(ins, x, text[d + 1].x)
      BY <1>4, <2>1, <2>2, LaidNext
    <2>4. x.op = "CALL_reg" /\ Backs(text[d + 1].x)
      BY <1>1, <1>4, <2>3 DEF Follow
    <2>5. rip' = LibAddr[ins.type] /\ rip' \in Library /\ rip' # 0
      <3>1. rip' = LibAddr[ins.type]
        BY <1>1, <1>6, <1>7, <1>9 DEF Aimed, Num
      <3> QED
        BY <1>9, <3>1, LibraryApart
    <2>6. stack # << >> /\ stack[1] = Num(ram_addr)
      BY <1>3, <1>5, <1>9 DEF Ready
    <2>7. c \in Words
      BY <1>8, SafeWords
    <2>8. stack' = << c >> \o stack
      BY <1>1, <1>4, <2>4
    <2> HIDE DEF c
    <2>9. /\ stack' \in Seq(Words) /\ Kept(regs, Tail(stack'), ram) /\ Len(stack') = Len(stack) + 1
          /\ stack'[1] = c /\ stack'[2] = Num(ram_addr)
      BY <1>2, <2>6, <2>7, <2>8, KeptUnder
    <2>10. Len(stack') >= 2
      BY <1>2, <2>6, <2>9 DEF Kept
    <2>11. Called(stack')
      BY <2>3, <2>4, <2>9, <2>10 DEF Called, c
    <2> QED
      BY <1>1, <2>5, <2>9, <2>11 DEF Fine
  <1>10. CASE ins.type \notin LibFuncs
    <2>1. regs[REGS.RAX].kind = "code" /\ Safe(regs[REGS.RAX])
      BY <1>2, <1>6, <1>7, <1>10 DEF Aimed, Kept
    <2>2. AtGroup(rip')
      BY <1>1, <1>6, <2>1 DEF Safe
    <2>3. Arrived(rip', regs, stack') /\ rip' \notin Library /\ rip' # 0
      BY <1>7, <2>2, ArriveGroup
    <2>4. Closes(d)
      BY <1>3, <1>5, <1>10, LaidMember
    <2>5. Safe(c)
      BY <1>4, <1>8, <2>4, LaidClose, SafeWords
    <2> HIDE DEF c
    <2>6. Kept(regs, stack', ram)
      BY <1>1, <1>2, <2>5, KeptPush
    <2> QED
      BY <1>1, <2>3, <2>6 DEF Fine, Kept
  <1> QED
    BY <1>9, <1>10

LEMMA RetFine ==
    ASSUME Settled, Linked, rip \notin Library, Fine(rip, regs, stack, ram), Ret(Fetched)
    PROVE  Fine(rip', regs', stack', ram') /\ rip' # 0
  <1> DEFINE i == Fetched
  <1>1. /\ i.op = "RET" /\ stack # << >> /\ Head(stack).kind = "code" /\ rip' = Head(stack).v
        /\ stack' = Tail(stack) /\ regs' = regs /\ ram' = ram
    BY DEF Ret, Faulty, Reads
  <1>2. /\ Kept(regs, stack, ram) /\ i.op # "none" /\ i.op # "MOV_reg_imm32"
    BY <1>1, StepFacts
  <1>3. PICK d \in 1 .. Len(text) : Means(d, i) /\ Ready(d, regs, stack) /\ text[d].cur # 0
    BY <1>2, StepFacts
  <1>4. i.op = text[d].x.op /\ ~Backs(text[d].x)
    BY <1>1, <1>3 DEF Means, Backs
  <1>5. regs[REGS.R8] = Num(ram_addr)
    BY <1>3, <1>4 DEF Ready
  <1>6. Kept(regs, Tail(stack), ram) /\ AtGroup(rip')
    BY <1>1, <1>2, KeptPop DEF Safe
  <1>7. Arrived(rip', regs, stack') /\ rip' \notin Library /\ rip' # 0
    BY <1>5, <1>6, ArriveGroup
  <1> QED
    BY <1>1, <1>6, <1>7 DEF Fine, Kept

LEMMA TopTwo ==
    ASSUME NEW s \in Seq(Words), Len(s) >= 2
    PROVE  Head(s) = s[1] /\ s # << >> /\ Tail(s) # << >> /\ Tail(s)[1] = s[2]
  <1> DEFINE t == Tail(s)
  <1>1. Len(s) \in Nat /\ Head(s) = s[1] /\ s # << >>
    OBVIOUS
  <1>2. t \in Seq(Words) /\ Len(t) = Len(s) - 1 /\ \A n \in 1 .. Len(t) : t[n] = s[n + 1]
    BY <1>1
  <1> HIDE DEF t
  <1>3. Len(t) \in Nat /\ Len(t) >= 1 /\ 1 \in 1 .. Len(t)
    BY <1>1, <1>2
  <1>4. t[1] = s[1 + 1]
    BY <1>2, <1>3
  <1>5. t # << >>
    BY <1>3
  <1> QED
    BY <1>1, <1>4, <1>5 DEF t

\* Back from the library, to where r8 is restored.
LEMMA ReturnsFine ==
    ASSUME Settled, Linked, rip \in Library, Fine(rip, regs, stack, ram), NEW lost, NEW result,
           Safe(result), Returns(lost, result)
    PROVE  Fine(rip', regs', stack', ram') /\ rip' # 0
  <1>1. Called(stack) /\ Kept(regs, Tail(stack), ram) /\ stack \in Seq(Words)
    BY DEF Fine
  <1>2. PICK d \in 1 .. Len(text) : /\ Backs(text[d].x) /\ Len(stack) >= 2
                                    /\ stack[1] = Code(Place(d)) /\ stack[2] = Num(ram_addr)
    BY <1>1 DEF Called
  <1>3. Head(stack) = stack[1] /\ stack # << >> /\ Tail(stack) # << >> /\ Tail(stack)[1] = stack[2]
    BY <1>1, <1>2, TopTwo
  <1>4. rip' = Place(d) /\ stack' = Tail(stack) /\ ram' = ram
    BY <1>2, <1>3 DEF Returns, Code
  <1>5. regs' = [r \in REG_NUMBERS |-> IF r = REGS.RAX THEN result
                                       ELSE IF r \in lost THEN Undetermined ELSE regs[r]]
    BY DEF Returns
  <1>6. Kept(regs', Tail(stack), ram)
    <2>1. \A n \in REG_NUMBERS : Safe(regs'[n])
      BY <1>1, <1>5, SafeWords DEF Kept
    <2>2. regs' \in [REG_NUMBERS -> Words]
      BY <1>1, <1>5, SafeWords DEF Kept, Safe
    <2> QED
      BY <1>1, <2>1, <2>2 DEF Kept
  <1>7. Ready(d, regs', Tail(stack))
    BY <1>2, <1>3 DEF Ready, Backs, Goes, Saves
  <1>8. \A e \in 1 .. Len(text) : rip' = Place(e) => e = d
    BY <1>4, LaidApart
  <1>9. rip' \notin Library /\ rip' # CodeEnd /\ rip' # 0
    BY <1>4, LibraryApart
  <1>10. Arrived(rip', regs', Tail(stack))
    BY <1>4, <1>7, <1>8, <1>9 DEF Arrived
  <1> QED
    BY <1>4, <1>6, <1>9, <1>10 DEF Fine, Kept
-----------------------------------------------------------------------------
(* What the functions of the library compute.                              *)

Digits == Zero_ .. Zero_ + 9

\* The digits of every number up to n.
Puts(f, n) == \A c \in 0 .. n : f[c] = IF c = 0 THEN << >> ELSE Append(f[c \div 10], Zero_ + (c % 10))

LEMMA DigitSplit ==
    ASSUME NEW c \in Nat, c > 0
    PROVE  c \div 10 \in 0 .. c - 1 /\ c % 10 \in 0 .. 9 /\ Zero_ + (c % 10) \in Digits
  <1>1. c \div 10 \in 0 .. c - 1 /\ c % 10 \in 0 .. 9
    OBVIOUS
  <1> QED
    BY <1>1 DEF Digits, Zero_

LEMMA PutsExist ==
    ASSUME NEW n \in Nat
    PROVE  \E f \in [0 .. n -> Seq(Digits)] : Puts(f, n)
  <1> DEFINE Made(m) == \E f \in [0 .. m -> Seq(Digits)] : Puts(f, m)
             bad == {m \in 0 .. n : ~Made(m)}
  <1>1. bad \subseteq Nat
    OBVIOUS
  <1>2. \A m : m \in bad <=> m \in 0 .. n /\ ~Made(m)
    OBVIOUS
  <1>3. Made(0)
    <2> DEFINE f == [c \in 0 .. 0 |-> << >>]
    <2>1. f \in [0 .. 0 -> Seq(Digits)] /\ \A c \in 0 .. 0 : c = 0 /\ f[c] = << >>
      OBVIOUS
    <2> HIDE DEF f
    <2>2. Puts(f, 0)
      BY <2>1 DEF Puts
    <2> QED
      BY <2>1, <2>2
  <1>4. ASSUME NEW m \in Nat, Made(m) PROVE Made(m + 1)
    <2>1. PICK f \in [0 .. m -> Seq(Digits)] : Puts(f, m)
      BY <1>4
    <2> DEFINE last == Append(f[(m + 1) \div 10], Zero_ + ((m + 1) % 10))
               g == [c \in 0 .. m + 1 |-> IF c = m + 1 THEN last ELSE f[c]]
    <2>2. (m + 1) \div 10 \in 0 .. m /\ Zero_ + ((m + 1) % 10) \in Digits
      <3>1. m + 1 \in Nat /\ m + 1 > 0 /\ (m + 1) - 1 = m
        OBVIOUS
      <3> QED
        BY <3>1, DigitSplit
    <2>3. last \in Seq(Digits)
      BY <2>2
    <2> HIDE DEF last
    <2>4. g \in [0 .. m + 1 -> Seq(Digits)]
      <3> SUFFICES ASSUME NEW c \in 0 .. m + 1 PROVE (IF c = m + 1 THEN last ELSE f[c]) \in Seq(Digits)
        OBVIOUS
      <3>1. c # m + 1 => c \in 0 .. m
        OBVIOUS
      <3> QED
        BY <2>3, <3>1
    <2>5. \A c \in 0 .. m : g[c] = f[c]
      OBVIOUS
    <2>6. g[m + 1] = last
      OBVIOUS
    <2> HIDE DEF g
    <2>7. ASSUME NEW c \in 0 .. m + 1
          PROVE  g[c] = IF c = 0 THEN << >> ELSE Append(g[c \div 10], Zero_ + (c % 10))
      <3>1. CASE c = m + 1
        <4>1. g[c] = Append(g[c \div 10], Zero_ + (c % 10))
          BY <2>2, <2>5, <2>6, <3>1 DEF last
        <4>2. c # 0
          BY <3>1
        <4> QED
          BY <4>1, <4>2
      <3>2. CASE c # m + 1
        <4>1. c \in 0 .. m
          BY <3>2
        <4>2. c # 0 => c \div 10 \in 0 .. m
          <5>1. c # 0 => c \div 10 \in 0 .. c - 1
            BY <4>1, DigitSplit
          <5> QED
            BY <4>1, <5>1
        <4> QED
          BY <2>1, <2>5, <4>1, <4>2 DEF Puts
      <3> QED
        BY <3>1, <3>2
    <2>8. Puts(g, m + 1)
      BY <2>7 DEF Puts
    <2> QED
      BY <2>4, <2>8
  <1> HIDE DEF Made, bad
  <1>5. bad = {}
    <2> SUFFICES ASSUME bad # {} PROVE FALSE
      OBVIOUS
    <2>1. PICK m \in bad : \A i \in bad : m <= i
      BY <1>1, LeastMember
    <2>2. m \in 0 .. n /\ ~Made(m) /\ m # 0 /\ m \in Nat
      BY <1>1, <1>2, <1>3, <2>1
    <2>3. m - 1 \in Nat /\ (m - 1) + 1 = m /\ m - 1 \in 0 .. n
      BY <2>2
    <2>4. m - 1 \notin bad
      BY <1>1, <2>1, <2>3
    <2>5. Made(m - 1)
      BY <1>2, <2>3, <2>4
    <2> QED
      BY <1>4, <2>2, <2>3, <2>5
  <1>6. n \in 0 .. n
    OBVIOUS
  <1> QED
    BY <1>2, <1>5, <1>6 DEF Made

\* The loop .L28 writes nothing but digits.
LEMMA PutsDigits ==
    ASSUME NEW n \in Nat, NEW f, Puts(f, n)
    PROVE  \A c \in 0 .. n : f[c] \in Seq(Digits)
  <1> DEFINE bad == {c \in 0 .. n : f[c] \notin Seq(Digits)}
  <1> SUFFICES ASSUME bad # {} PROVE FALSE
    OBVIOUS
  <1>1. PICK m \in bad : \A i \in bad : m <= i
    <2>1. bad \subseteq Nat
      OBVIOUS
    <2> HIDE DEF bad
    <2> QED
      BY <2>1, LeastMember
  <1>2. m \in 0 .. n /\ m \in Nat /\ f[m] \notin Seq(Digits)
    OBVIOUS
  <1>3. \A c \in 0 .. n : c \notin bad => f[c] \in Seq(Digits)
    OBVIOUS
  <1>4. \A c \in bad : c \in Nat
    OBVIOUS
  <1> HIDE DEF bad
  <1>5. CASE m = 0
    <2>1. f[m] = << >>
      BY <1>2, <1>5 DEF Puts
    <2> QED
      BY <1>2, <2>1
  <1>6. CASE m # 0
    <2>1. m \div 10 \in 0 .. m - 1 /\ Zero_ + (m % 10) \in Digits
      BY <1>2, <1>6, DigitSplit
    <2>2. f[m] = Append(f[m \div 10], Zero_ + (m % 10))
      BY <1>2, <1>6 DEF Puts
    <2> DEFINE p == m \div 10
    <2>3. p \in 0 .. m - 1
      BY <2>1
    <2> HIDE DEF p
    <2>4. p \in 0 .. n /\ ~(m <= p)
      BY <1>2, <2>3
    <2>5. f[p] \in Seq(Digits)
      BY <1>1, <1>3, <2>4
    <2> QED
      BY <1>2, <2>1, <2>2, <2>5 DEF p
  <1> QED
    BY <1>5, <1>6

LEMMA DigitsBefore ==
    ASSUME NEW n \in Nat, NEW text_
    PROVE  \E g \in Seq(Digits) : digits_before(n, text_) = g \o text_
  <1> DEFINE put == CHOOSE f : f = [rcx \in 0 .. n |->
                       IF rcx = 0 THEN << >> ELSE Append(f[rcx \div 10], Zero_ + (rcx % 10))]
  <1>1. digits_before(n, text_) = put[n] \o text_
    BY DEF digits_before
  <1>2. PICK f \in [0 .. n -> Seq(Digits)] : Puts(f, n)
    BY PutsExist
  <1>3. f = [rcx \in 0 .. n |-> IF rcx = 0 THEN << >> ELSE Append(f[rcx \div 10], Zero_ + (rcx % 10))]
    BY <1>2 DEF Puts
  <1>4. put = [rcx \in 0 .. n |->
                 IF rcx = 0 THEN << >> ELSE Append(put[rcx \div 10], Zero_ + (rcx % 10))]
    BY <1>3
  <1> HIDE DEF put
  <1>5. Puts(put, n)
    BY <1>4 DEF Puts
  <1>6. put[n] \in Seq(Digits)
    BY <1>5, PutsDigits
  <1> QED
    BY <1>1, <1>6

LEMMA Concatenated ==
    ASSUME NEW s \in Seq(Int), NEW t \in Seq(Int)
    PROVE  /\ s \o t \in Seq(Int) /\ Len(s \o t) = Len(s) + Len(t) /\ Len(s) \in Nat
           /\ \A i \in 1 .. Len(s) : (s \o t)[i] = s[i]
           /\ \A i \in 1 .. Len(t) : (s \o t)[Len(s) + i] = t[i]
  OBVIOUS

LEMMA Smaller ==
    ASSUME NEW A, NEW B, A \subseteq B, NEW s \in Seq(A)
    PROVE  s \in Seq(B) /\ Len(s) \in Nat /\ \A i \in 1 .. Len(s) : s[i] \in A
  OBVIOUS

\* Whatever is printed can be read.
Texts == {t \in Seq(Int) : t # << >> => Readable(t)}
LEMMA OutputText == ASSUME NEW v \in Int PROVE output_asm(v) \in Texts
  <1> DEFINE m == IF v < 0 THEN -v ELSE v
             sign == IF v < 0 THEN << Minus >> ELSE << >>
             rest == m % 100
             tail == << Point, Zero_ + (rest \div 10), Zero_ + (rest % 10), Newline >>
  <1>1. m \in Nat /\ m \div 100 \in Nat /\ m % 100 \in 0 .. 99
    OBVIOUS
  <1>2. rest \in 0 .. 99
    BY <1>1
  <1>3. output_asm(v) = sign \o digits_before(m \div 100, tail)
    BY DEF output_asm, output_of
  <1> HIDE DEF m
  <1>4. PICK g \in Seq(Digits) : digits_before(m \div 100, tail) = g \o tail
    BY <1>1, DigitsBefore
  <1> HIDE DEF rest
  <1>5. Zero_ + (rest \div 10) \in Digits /\ Zero_ + (rest % 10) \in Digits
    BY <1>2 DEF Digits, Zero_
  <1> DEFINE a == Zero_ + (rest \div 10)
             b == Zero_ + (rest % 10)
  <1> HIDE DEF a, b
  <1>6. tail = << Point, a, b, Newline >> /\ a \in Digits /\ b \in Digits
    BY <1>5 DEF a, b
  <1> HIDE DEF tail
  <1>7. Digits \subseteq Int /\ Minus \in Int /\ Point \in Int /\ Newline \in Int
    BY DEF Digits, Minus, Point, Newline, Zero_
  <1>8. /\ tail \in Seq(Int) /\ Len(tail) = 4 /\ tail[1] = Point /\ tail[2] = a /\ tail[3] = b
        /\ tail[4] = Newline
    BY <1>6, <1>7
  <1> DEFINE u == g \o tail
             n == Len(g)
  <1>9. n \in Nat /\ g \in Seq(Int) /\ \A i \in 1 .. n : g[i] \in Digits
    BY <1>7, Smaller
  <1>10. /\ u \in Seq(Int) /\ Len(u) = n + 4 /\ \A i \in 1 .. n : u[i] = g[i]
         /\ \A i \in 1 .. 4 : u[n + i] = tail[i]
    <2>1. /\ u \in Seq(Int) /\ Len(u) = n + Len(tail) /\ \A i \in 1 .. n : u[i] = g[i]
          /\ \A i \in 1 .. Len(tail) : u[n + i] = tail[i]
      BY <1>8, <1>9, Concatenated
    <2> HIDE DEF u, n
    <2> QED
      BY <1>8, <2>1
  <1> HIDE DEF u, n
  <1>11. /\ u[n + 1] = Point /\ u[n + 2] \in Digits /\ u[n + 3] \in Digits /\ u[n + 4] = Newline
    BY <1>6, <1>8, <1>10
  <1>12. ASSUME NEW i \in 1 .. Len(u), i # n + 1, i # n + 4 PROVE u[i] \in Digits
    <2>1. i \in 1 .. n \/ i = n + 2 \/ i = n + 3
      BY <1>9, <1>10, <1>12
    <2> QED
      BY <1>9, <1>10, <1>11, <2>1
  <1>13. u \in Texts
    <2>1. /\ Len(u) >= 4 /\ u[Len(u)] = Newline /\ u[Len(u) - 3] = Point
      <3>1. Len(u) - 3 = n + 1 /\ Len(u) >= 4
        BY <1>9, <1>10
      <3> QED
        BY <1>10, <1>11, <3>1
    <2>2. \A i \in DOMAIN u \ {Len(u), Len(u) - 3} : u[i] \in Zero_ .. Zero_ + 9
      <3>1. Len(u) = n + 4 /\ Len(u) - 3 = n + 1 /\ DOMAIN u = 1 .. Len(u)
        BY <1>9, <1>10
      <3> QED
        BY <1>12, <3>1 DEF Digits
    <2> QED
      BY <1>10, <2>1, <2>2 DEF Texts, Readable
  <1>14. CASE ~(v < 0)
    <2>1. output_asm(v) = << >> \o u
      BY <1>3, <1>4, <1>14 DEF u
    <2>2. << >> \o u = u
      BY <1>10
    <2> QED
      BY <1>13, <2>1, <2>2
  <1>15. CASE v < 0
    <2> DEFINE w == << Minus >> \o u
    <2>1. output_asm(v) = w
      BY <1>3, <1>4, <1>15 DEF u
    <2>2. /\ w \in Seq(Int) /\ Len(w) = Len(u) + 1 /\ w[1] = Minus
          /\ \A i \in 1 .. Len(u) : w[i + 1] = u[i]
      <3>1. << Minus >> \in Seq(Int) /\ Len(<< Minus >>) = 1 /\ << Minus >>[1] = Minus
        BY <1>7
      <3>2. Len(w) = 1 + Len(u) /\ \A i \in 1 .. Len(u) : w[1 + i] = u[i]
        BY <1>10, <3>1, Concatenated
      <3>3. w \in Seq(Int) /\ w[1] = Minus
        BY <1>10, <3>1, Concatenated
      <3>4. Len(u) \in Nat /\ \A i \in 1 .. Len(u) : 1 + i = i + 1
        BY <1>10
      <3> HIDE DEF w
      <3> QED
        BY <3>2, <3>3, <3>4
    <2> HIDE DEF w
    <2>3. /\ Len(w) >= 4 /\ w[Len(w)] = Newline /\ w[Len(w) - 3] = Point
      <3>1. Len(u) \in 1 .. Len(u) /\ n + 1 \in 1 .. Len(u) /\ Len(w) >= 4
        BY <1>9, <1>10, <2>2
      <3>2. w[Len(u) + 1] = u[Len(u)] /\ w[(n + 1) + 1] = u[n + 1]
        BY <2>2, <3>1
      <3>3. Len(w) = Len(u) + 1 /\ Len(w) - 3 = (n + 1) + 1 /\ Len(u) = n + 4
        BY <1>9, <1>10, <2>2
      <3> QED
        BY <1>11, <3>1, <3>2, <3>3
    <2>4. ASSUME NEW i \in DOMAIN w \ {Len(w), Len(w) - 3}
          PROVE  w[i] \in Zero_ .. Zero_ + 9 \/ (i = 1 /\ w[i] = Minus)
      <3>1. CASE i = 1
        BY <2>2, <3>1
      <3>2. CASE i # 1
        <4>1. i \in 1 .. Len(w) /\ i # Len(w) /\ i # Len(w) - 3
          BY <2>2, <2>4
        <4>2. i - 1 \in 1 .. Len(u) /\ i - 1 # n + 1 /\ i - 1 # n + 4 /\ (i - 1) + 1 = i
          <5>1. n \in Nat /\ Len(u) = n + 4 /\ Len(w) = n + 5 /\ i \in 1 .. n + 5
            BY <1>9, <1>10, <2>2, <4>1
          <5>2. i # n + 5 /\ i # n + 2
            BY <4>1, <5>1
          <5> QED
            BY <3>2, <5>1, <5>2
        <4>3. w[i] = u[i - 1] /\ u[i - 1] \in Digits
          BY <1>12, <2>2, <4>2
        <4> QED
          BY <4>3 DEF Digits
      <3> QED
        BY <3>1, <3>2
    <2> QED
      BY <2>1, <2>2, <2>3, <2>4 DEF Texts, Readable
  <1> QED
    BY <1>14, <1>15

\* What is read is a number.
Sums(f, line, first) ==
    \A i \in first - 1 .. Len(line) :
        f[i] = IF i = first - 1 THEN 0 ELSE 10 * f[i - 1] + line[i] - Zero_

LEMMA SumsExist ==
    ASSUME NEW line \in Seq(Int), NEW first \in 1 .. Len(line)
    PROVE  \E f \in [first - 1 .. Len(line) -> Int] : Sums(f, line, first)
  <1> DEFINE z == first - 1
             n == Len(line)
             Term(f, i) == IF i = z THEN 0 ELSE 10 * f[i - 1] + line[i] - Zero_
             Made(m) == \E f \in [z .. m -> Int] : \A i \in z .. m : f[i] = Term(f, i)
             bad == {m \in z .. n : ~Made(m)}
  <1>1. z \in Nat /\ n \in Nat /\ z <= n /\ bad \subseteq Nat
    OBVIOUS
  <1>2. \A m : m \in bad <=> m \in z .. n /\ ~Made(m)
    OBVIOUS
  <1>3. \A i \in 1 .. n : line[i] - Zero_ \in Int
    BY DEF Zero_
  <1> HIDE DEF z, n
  <1>4. Made(z)
    <2> DEFINE f == [i \in z .. z |-> 0]
    <2>1. f \in [z .. z -> Int] /\ \A i \in z .. z : i = z /\ f[i] = 0
      BY <1>1
    <2> QED
      BY <2>1
  <1>5. ASSUME NEW m \in z .. n - 1, Made(m) PROVE Made(m + 1)
    <2>1. PICK f \in [z .. m -> Int] : \A i \in z .. m : f[i] = Term(f, i)
      BY <1>5
    <2> DEFINE last == 10 * f[m] + line[m + 1] - Zero_
               g == [i \in z .. m + 1 |-> IF i = m + 1 THEN last ELSE f[i]]
    <2>2. m \in Int /\ m + 1 \in 1 .. n /\ m + 1 # z /\ m \in z .. m /\ (m + 1) - 1 = m
      BY <1>1
    <2>3. last \in Int
      <3>1. f[m] \in Int /\ line[m + 1] \in Int
        BY <2>2 DEF n
      <3> QED
        BY <3>1 DEF Zero_
    <2>4. last = 10 * f[(m + 1) - 1] + line[m + 1] - Zero_
      BY <2>2
    <2> HIDE DEF last
    <2>5. g \in [z .. m + 1 -> Int]
      <3> SUFFICES ASSUME NEW i \in z .. m + 1 PROVE (IF i = m + 1 THEN last ELSE f[i]) \in Int
        OBVIOUS
      <3>1. i # m + 1 => i \in z .. m
        BY <1>1, <2>2
      <3> QED
        BY <2>3, <3>1
    <2>6. g[m + 1] = last /\ \A i \in z .. m : g[i] = f[i]
      BY <1>1, <2>2
    <2> HIDE DEF g
    <2>7. ASSUME NEW i \in z .. m + 1 PROVE g[i] = Term(g, i)
      <3>1. CASE i = m + 1
        BY <2>2, <2>4, <2>6, <3>1
      <3>2. CASE i # m + 1
        <4>1. i \in z .. m /\ (i # z => i - 1 \in z .. m)
          BY <1>1, <2>2, <3>2
        <4> QED
          BY <2>1, <2>6, <4>1
      <3> QED
        BY <3>1, <3>2
    <2> QED
      BY <2>5, <2>7
  <1> HIDE DEF Made, bad
  <1>6. bad = {}
    <2> SUFFICES ASSUME bad # {} PROVE FALSE
      OBVIOUS
    <2>1. PICK m \in bad : \A i \in bad : m <= i
      BY <1>1, LeastMember
    <2>2. m \in z .. n /\ ~Made(m) /\ m # z
      BY <1>2, <1>4, <2>1
    <2>3. m - 1 \in z .. n - 1 /\ (m - 1) + 1 = m /\ m - 1 \in z .. n /\ ~(m <= m - 1)
      BY <1>1, <2>2
    <2>4. m - 1 \notin bad
      BY <2>1, <2>3
    <2>5. Made(m - 1)
      BY <1>2, <2>3, <2>4
    <2> QED
      BY <1>5, <2>2, <2>3, <2>5
  <1>7. n \in z .. n
    BY <1>1
  <1>8. Made(n)
    BY <1>2, <1>6, <1>7
  <1> QED
    BY <1>8 DEF Made, Sums, z, n

LEMMA SumsType ==
    ASSUME NEW line \in Seq(Int), NEW first \in 1 .. Len(line), NEW f, Sums(f, line, first)
    PROVE  \A i \in first - 1 .. Len(line) : f[i] \in Int
  <1> DEFINE z == first - 1
             n == Len(line)
             bad == {i \in z .. n : f[i] \notin Int}
  <1> SUFFICES ASSUME bad # {} PROVE FALSE
    OBVIOUS
  <1>1. bad \subseteq Nat /\ z \in Nat /\ n \in Nat
    OBVIOUS
  <1>2. PICK m \in bad : \A i \in bad : m <= i
    <2> HIDE DEF bad
    <2> QED
      BY <1>1, LeastMember
  <1>3. m \in z .. n /\ f[m] \notin Int /\ \A i \in z .. n : i \notin bad => f[i] \in Int
    OBVIOUS
  <1> HIDE DEF bad
  <1>4. \A i \in z .. n : f[i] = IF i = z THEN 0 ELSE 10 * f[i - 1] + line[i] - Zero_
    BY DEF Sums
  <1>5. \A i \in 1 .. n : line[i] \in Int
    OBVIOUS
  <1> HIDE DEF z, n
  <1>6. m # z /\ f[m] = 10 * f[m - 1] + line[m] - Zero_
    BY <1>3, <1>4
  <1>7. m - 1 \in z .. n /\ ~(m <= m - 1) /\ m \in 1 .. n
    BY <1>1, <1>3, <1>6
  <1>8. f[m - 1] \in Int
    BY <1>2, <1>3, <1>7
  <1>9. line[m] \in Int
    BY <1>5, <1>7
  <1>10. 10 * f[m - 1] + line[m] - Zero_ \in Int
    BY <1>8, <1>9 DEF Zero_
  <1> QED
    BY <1>3, <1>6, <1>10

LEMMA DigitsValue ==
    ASSUME NEW line \in Seq(Int), NEW first \in 1 .. Len(line), line[Len(line)] = Newline
    PROVE  digits_value(line, first) \in Int
  <1> DEFINE ends == {i \in first .. Len(line) : line[i] = Newline}
             rax == CHOOSE f : f = [i \in first - 1 .. Len(line) |->
                       IF i = first - 1 THEN 0 ELSE 10 * f[i - 1] + line[i] - Zero_]
             stop == CHOOSE i \in first .. Len(line) :
                        line[i] = Newline /\ \A j \in first .. i - 1 : line[j] # Newline
  <1>1. digits_value(line, first) = rax[stop - 1]
    BY DEF digits_value
  <1>2. PICK f \in [first - 1 .. Len(line) -> Int] : Sums(f, line, first)
    BY SumsExist
  <1>3. f = [i \in first - 1 .. Len(line) |->
               IF i = first - 1 THEN 0 ELSE 10 * f[i - 1] + line[i] - Zero_]
    BY <1>2 DEF Sums
  <1>4. rax = [i \in first - 1 .. Len(line) |->
                 IF i = first - 1 THEN 0 ELSE 10 * rax[i - 1] + line[i] - Zero_]
    BY <1>3
  <1> HIDE DEF rax
  <1>5. Sums(rax, line, first)
    BY <1>4 DEF Sums
  <1>6. \A i \in first - 1 .. Len(line) : rax[i] \in Int
    BY <1>5, SumsType
  <1>7. stop \in first .. Len(line)
    <2>1. Len(line) \in ends /\ ends \subseteq Nat
      OBVIOUS
    <2>2. \A i : i \in ends <=> i \in first .. Len(line) /\ line[i] = Newline
      OBVIOUS
    <2> HIDE DEF ends
    <2>3. PICK m \in ends : \A i \in ends : m <= i
      BY <2>1, LeastMember
    <2>4. m \in first .. Len(line) /\ line[m] = Newline
      BY <2>2, <2>3
    <2>5. ASSUME NEW j \in first .. m - 1 PROVE line[j] # Newline
      <3>1. j \in first .. Len(line) /\ ~(m <= j)
        BY <2>4
      <3> QED
        BY <2>2, <2>3, <3>1
    <2> QED
      BY <2>4, <2>5
  <1>8. stop - 1 \in first - 1 .. Len(line)
    <2> HIDE DEF stop
    <2> QED
      BY <1>7
  <1> QED
    BY <1>1, <1>6, <1>8

LEMMA InputType == ASSUME NEW t \in Typed PROVE input_asm(t.line) \in Int
  <1> DEFINE l == t.line
  <1>1. l \in Seq(Int) /\ 1 \in 1 .. Len(l) /\ 2 \in 1 .. Len(l) /\ l[Len(l)] = Newline
    <2> DEFINE Chars == 0 .. 255
    <2>1. l \in Seq(Chars) /\ Len(l) \in 2 .. 63 /\ l[Len(l)] = Newline
      BY TypedAssumption
    <2>2. Chars \subseteq Int
      OBVIOUS
    <2> HIDE DEF Chars, l
    <2>3. l \in Seq(Int)
      BY <2>1, <2>2, Smaller
    <2>4. 1 \in 1 .. Len(l) /\ 2 \in 1 .. Len(l)
      <3>1. \A n \in 2 .. 63 : 1 \in 1 .. n /\ 2 \in 1 .. n
        OBVIOUS
      <3> QED
        BY <2>1, <3>1
    <2> QED
      BY <2>1, <2>3, <2>4
  <1>2. digits_value(l, 1) \in Int /\ digits_value(l, 2) \in Int
    <2> HIDE DEF l
    <2> QED
      BY <1>1, DigitsValue
  <1>3. -100 * digits_value(l, 2) \in Int /\ 100 * digits_value(l, 1) \in Int
    <2> DEFINE a == digits_value(l, 1)
               b == digits_value(l, 2)
    <2> HIDE DEF a, b
    <2>1. a \in Int /\ b \in Int
      BY <1>2 DEF a, b
    <2>2. -100 * b \in Int /\ 100 * a \in Int
      BY <2>1
    <2> QED
      BY <2>2 DEF a, b
  <1> QED
    BY <1>3 DEF input_asm

LEMMA SqrtType == ASSUME NEW a \in Int PROVE sqrt_asm(a) \in Int
  <1>1. CASE a < 0
    BY <1>1 DEF sqrt_asm
  <1>2. CASE ~(a < 0)
    <2> DEFINE above == {r \in Nat : (r + 1) * (r + 1) > a}
               root == CHOOSE r \in 0 .. a : r * r <= a /\ (r + 1) * (r + 1) > a
    <2>1. \A r : r \in above <=> r \in Nat /\ (r + 1) * (r + 1) > a
      OBVIOUS
    <2>2. a \in above
      <3>1. a \in Nat
        BY <1>2
      <3>2. (a + 1) * (a + 1) = a * a + 2 * a + 1 /\ a * a >= 0
        BY <3>1
      <3>3. (a + 1) * (a + 1) > a
        BY <3>1, <3>2
      <3> QED
        BY <3>1, <3>3
    <2>3. above \subseteq Nat
      OBVIOUS
    <2> HIDE DEF above
    <2>4. PICK m \in above : \A i \in above : m <= i
      BY <2>2, <2>3, LeastMember
    <2>5. m \in Nat /\ m <= a /\ (m + 1) * (m + 1) > a
      BY <2>1, <2>2, <2>4
    <2>6. m * m <= a
      <3>1. CASE m = 0
        BY <1>2, <3>1
      <3>2. CASE m # 0
        <4>1. m - 1 \in Nat /\ (m - 1) + 1 = m /\ ~(m <= m - 1)
          BY <2>5, <3>2
        <4>2. ~(((m - 1) + 1) * ((m - 1) + 1) > a)
          BY <2>1, <2>4, <4>1
        <4>3. ~(m * m > a)
          BY <4>1, <4>2
        <4>4. m * m \in Int
          BY <2>5
        <4> QED
          BY <4>3, <4>4
      <3> QED
        BY <3>1, <3>2
    <2>7. root \in 0 .. a
      <3>1. m \in 0 .. a
        BY <2>5
      <3> QED
        BY <2>5, <2>6, <3>1
    <2>8. sqrt_asm(a) = 10 * root
      BY <1>2 DEF sqrt_asm
    <2> HIDE DEF root
    <2> QED
      BY <2>7, <2>8
  <1> QED
    BY <1>1, <1>2
-----------------------------------------------------------------------------
(* The machine.                                                            *)

\* Nothing that the invariant says of the text changes while it is executed.
LEMMA GroupsFixed ==
    ASSUME UNCHANGED vars
    PROVE  /\ base_addr' = base_addr /\ CodeEnd' = CodeEnd /\ ram_addr' = ram_addr
           /\ \A a : AtGroup(a)' <=> AtGroup(a)
  <1>1. text' = text /\ exec_buf' = exec_buf /\ exec_buf_size' = exec_buf_size /\ output_type' = output_type
        /\ ram_buf' = ram_buf
    BY DEF vars, buffer, args
  <1>2. base_addr' = base_addr /\ CodeEnd' = CodeEnd /\ ram_addr' = ram_addr
    BY <1>1 DEF base_addr, CodeEnd, ram_addr
  <1>3. \A a : AtGroup(a)' <=> AtGroup(a)
    BY <1>1, <1>2 DEF AtGroup, GroupsAt
  <1> QED
    BY <1>2, <1>3

LEMMA KeptFixed ==
    ASSUME UNCHANGED vars, NEW r, NEW s, NEW m
    PROVE  Kept(r, s, m)' <=> Kept(r, s, m)
  BY GroupsFixed DEF Kept, Safe

LEMMA ReadyFixed ==
    ASSUME UNCHANGED vars
    PROVE  /\ \A d : Place(d)' = Place(d)
           /\ \A d, r, s : Ready(d, r, s)' <=> Ready(d, r, s)
  <1>1. text' = text /\ ir' = ir
    BY DEF vars, args
  <1>2. \A d : Place(d)' = Place(d)
    BY <1>1, GroupsFixed DEF Place
  <1>3. \A d, r : Aimed(d, r)' <=> Aimed(d, r)
    BY <1>1, GroupsFixed DEF Aimed
  <1>4. \A d, r, s : Ready(d, r, s)' <=> Ready(d, r, s)
    BY <1>1, <1>3, GroupsFixed DEF Ready
  <1> QED
    BY <1>2, <1>4

LEMMA FineFixed ==
    ASSUME UNCHANGED vars, NEW p, NEW r, NEW s, NEW m, Fine(p, r, s, m)
    PROVE  Fine(p, r, s, m)'
  <1>1. text' = text
    BY DEF vars
  <1>2. Kept(r, s, m)' <=> Kept(r, s, m)
    BY KeptFixed
  <1>3. Kept(r, Tail(s), m)' <=> Kept(r, Tail(s), m)
    BY KeptFixed
  <1>4. Arrived(p, r, s)' <=> Arrived(p, r, s)
    BY <1>1, GroupsFixed, ReadyFixed DEF Arrived
  <1>5. Called(s)' <=> Called(s)
    BY <1>1, GroupsFixed, ReadyFixed DEF Called
  <1> QED
    BY <1>1, <1>2, <1>3, <1>4, <1>5 DEF Fine

LEMMA FineStays ==
    ASSUME UNCHANGED vars, Fine(rip', regs', stack', ram')
    PROVE  Fine(rip, regs, stack, ram)'
  BY FineFixed

\* Before the program is started nothing has been computed; then the processor
\* is fine.
MachineInv ==
    /\ state \in {"running", "exit", "fault"} /\ flags \in Words \X Words
    /\ typed \in Seq(Typed) /\ printed \in Seq(Texts)
    /\ rip = 0 => /\ regs = [r \in REG_NUMBERS |-> Undetermined] /\ stack = << >>
                  /\ ram = [a \in {} |-> Num(0)]
    /\ rip # 0 => status = "OK" /\ Fine(rip, regs, stack, ram)

LEMMA MachineBegins == MachineInit => MachineInv
  BY SafeWords DEF MachineInit, MachineInv

LEMMA ExecuteFine ==
    ASSUME Settled, Linked, MachineInv, execute
    PROVE  Fine(rip', regs', stack', ram')
  <1>1. /\ rip' = base_addr /\ regs' = regs /\ stack' = stack /\ ram' = ram
        /\ regs = [r \in REG_NUMBERS |-> Undetermined] /\ stack = << >> /\ ram = [a \in {} |-> Num(0)]
    BY DEF execute, MachineInv
  <1>2. 1 \in 1 .. Len(text) /\ text[1].at = 0 /\ text[1].cur = 0 /\ text # << >>
    BY LaidTypes DEF Settled, TextInv
  <1>3. Place(1) = base_addr
    BY <1>2, LaidTypes DEF Place
  <1>4. text[1].x.op = "MOV_reg_imm32"
    BY <1>2, LaidFirst
  <1>5. Ready(1, regs, stack)
    BY <1>2, <1>4 DEF Ready, Goes, Saves, Backs
  <1>6. \A d \in 1 .. Len(text) : base_addr = Place(d) => d = 1
    BY <1>2, <1>3, LaidApart
  <1>7. base_addr # CodeEnd /\ base_addr \notin Library
    BY <1>2, <1>3, LibraryApart
  <1>8. Arrived(base_addr, regs, stack)
    BY <1>2, <1>3, <1>5, <1>6, <1>7 DEF Arrived
  <1>9. Kept(regs, stack, ram)
    <2>1. regs \in [REG_NUMBERS -> Words] /\ \A n \in REG_NUMBERS : Safe(regs[n])
      BY <1>1, SafeWords
    <2>2. stack \in Seq(Words) /\ Len(stack) = 0 /\ DOMAIN ram = {}
      BY <1>1
    <2> QED
      BY <2>1, <2>2 DEF Kept
  <1> QED
    BY <1>1, <1>7, <1>8, <1>9 DEF Fine, Kept

LEMMA FineNotZero ==
    ASSUME Settled, Linked, NEW p, NEW r, NEW s, NEW m, Fine(p, r, s, m)
    PROVE  p # 0
  BY LibraryApart DEF Fine, Arrived

\* The instructions that have been written keep the processor fine ...
LEMMA FetchedFine ==
    ASSUME Settled, Linked, MachineInv, Execute, rip \notin Library
    PROVE  /\ Fine(rip', regs', stack', ram') /\ state' \in {"running", "exit", "fault"}
           /\ flags' \in Words \X Words /\ typed' = typed /\ printed' = printed
  <1> DEFINE i == Fetched
  <1>1. Fine(rip, regs, stack, ram)
    BY DEF MachineInv, Execute
  <1>2. flags \in Words \X Words /\ state \in {"running", "exit", "fault"}
    BY DEF MachineInv
  <1>3. \/ Fault(i) \/ Push(i) \/ PopReg(i) \/ PopMem(i) \/ AddSub(i) \/ Mov(i)
        \/ MulDiv(i) \/ Cmp(i) \/ Jcc(i) \/ Jump(i) \/ Ret(i)
    <2>1. \A f \in LibFuncs : LibAddr[f] \in Library
      BY LibraryApart
    <2>2. rip \notin Library => ~stdlib_inp /\ ~stdlib_out /\ ~stdlib_sqrt /\ ~stdlib_halt
      BY <2>1 DEF stdlib_inp, stdlib_out, stdlib_sqrt, stdlib_halt, LibFuncs
    <2> QED
      BY <2>2 DEF Execute
  <1>4. CASE Fault(i)
    BY <1>1, <1>2, <1>4 DEF Fault
  <1>5. CASE Push(i)
    BY <1>1, <1>2, <1>5, PushFine DEF Push, Step
  <1>6. CASE PopReg(i)
    BY <1>1, <1>2, <1>6, PopRegFine DEF PopReg, Step
  <1>7. CASE PopMem(i)
    BY <1>1, <1>2, <1>7, PopMemFine DEF PopMem, Step
  <1>8. CASE AddSub(i)
    BY <1>1, <1>2, <1>8, AddSubFine DEF AddSub, Step
  <1>9. CASE Mov(i)
    BY <1>1, <1>2, <1>9, MovFine DEF Mov, Step
  <1>10. CASE MulDiv(i)
    BY <1>1, <1>2, <1>10, MulDivFine DEF MulDiv, Step
  <1>11. CASE Cmp(i)
    BY <1>1, <1>2, <1>11, CmpFine DEF Cmp, Step
  <1>12. CASE Jcc(i)
    BY <1>1, <1>2, <1>12, JccFine DEF Jcc
  <1>13. CASE Jump(i)
    BY <1>1, <1>2, <1>13, JumpFine DEF Jump
  <1>14. CASE Ret(i)
    BY <1>1, <1>2, <1>14, RetFine DEF Ret
  <1> QED
    BY <1>3, <1>4, <1>5, <1>6, <1>7, <1>8, <1>9, <1>10, <1>11, <1>12, <1>13, <1>14

\* ... and so do the functions of the library.
LEMMA LibraryFine ==
    ASSUME Settled, Linked, MachineInv, Execute, rip \in Library
    PROVE  /\ Fine(rip', regs', stack', ram') /\ state' \in {"running", "exit", "fault"}
           /\ flags' \in Words \X Words /\ typed' \in Seq(Typed) /\ printed' \in Seq(Texts)
  <1>1. Fine(rip, regs, stack, ram)
    BY DEF MachineInv, Execute
  <1>2. /\ flags \in Words \X Words /\ state \in {"running", "exit", "fault"}
        /\ typed \in Seq(Typed) /\ printed \in Seq(Texts)
    BY DEF MachineInv
  <1>3. stdlib_inp \/ stdlib_out \/ stdlib_sqrt \/ stdlib_halt
    BY DEF Execute
  <1>4. regs[REGS.RDI].kind = "num" => regs[REGS.RDI].v \in Int
    BY <1>1 DEF Fine, Kept, Words, REGS, REG_NUMBERS
  <1>5. CASE stdlib_inp
    <2>1. PICK t \in Typed : typed' = Append(typed, t) /\ Returns(Lost \ {REGS.R8}, Num(input_asm(t.line)))
      BY <1>5 DEF stdlib_inp
    <2>2. Safe(Num(input_asm(t.line)))
      BY InputType, SafeWords
    <2>3. Fine(rip', regs', stack', ram')
      BY <1>1, <2>1, <2>2, ReturnsFine
    <2> QED
      BY <1>2, <1>5, <2>1, <2>3 DEF stdlib_inp, Returns
  <1>6. CASE stdlib_out
    <2> DEFINE a == regs[REGS.RDI]
               t == IF a.kind = "num" THEN output_asm(a.v) ELSE << >>
    <2>1. printed' = Append(printed, t) /\ Returns(Lost, Undetermined) /\ typed' = typed
      BY <1>6 DEF stdlib_out
    <2>2. t \in Texts
      <3>1. << >> \in Texts
        BY DEF Texts
      <3> QED
        BY <1>4, <3>1, OutputText
    <2> HIDE DEF t
    <2>3. Fine(rip', regs', stack', ram')
      BY <1>1, <2>1, SafeWords, ReturnsFine
    <2>4. printed' \in Seq(Texts)
      BY <1>2, <2>1, <2>2
    <2> QED
      BY <1>2, <2>1, <2>3, <2>4 DEF Returns
  <1>7. CASE stdlib_sqrt
    <2> DEFINE a == regs[REGS.RDI]
               w == IF a.kind = "num" THEN Num(sqrt_asm(a.v)) ELSE Undetermined
    <2>1. Returns({REGS.RDI}, w) /\ typed' = typed /\ printed' = printed
      BY <1>7 DEF stdlib_sqrt
    <2>2. Safe(w)
      BY <1>4, SqrtType, SafeWords
    <2> HIDE DEF w
    <2>3. Fine(rip', regs', stack', ram')
      BY <1>1, <2>1, <2>2, ReturnsFine
    <2> QED
      BY <1>2, <2>1, <2>3 DEF Returns
  <1>8. CASE stdlib_halt
    BY <1>1, <1>2, <1>8 DEF stdlib_halt
  <1> QED
    BY <1>3, <1>5, <1>6, <1>7, <1>8

LEMMA MachineSteps ==
    ASSUME Linked, TypeInv, TextInv, JumpsLand, MachineInv, [MachineNext]_all
    PROVE  MachineInv'
  <1>1. CASE Compile
    <2>1. rip = 0
      BY <1>1 DEF Compile, MachineInv
    <2> QED
      BY <1>1, <2>1 DEF Compile, processor, MachineInv
  <1>2. CASE execute
    <2>1. Settled /\ UNCHANGED vars /\ status' = status /\ status = "OK"
      BY <1>2 DEF Settled, execute, vars
    <2>2. Fine(rip', regs', stack', ram') /\ rip' # 0
      BY <1>2, <2>1, ExecuteFine, FineNotZero
    <2>3. Fine(rip, regs, stack, ram)'
      BY <2>1, <2>2, FineStays
    <2> QED
      BY <1>2, <2>1, <2>2, <2>3 DEF execute, MachineInv
  <1>3. CASE Execute
    <2>1. Settled /\ UNCHANGED vars /\ status' = status /\ status = "OK"
      BY <1>3 DEF Settled, Execute, vars
    <2>2. /\ Fine(rip', regs', stack', ram') /\ state' \in {"running", "exit", "fault"}
          /\ flags' \in Words \X Words /\ typed' \in Seq(Typed) /\ printed' \in Seq(Texts)
      <3>1. CASE rip \in Library
        BY <1>3, <2>1, <3>1, LibraryFine
      <3>2. CASE rip \notin Library
        BY <1>3, <2>1, <3>2, FetchedFine DEF MachineInv
      <3> QED
        BY <3>1, <3>2
    <2>3. rip' # 0
      BY <2>1, <2>2, FineNotZero
    <2>4. Fine(rip, regs, stack, ram)'
      BY <2>1, <2>2, FineStays
    <2> QED
      BY <2>1, <2>2, <2>3, <2>4 DEF MachineInv
  <1>4. CASE UNCHANGED all
    <2>1. UNCHANGED vars /\ status' = status /\ UNCHANGED processor
      BY <1>4 DEF all, vars
    <2>2. rip' = rip /\ regs' = regs /\ stack' = stack /\ ram' = ram
      BY <2>1 DEF processor
    <2>3. rip # 0 => Fine(rip, regs, stack, ram)'
      <3>1. rip # 0 => Fine(rip', regs', stack', ram')
        BY <2>2 DEF MachineInv
      <3> QED
        BY <2>1, <3>1, FineStays
    <2> QED
      BY <2>1, <2>2, <2>3 DEF processor, MachineInv
  <1> QED
    BY <1>1, <1>2, <1>3, <1>4 DEF MachineNext, Stopped

\* The machine takes the steps of the translation, and no others of its own.
LEMMA MachineTranslates ==
    /\ MachineInit => Init
    /\ [MachineNext]_all => [Next]_vars
  <1>1. MachineInit => Init
    BY DEF MachineInit
  <1>2. ASSUME [MachineNext]_all PROVE [Next]_vars
    <2>1. Compile => Next
      BY DEF Compile
    <2>2. execute \/ Execute \/ Stopped \/ UNCHANGED all => UNCHANGED vars
      BY DEF execute, Execute, Stopped, all
    <2> QED
      BY <1>2, <2>1, <2>2 DEF MachineNext
  <1> QED
    BY <1>1, <1>2

LEMMA MachineInvariant ==
    ASSUME Linked, AllocMayFail = FALSE, \A p \in Programs : Reachable(Len(p))
    PROVE  MachineSpec => [](TypeInv /\ TextInv /\ JumpsLand /\ MachineInv)
  <1>1. MachineSpec => Spec
    BY MachineTranslates, PTL DEF MachineSpec, Spec
  <1>2. Spec => []TypeInv
    BY TypeInvariant
  <1>3. Spec => []TextInv
    BY TypeInvariant, TextInit, TextNext, PTL DEF Spec
  <1>4. Spec => []JumpsLand
    BY JumpsLandInBinary DEF Linked
  <1>5. TypeInv /\ TextInv /\ JumpsLand /\ MachineInv /\ [MachineNext]_all => MachineInv'
    BY MachineSteps
  <1> QED
    BY <1>1, <1>2, <1>3, <1>4, <1>5, MachineBegins, PTL DEF MachineSpec

\* Whatever the program computes: the processor is never sent anywhere but to
\* the x64 instructions that translate_from_ir has written, the end of the code
\* and the library, and all that it keeps has its type.
THEOREM MachineTyped ==
    ASSUME Linked, AllocMayFail = FALSE, \A p \in Programs : Reachable(Len(p))
    PROVE  MachineSpec => []MachineTypeOK
  <1>1. TypeInv /\ TextInv /\ JumpsLand /\ MachineInv => MachineTypeOK
    <2> SUFFICES ASSUME TypeInv, TextInv, JumpsLand, MachineInv PROVE MachineTypeOK
      OBVIOUS
    <2>1. CASE rip = 0
      <3>1. regs \in [REG_NUMBERS -> Words] /\ stack \in Seq(Words) /\ DOMAIN ram = {}
        BY <2>1, SafeWords DEF MachineInv
      <3> QED
        BY <2>1, <3>1 DEF MachineInv, MachineTypeOK
    <2>2. CASE rip # 0
      <3>1. Settled /\ Fine(rip, regs, stack, ram)
        BY <2>2 DEF Settled, MachineInv
      <3>2. rip \in {CodeEnd} \cup {base_addr + text[e].at : e \in DOMAIN text} \cup Library
        <4>1. DOMAIN text = 1 .. Len(text)
          BY DEF TypeInv, TypeOK
        <4> QED
          BY <3>1, <4>1 DEF Fine, Arrived, Place
      <3>3. /\ regs \in [REG_NUMBERS -> Words] /\ stack \in Seq(Words)
            /\ \A a \in DOMAIN ram : a \in 0 .. RAMSIZE - QWORD /\ ram[a] \in Words
        BY <3>1 DEF Fine, Kept, Safe
      <3> QED
        BY <3>2, <3>3 DEF MachineInv, MachineTypeOK
    <2> QED
      BY <2>1, <2>2
  <1> QED
    BY <1>1, MachineInvariant, PTL

\* Between two groups r8 holds the address of ram, though the library does not
\* save it: what a group pushes in front of a call comes back behind it.
THEOREM RamPointerStays ==
    ASSUME Linked, AllocMayFail = FALSE, \A p \in Programs : Reachable(Len(p))
    PROVE  MachineSpec => []RamPointerKept
  <1>1. TypeInv /\ TextInv /\ JumpsLand /\ MachineInv => RamPointerKept
    <2> SUFFICES ASSUME TypeInv, TextInv, JumpsLand, MachineInv, rip > base_addr, AtGroup(rip)
                 PROVE  regs[REGS.R8] = Num(ram_addr)
      BY DEF RamPointerKept
    <2>1. rip # 0
      <3>1. base_addr \in Nat
        BY AddressAssumption DEF TypeInv, TypeOK, base_addr, Linked
      <3> QED
        BY <3>1
    <2>2. Settled /\ Fine(rip, regs, stack, ram)
      BY <2>1 DEF Settled, MachineInv
    <2>3. CASE rip = CodeEnd
      <3>1. rip \notin Library
        BY <2>2, <2>3, LibraryApart
      <3> QED
        BY <2>2, <2>3, <3>1 DEF Fine, Arrived
    <2>4. CASE rip # CodeEnd
      <3>1. DOMAIN text = 1 .. Len(text)
        BY DEF TypeInv, TypeOK
      <3>2. PICK d \in 1 .. Len(text) : rip = Place(d) /\ text[d].k = 1 /\ text[d].cur > 0
        BY <2>4, <3>1 DEF AtGroup, GroupsAt, Place
      <3>3. rip \notin Library
        BY <2>2, <3>2, LibraryApart
      <3>4. text[d].cur # 0
        BY <2>2, <3>2, LaidEntry
      <3>5. ~Backs(text[d].x)
        BY <2>2, <3>2, <3>4, LaidMember DEF Ordinary
      <3>6. Ready(d, regs, stack)
        BY <2>2, <3>2, <3>3 DEF Fine, Arrived
      <3> QED
        BY <3>4, <3>5, <3>6 DEF Ready
    <2> QED
      BY <2>3, <2>4
  <1> QED
    BY <1>1, MachineInvariant, PTL

\* All that output_asm writes is a number with two decimal digits.
THEOREM OutputIsReadable ==
    ASSUME Linked, AllocMayFail = FALSE, \A p \in Programs : Reachable(Len(p))
    PROVE  MachineSpec => []OutputReadable
  <1>1. MachineInv => OutputReadable
    <2> SUFFICES ASSUME MachineInv, NEW i \in DOMAIN printed, printed[i] # << >>
                 PROVE  Readable(printed[i])
      BY DEF OutputReadable
    <2>1. printed \in Seq(Texts)
      BY DEF MachineInv
    <2>2. printed[i] \in Texts
      BY <2>1, SeqElement
    <2> QED
      BY <2>2 DEF Texts
  <1> QED
    BY <1>1, MachineInvariant, PTL

\* The bytes of every x64 instruction that encode_one_ir_instruction makes of an
\* IR instruction are read by the processor as that instruction, with its
\* registers and the size of its immediate; those of "none" are no instruction.
THEOREM DecodesWhatIsEncoded ==
    ASSUME NEW i \in Instr, NEW j \in 1 .. Len(encode_one_ir_instruction(i))
    PROVE  LET x == encode_one_ir_instruction(i)[j]
           IN  decode(Head_(x)) = IF x.op = "none" THEN Garbage ELSE Meant(x)
  <1> DEFINE x == encode_one_ir_instruction(i)[j]
  <1>1. Shape(x)
    BY EncodingBuilt DEF Built, Member
  <1> QED
    BY <1>1, ShapeDecoded
=============================================================================
