----------------------------- MODULE X64Emitter -----------------------------
(***************************************************************************)
(* The back end (src/src/x64/x64.cpp): translate_from_ir walks the IR      *)
(* twice.  The first pass only measures, and records in the address        *)
(* translator where each IR instruction will begin; the second writes the  *)
(* bytes into exec_buf, asks the translator for the targets of jumps, and  *)
(* grows the buffer.  A step is one call of emit_instruction, so the state  *)
(* of the buffer is visible between the x64 instructions of one group.     *)
(***************************************************************************)
EXTENDS X64Encoding, AddrTransl

CONSTANTS Programs,        \* the IR programs to compile
          Outputs,         \* output modes: a subset of {"JIT", "BINARY"}
          BufAddrs,        \* addresses mmap and mremap may return for exec_buf
          RamAddrs,        \* addresses mmap may return for ram_buf
          MremapMayFail,   \* whether mremap may return MAP_FAILED
          CODE_BASE_ADDR,  \* 0x402000 in the source
          RAM_BASE_ADDR,   \* 0x405000 in the source
          PAGE_SIZE        \* first capacity of exec_buf, 4096 in the source

MAP_FAILED == -1
PASS_INDEX_TO_CALC_OFFSETS == 0
PASS_INDEX_TO_WRITE        == 1
ThreePasses                == 3
TOTAL_PASS_COUNT           == 2

ASSUME ProgramsAssumption  == Programs \subseteq Seq(Instr)
ASSUME OutputsAssumption   == Outputs \subseteq {"JIT", "BINARY"}
ASSUME AddressAssumption   == /\ BufAddrs \subseteq Nat /\ RamAddrs \subseteq Nat
                              /\ CODE_BASE_ADDR \in Nat /\ RAM_BASE_ADDR \in Nat
ASSUME MremapAssumption    == MremapMayFail \in BOOLEAN
ASSUME PageSizeAssumption  == PAGE_SIZE \in Nat /\ PAGE_SIZE > EXEC_BUF_THRESHOLD

VARIABLES
    output_type, ir,        \* the arguments; they never change
    pass_index,
    cur,                    \* 0: emit_code_preparation; i: the i-th IR instruction
    k,                      \* 0: at the head of the loop; j: at the j-th instruction of the group
    exec_buf, exec_buf_capacity, exec_buf_size, ram_buf, addr_transl,
    text,                   \* what exec_buf holds: [at, x, cur, k] in the order of writing
    status                  \* "running", "OK", "ERROR", "abort" (an assertion), "crash"

args    == << output_type, ir, ram_buf >>
buffer  == << exec_buf, exec_buf_capacity >>
vars    == << args, pass_index, cur, k, buffer, exec_buf_size, addr_transl, text, status >>

Statuses == {"running", "OK", "ERROR", "abort", "crash"}
Entries  == [at : Nat, x : X64Instr, cur : Nat, k : Nat \ {0}]

TypeOK ==
    /\ output_type \in Outputs /\ ir \in Programs
    /\ pass_index \in 0 .. TOTAL_PASS_COUNT
    /\ cur \in 0 .. Len(ir) + 1 /\ k \in Nat
    /\ exec_buf \in BufAddrs \cup {MAP_FAILED} /\ exec_buf_capacity \in Nat
    /\ exec_buf_size \in Nat /\ ram_buf \in RamAddrs
    /\ addr_transl \in Translators
    /\ text \in Seq(Entries)
    /\ status \in Statuses
-----------------------------------------------------------------------------
ram_addr  == IF output_type = "JIT" THEN ram_buf ELSE RAM_BASE_ADDR
base_addr == IF output_type = "JIT" THEN exec_buf ELSE CODE_BASE_ADDR

\* The group of the IR instruction at a position, and the one being emitted.
GroupOf(c) == IF c = 0 THEN emit_code_preparation(ram_addr) ELSE encode_one_ir_instruction(ir[c])
Group      == GroupOf(cur)

\* code_ctor; the failures of mmap belong to code_new.
Init ==
    /\ output_type \in Outputs /\ ir \in Programs
    /\ exec_buf \in BufAddrs /\ ram_buf \in RamAddrs
    /\ exec_buf_capacity = PAGE_SIZE /\ exec_buf_size = 0
    /\ addr_transl = addr_transl_new
    /\ pass_index = 0 /\ cur = 0 /\ k = 1
    /\ text = << >> /\ status = "running"

\* The head of the loop of translate_from_ir.  The index is remembered before
\* the encoder is called, and in the first pass only.
NextIr ==
    /\ status = "running" /\ k = 0 /\ cur <= Len(ir)
    /\ LET remembered == IF pass_index = PASS_INDEX_TO_CALC_OFFSETS
                         THEN addr_transl_remember_old_addr(addr_transl, cur - 1)
                         ELSE Outcome("OK", addr_transl)
       IN  /\ addr_transl' = remembered.t
           /\ k' = 1
           /\ status' = IF remembered.res = "ERROR" THEN "ERROR"
                        ELSE IF Group = << >> THEN "abort" ELSE "running"
    /\ UNCHANGED << args, pass_index, cur, buffer, exec_buf_size, text >>

AdvanceTwice ==
    IF k < Len(Group) THEN k' = k + 1 /\ cur' = cur ELSE k' = 0 /\ cur' = cur + 2
\* On to the next x64 instruction of the group, or to the next IR instruction.
Advance == IF k < Len(Group) THEN k' = k + 1 /\ cur' = cur ELSE k' = 0 /\ cur' = cur + 1

AtInstruction(pass) == status = "running" /\ pass_index = pass /\ k > 0

emit_instruction_calc_offset ==
    /\ AtInstruction(PASS_INDEX_TO_CALC_OFFSETS)
    /\ \E o \in addr_transl_insert_if_remembered_addr(addr_transl, base_addr + exec_buf_size) :
          addr_transl' = o.t     \* the result is not looked at
    /\ exec_buf_size' = exec_buf_size + CommandSize(Group[k])
    /\ Advance
    /\ UNCHANGED << args, pass_index, buffer, text, status >>

\* The instruction with its immediate, as the emit_* function passes it.
Resolved(x) ==
    LET target == addr_transl_translate(addr_transl, ir[cur].imm_arg)
    IN  CASE x.fix = "none" -> x
          [] x.fix = "abs"  -> [x EXCEPT !.imm = target]
          [] x.fix = "rel"  -> [x EXCEPT !.imm = Imm32(target - (base_addr + exec_buf_size + 6))]

GrowWhenFull(size) ==
    IF size >= exec_buf_capacity
    THEN exec_buf' \in BufAddrs /\ exec_buf_capacity' = 2 * exec_buf_capacity
    ELSE UNCHANGED buffer
resize_if_needed(size) ==
    IF size + EXEC_BUF_THRESHOLD >= exec_buf_capacity
    THEN /\ exec_buf' \in BufAddrs \cup (IF MremapMayFail THEN {MAP_FAILED} ELSE {})
         /\ exec_buf_capacity' = 2 * exec_buf_capacity
    ELSE UNCHANGED buffer

emit_instruction_write ==
    /\ AtInstruction(PASS_INDEX_TO_WRITE) /\ exec_buf # MAP_FAILED
    /\ text' = Append(text, [at |-> exec_buf_size, x |-> Resolved(Group[k]), cur |-> cur, k |-> k])
    /\ exec_buf_size' = exec_buf_size + WrittenBytes(Group[k])
    /\ resize_if_needed(exec_buf_size')
    /\ Advance
    /\ UNCHANGED << args, pass_index, addr_transl, status >>

\* The result of mremap is not looked at: the next write faults.
WriteFaults ==
    /\ AtInstruction(PASS_INDEX_TO_WRITE) /\ exec_buf = MAP_FAILED
    /\ status' = "crash"
    /\ UNCHANGED << args, pass_index, cur, k, buffer, exec_buf_size, addr_transl, text >>

\* The end of the IR: the size is kept after the last pass for save().
start_new_pass ==
    /\ status = "running" /\ k = 0 /\ cur = Len(ir) + 1
    /\ pass_index' = pass_index + 1
    /\ IF pass_index + 1 < TOTAL_PASS_COUNT
       THEN exec_buf_size' = 0 /\ cur' = 0 /\ k' = 1 /\ status' = "running"
       ELSE UNCHANGED << exec_buf_size, cur, k >> /\ status' = "OK"
    /\ UNCHANGED << args, buffer, addr_transl, text >>

Terminated == status # "running" /\ UNCHANGED vars

Next == \/ NextIr \/ emit_instruction_calc_offset \/ emit_instruction_write
        \/ WriteFaults \/ start_new_pass \/ Terminated

Spec == Init /\ [][Next]_vars
\* The compiler is a sequential program: it runs while it can.
FairSpec == Spec /\ WF_vars(Next)
-----------------------------------------------------------------------------
\* The buffer always has room for the x64 instruction that is about to be
\* written: resize_if_needed looks ahead by EXEC_BUF_THRESHOLD bytes and only
\* after a write, so the first page and every doubling must leave that much.
RoomForNext ==
    AtInstruction(PASS_INDEX_TO_WRITE)
        => exec_buf_size + WrittenBytes(Group[k]) <= exec_buf_capacity

\* Where the processor goes from a written jump or call.
Landing(e) == CASE e.x.fix = "abs" -> e.x.imm
                [] e.x.fix = "rel" -> base_addr + e.at + WrittenBytes(e.x) + e.x.imm

\* Every jump and call that has been written leads to the first byte of the
\* code of the IR instruction it names, once that one is written too: what the
\* first pass measured is where the second pass wrote.
JumpsLand ==
    \A d, e \in DOMAIN text :
        /\ text[d].x.fix # "none"
        /\ text[e].cur > 0 /\ text[e].k = 1 /\ text[e].cur - 1 = ir[text[d].cur].imm_arg
        => Landing(text[d]) = base_addr + text[e].at

\* As long as memory lasts translate_from_ir returns no error and does not
\* crash: the one-place slot of the translator is free again at every head of
\* the loop, because the group of every IR instruction is emitted in between.
NoSpuriousError == status \notin {"ERROR", "crash"}

\* Even when realloc fails in the middle of the first pass, and the insertion
\* is retried by a later call, an IR index is never translated to code of
\* another IR instruction.
MappedToOwnGroup ==
    \A i \in DOMAIN addr_transl.mappings, e \in DOMAIN text :
        LET m == addr_transl.mappings[i]
        IN  m.new_addr = CODE_BASE_ADDR + text[e].at => m.old_addr = text[e].cur - 1

\* If translate_from_ir returns OK then every IR instruction but the last one
\* has an address: a failed insertion is found out at the next head of the loop.
OkMeansMapped ==
    status = "OK" =>
        \A i \in 0 .. Len(ir) - 2 : addr_transl_translate(addr_transl, i) # ERROR

\* A literal, a signed 64 bit number by README.md:34, is pushed as it is, in
\* hundredths.
LiteralsExact ==
    \A e \in DOMAIN text :
        text[e].x.op = "PUSH_imm" =>
            text[e].x.imm = FIXED_PRECISION_MULTIPLIER * ir[text[e].cur].imm_arg

\* translate_from_ir comes to an end, one way or another.
Terminates == <>(status # "running")
=============================================================================
