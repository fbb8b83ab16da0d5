-------------------------- MODULE CompiledProgram ---------------------------
(***************************************************************************)
(* A program from its tree to its output: AstConverter compiles the tree,  *)
(* then IrMachine executes the code.  The properties state the discipline  *)
(* of stack and frames that calls and returns depend on; CompiledMeaning   *)
(* compares the output with what the language says.                        *)
(***************************************************************************)
EXTENDS AstConverter

CONSTANTS InputValues, RAMSIZE   \* of the machine

ASSUME RamAssumption   == RAMSIZE \in Nat
ASSUME InputAssumption == InputValues \subseteq Int

VARIABLES pc, stack, ram, regs, input, out, state,
          calls   \* history: the calls in progress, with the state at the CALL

Machine == INSTANCE IrMachine
machine == << pc, stack, ram, regs, input, out, state, calls >>
all     == << vars, machine >>

CompileAndRunInit == Init /\ Machine!MachineInit /\ calls = << >>

Compile == status = "running" /\ Next /\ UNCHANGED machine

\* What the history records of the instruction that is executed.
Record(type) ==
    calls' = CASE type = "CALL" ->
                    << [ret |-> pc + 1, depth |-> Len(stack), frame |-> regs[REG_RDX]] >> \o calls
               [] type = "RET" -> IF calls = << >> THEN calls ELSE Tail(calls)
               [] OTHER -> calls

Execute ==
    /\ status = "OK" /\ Machine!MachineNext
    /\ IF Inside(ir_code, pc) THEN Record(At(ir_code, pc).type) ELSE UNCHANGED calls
    /\ UNCHANGED vars

Ended == status \in {"ERROR", "abort"} \/ state # "running"

CompileAndRun == Compile \/ Execute \/ (Ended /\ UNCHANGED all)
CompileAndRunSpec == CompileAndRunInit /\ [][CompileAndRun]_all
\* One thread compiles and one runs the result; nothing makes them wait.
FairCompileAndRunSpec == CompileAndRunSpec /\ WF_all(CompileAndRun)
-----------------------------------------------------------------------------
\* The types of the machine that runs the code, and of the history.
MachineTypeOK ==
    /\ Machine!MachineTypeOK
    /\ \A i \in DOMAIN calls : calls[i] \in [ret : Nat, depth : Nat, frame : Machine!Words]

Returning == /\ status = "OK" /\ state = "running" /\ Inside(ir_code, pc)
             /\ At(ir_code, pc).type = "RET"

\* convert_ret digs the return address out from under the result with two
\* registers: when RET is executed it is on the top, the result is below it,
\* nothing else is left of the function on the stack, and rdx points to the
\* frame of the function, from which the caller subtracts its own frame_size.
ReturnsToCaller ==
    Returning =>
        /\ calls # << >> /\ Head(stack) = Machine!Code(calls[1].ret)
        /\ Len(stack) = calls[1].depth + 2
        /\ regs[REG_RDX] = calls[1].frame

\* The program stops, as all of the programs that are given to this module do
\* by the reference interpreter.
Finishes == <>Ended
=============================================================================
