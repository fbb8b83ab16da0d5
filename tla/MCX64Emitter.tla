---------------------------- MODULE MCX64Emitter ----------------------------
(***************************************************************************)
(* Small instances of X64Emitter: every IR program of at most three        *)
(* instructions over an alphabet with one member for each shape of group,  *)
(* with jumps and calls to every instruction of the program.               *)
(***************************************************************************)
EXTENDS X64Emitter

MCLibAddr == [f \in LibFuncs |-> CASE f = "INP" -> 10 [] f = "OUT" -> 11
                                   [] f = "SQRT" -> 12 [] f = "HALT" -> 13]

Straight == {WithImm("PUSH", 2), WithReg("POP", 3), WithMem("PUSH", 3, 1), Plain("PUSH"),
             Plain("ADD"), Plain("MUL"), Plain("DIV"),
             Plain("SQRT"), Plain("OUT"), Plain("HALT"), Plain("RET")}
Transfers(n) == {WithImm(t, i) : t \in {"JMP", "CALL", "JE", "JA"}, i \in 0 .. n - 1}

ProgramsOf(n) == [1 .. n -> Straight \cup Transfers(n)]
ShortPrograms == UNION {ProgramsOf(n) : n \in 0 .. 2}
\* Three instructions, the first or the last one a transfer of control.
LongPrograms  == {p \in [1 .. 3 -> {Plain("MUL"), WithMem("POP", 3, 1), Plain("SQRT")}
                                       \cup Transfers(3)] :
                     IsTransfer(p[1]) \/ IsTransfer(p[3])}
MCPrograms == ShortPrograms \cup LongPrograms

\* Four instructions, so that the translator grows at the first, the second
\* and the third insertion, into groups of several x64 instructions.
MemoryPrograms == [1 .. 4 -> {Plain("MUL"), Plain("ADD"), Plain("RET"), WithImm("JE", 2)}]

\* Programs for the finding runs.
GrowingPrograms == {<< WithImm("JE", 2), Plain("MUL"), Plain("HALT") >>}
BigLiterals     == {<< WithImm("PUSH", n), Plain("HALT") >> : n \in 0 .. 10}
=============================================================================
