---------------------------- MODULE MCX64Machine ----------------------------
(***************************************************************************)
(* IR programs that are translated and executed: every pair of             *)
(* instructions behind two numbers, with output and halt behind them; all  *)
(* fractions of a range, printed; loops, calls and recursion.              *)
(***************************************************************************)
EXTENDS X64Machine

\* enum STDLIB_BINARY_OFFSETS.
MCLibAddr == [INP |-> 4198400, OUT |-> 4198573, HALT |-> 4198895, SQRT |-> 4198907]

\* A negative number; leading zeros; a sign without digits; nothing.
MCTyped == {[line |-> << 45, 49, 50, 10 >>, number |-> -12],
            [line |-> << 48, 48, 55, 10 >>, number |-> 7],
            [line |-> << 45, 10 >>, number |-> 0], [line |-> << 10, 10 >>, number |-> 0]}

P(n) == WithImm("PUSH", n)
Out  == Plain("OUT")
Halt == Plain("HALT")
RBX_ == 3   \* the register of the frame

Words_ == {P(2), P(-3), Plain("PUSH"), WithReg("PUSH", 0), WithReg("PUSH", RBX_), WithReg("POP", RBX_),
           WithMem("PUSH", RBX_, 1), WithMem("POP", RBX_, 1), [WithMem("POP", 0, 2) EXCEPT !.need_reg_arg = FALSE],
           [WithMem("PUSH", 0, 2) EXCEPT !.need_reg_arg = FALSE],
           Plain("ADD"), Plain("SUB"), Plain("MUL"), Plain("DIV"), Plain("SQRT"), Out, Plain("INP"),
           Plain("RET"), Halt}
\* Transfers from the instruction at an index, forward.
Forward(i) == {WithImm(t, i + 2) : t \in Jumps \cup {"JMP", "CALL"}}
Pairs == {<< P(7), P(0), WithReg("POP", RBX_), P(7) >> \o << a, b >> \o << Out, Out, Halt >> :
            a \in Words_ \cup Forward(4), b \in Words_ \cup Forward(5)}

\* a / b, and its negative.
Fractions == {<< P(a), P(b), Plain("DIV"), Out, Halt >> :
                a \in {0, 1, -1, 3, -7, 10, 11, 101, 1009}, b \in {1, -1, 2, 3, -7, 9, 20, 100, -1000}}
Roots     == {<< P(a), Plain("SQRT"), Out, Halt >> : a \in {-4, 0, 1, 2, 3, 4, 50}}

\* Compare two numbers with every comparison.
Compared == {<< P(a), P(b), WithImm(j, 5), P(0), WithImm("JMP", 6), P(1), Out, Halt >> :
               a \in {-1, 0, 2}, b \in {-1, 0, 2}, j \in Jumps}

\* Counts from n down to 1 in memory and prints the squares.
Loop(n) == << P(0), WithReg("POP", RBX_), P(n), WithMem("POP", RBX_, 1),
              WithMem("PUSH", RBX_, 1), P(0), WithImm("JBE", 16),
              WithMem("PUSH", RBX_, 1), WithMem("PUSH", RBX_, 1), Plain("MUL"), Out,
              WithMem("PUSH", RBX_, 1), P(1), Plain("SUB"), WithMem("POP", RBX_, 1),
              WithImm("JMP", 4), Halt >>
\* n! by recursion, with a frame of one word per call that rbx points to; at
\* the end it is n, and the return address below it, that are exchanged.
Factorial(n) ==
    << P(0), WithReg("POP", RBX_), P(n), WithMem("POP", RBX_, 0), WithImm("CALL", 7), Out, Halt,
       \* 7: if 0 >= n return 1
       P(0), WithMem("PUSH", RBX_, 0), WithImm("JAE", 25),
       \* 10: the argument, in the next frame
       WithMem("PUSH", RBX_, 0), P(1), Plain("SUB"),
       WithReg("PUSH", RBX_), P(1), Plain("ADD"), WithReg("POP", RBX_), WithMem("POP", RBX_, 0),
       WithImm("CALL", 7),
       \* 19: back in the own frame
       WithReg("PUSH", RBX_), P(1), Plain("SUB"), WithReg("POP", RBX_),
       WithMem("PUSH", RBX_, 0), WithImm("JMP", 28),
       \* 25: 1
       P(1), P(1), WithImm("JMP", 28),
       \* 28: the product, and the return address on the top
       Plain("MUL"), WithReg("POP", 0), WithReg("POP", 1), WithReg("PUSH", 0), WithReg("PUSH", 1),
       Plain("RET") >>
Faulty_ == {<< >>, << P(1) >>, << P(1), Plain("RET") >>, << P(5), P(0), Plain("DIV"), Out, Halt >>,
            << P(4), WithReg("POP", 3), WithMem("PUSH", 3, 461), Halt >>,
            << P(4), WithReg("POP", 3), WithMem("PUSH", 3, 462), Halt >>,
            << P(-1), WithReg("POP", 3), WithMem("PUSH", 3, 12), Halt >>,
            << P(-1), WithReg("POP", 3), WithMem("PUSH", 3, 13), Out, Halt >>}

MachinePrograms == Pairs \cup Fractions \cup Roots \cup Compared \cup Faulty_
                     \cup {Loop(n) : n \in {0, 3}} \cup {Factorial(n) : n \in 0 .. 4}
\* (TLC evaluates a definition once, but the one a cfg names at every use.)
MCPrograms == MachinePrograms
=============================================================================
