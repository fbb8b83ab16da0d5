----------------------------- MODULE StackTypes -----------------------------
(***************************************************************************)
(* What is known of the stack where an instruction of the compiled code    *)
(* begins, as a verifier of byte code would derive it: in a function, how  *)
(* many words lie on top of what its caller had left; in the moves of the  *)
(* frame (convert_func_call) and in convert_ret, what the topmost words    *)
(* are.  Outside functions nothing is known of the height.                 *)
(*                                                                         *)
(* Grammar says which trees have such code: a statement of a function      *)
(* leaves the stack as it was.                                             *)
(***************************************************************************)
EXTENDS AstConverter

\* The return address counts: it is the lowest word of the `height` words.
Stages == {"rest",                         \* between the sequences below
            "operand",                      \* behind a PUSH or POP whose operand is not known
            "start",                        \* emit_code_begin: a number is on the top
            "frame", "size", "sum",         \* rdx, the size, and their sum on the top
            "moved",                        \* rdx is at the frame of the function
            "top", "top_size", "back",      \* rdx, the size, and their difference on the top
            "taken", "result", "return"}    \* the return address is in rcx, or on the top
Types == [func : BOOLEAN, height : Nat, at : Stages, size : Nat]

InMain(p)       == [func |-> FALSE, height |-> 0, at |-> p, size |-> 0]
InFunc(h, p, n) == [func |-> TRUE, height |-> h, at |-> p, size |-> n]
Main  == InMain("rest")
Entry == InFunc(1, "rest", 0)

\* k words more; at least k words above the return address.
By(x, k, p, n) == IF x.func THEN InFunc(x.height + k, p, n) ELSE InMain(p)
Above(x, k)    == x.func => x.height > k

\* Behind a function without RETURN the code of the program goes on.
Weaker(x, y) == y = x \/ (x.at = "rest" /\ y = Main)
-----------------------------------------------------------------------------
\* The words that an instruction takes and leaves.
Taken(i)  == IF i.type \in BinaryOps \cup Jumps THEN 2
             ELSE IF i.type \in {"POP", "OUT"} \cup UnaryOps THEN 1 ELSE 0
Left(i)   == IF i.type \in {"PUSH", "INP"} \cup BinaryOps \cup UnaryOps THEN 1 ELSE 0
HasOperand(i) == i.type \in {"PUSH", "POP"} => i.need_imm_arg \/ i.need_reg_arg
IntoRdx(i) == i.type = "POP" /\ ~i.need_mem_arg /\ i.reg_num = REG_RDX

\* A statement or an expression.
Ordinary(i, x, y) ==
    /\ i.type \in {"PUSH", "POP", "INP", "OUT"} \cup BinaryOps \cup UnaryOps \cup Jumps
    /\ ~IntoRdx(i) /\ x.at = "rest" /\ Above(x, Taken(i))
    /\ y = By(x, Left(i) - Taken(i), IF HasOperand(i) THEN "rest" ELSE "operand", 0)

\* rdx is set to zero.
ZeroesRdx(i, x, y) ==
    \/ i.type = "PUSH" /\ i = WithImm("PUSH", i.imm_arg) /\ x = Main /\ y = InMain("start")
    \/ i = WithReg("POP", REG_RDX) /\ x = InMain("start") /\ y = Main

\* rdx is moved by the size of the frame, and back.
Moves(i, x, y) ==
    \/ /\ i = WithReg("PUSH", REG_RDX)
       /\ \/ x.at = "rest"  /\ Above(x, 0) /\ y = By(x, 1, "frame", 0)
          \/ x.at = "moved" /\ y = By(x, 1, "top", x.size)
    \/ /\ i.type = "PUSH" /\ i = WithImm("PUSH", i.imm_arg) /\ i.imm_arg \in Nat
       /\ \/ x.at = "frame" /\ y = By(x, 1, "size", i.imm_arg)
          \/ x.at = "top" /\ (x.func => i.imm_arg = x.size) /\ y = By(x, 1, "top_size", x.size)
    \/ i.type = "ADD" /\ x.at = "size" /\ y = By(x, -1, "sum", x.size)
    \/ i.type = "SUB" /\ x.at = "top_size" /\ y = By(x, -1, "back", x.size)
    \/ /\ i = WithReg("POP", REG_RDX)
       /\ \/ x.at = "sum"  /\ y = By(x, -1, "moved", x.size)
          \/ x.at = "back" /\ y = By(x, -1, "rest", 0)

\* The arguments, and the result in the place of the return address.
PassesOn(i, x, y) ==
    /\ x.at = "moved"
    /\ \/ i.type = "POP" /\ i.need_mem_arg /\ Above(x, 1) /\ y = By(x, -1, "moved", x.size)
       \/ i.type = "CALL" /\ Above(x, 0) /\ y = By(x, 1, "moved", x.size)

\* The return address is dug out from under the result.
Returns(i, x, y) ==
    \/ i = WithReg("POP", REG_RBX)  /\ x = Entry /\ y = InFunc(0, "taken", 0)
    \/ i = WithReg("PUSH", REG_RAX) /\ x = InFunc(0, "taken", 0) /\ y = InFunc(1, "result", 0)
    \/ i = WithReg("PUSH", REG_RBX) /\ x = InFunc(1, "result", 0) /\ y = InFunc(2, "return", 0)

\* The instruction i, where x holds, makes y hold at the next instruction.
Effect(i, x, y) ==
    Ordinary(i, x, y) \/ ZeroesRdx(i, x, y) \/ Moves(i, x, y) \/ PassesOn(i, x, y) \/ Returns(i, x, y)
NoNext == {"JMP", "RET", "HALT"}

\* What holds where a jump leads.
AtTarget(i, x) == By(x, -Taken(i), "rest", 0)

\* The types agree with the code: ty[k] holds where code[k] begins.
WellTyped(code, ty) ==
    /\ ty \in Seq(Types) /\ Len(ty) = Len(code) + 1 /\ ty[1] = Main
    /\ \A k \in 1 .. Len(code) :
          LET i == code[k]
          IN  /\ i.type \notin NoNext => \E y \in Types : Effect(i, ty[k], y) /\ Weaker(y, ty[k + 1])
              /\ i.type = "RET" => ty[k] = InFunc(2, "return", 0)
              /\ i.type \in {"JMP"} \cup Jumps => ty[k].at = "rest"
              /\ i.type \in {"JMP"} \cup Jumps /\ Inside(code, i.imm_arg) =>
                    Weaker(AtTarget(i, ty[k]), ty[i.imm_arg + 1])
              /\ i.type = "CALL" /\ Inside(code, i.imm_arg) => Weaker(Entry, ty[i.imm_arg + 1])
-----------------------------------------------------------------------------
\* The programs: the nodes that stand outside functions, the statements in
\* functions, the lists of arguments with their numbers, and the expressions.
NotCall(n) == n # nullptr => n.type # "FUNC_CALL"

\* Anything but RETURN, and functions that are not defined in one another.
OutsideFunctions(g) ==
    \A n \in g.main : n # nullptr =>
        /\ n.type # "RETURN"
        /\ IF n.type = "FUNC_DEF" THEN n.right \in g.body /\ NotCall(n.right)
           ELSE n.left \in g.main /\ n.right \in g.main

\* A call whose result is not used stands in a list of statements: anywhere else
\* in a function it would leave its result on the stack.
InFunctions(g) ==
    \A n \in g.body : n # nullptr =>
        \/ n.type = "FICTIOUS" /\ n.left \in g.body /\ n.right \in g.body
        \/ n.type = "VAR_DEF"
        \/ n.type = "OP" /\ n.data = "ASSIG" /\ n.right \in g.expr
        \/ /\ n.type = "IF" /\ n.left \in g.expr
           /\ \A b \in {n.right.left, n.right.right} : b \in g.body /\ NotCall(b)
        \/ n.type = "WHILE" /\ n.left \in g.expr /\ n.right \in g.body /\ NotCall(n.right)
        \/ n.type = "FUNC_CALL" /\ n.right \in g.args
        \/ n.type = "RETURN" /\ n.right \in g.expr

ArgumentLists(g) ==
    \A n \in g.args :
        /\ g.count[n] \in Nat
        /\ IF n = nullptr THEN g.count[n] = 0
           ELSE IF n.type = "FICTIOUS"
           THEN /\ n.left \in g.args /\ n.right \in g.args
                /\ g.count[n] = g.count[n.left] + g.count[n.right]
           ELSE n \in g.expr /\ g.count[n] = 1

Expressions(g) ==
    \A n \in g.expr :
        /\ n # nullptr
        /\ \/ n.type \in {"VAL", "VAR"}
           \/ n.type = "FUNC_CALL" /\ n.right \in g.args
           \/ /\ n.type = "OP" /\ n.data # "ASSIG"
              /\ n.data # "INPUT" => n.right \in g.expr
              /\ n.data \in BinaryOps \cup Comparators \cup {"AND", "OR"} => n.left \in g.expr

Grammar(g, heads) == /\ heads \subseteq g.main /\ nullptr \in g.main /\ nullptr \in g.body
                     /\ OutsideFunctions(g) /\ InFunctions(g) /\ ArgumentLists(g) /\ Expressions(g)
WellFormed(heads) == \E g : Grammar(g, heads)
=============================================================================
