------------------------- MODULE MCCompiledProgram --------------------------
(***************************************************************************)
(* Small programs that are compiled and run.  Variables 1 and 4 are        *)
(* globals, 2 and 5 parameters, 3 and 6 local variables; 7 is the function. *)
(***************************************************************************)
EXTENDS CompiledMeaning, StackTypes

Minus(a, b) == Op("SUB", a, b)
Plus(a, b)  == Op("ADD", a, b)
Times(a, b) == Op("MUL", a, b)
Ratio(a, b) == Op("DIV", a, b)
Both(a, b)  == List(a, List(b, nullptr))
Read        == Op1("INPUT", nullptr)

\* Functions of one parameter: with a side effect, two exits, recursion that
\* needs its local variable afterwards, a loop, recursion twice.
Functions_ ==
    {Def(Var(2), b) : b \in
       { Both(Assign(1, Plus(Var(1), Var(2))), Return(Minus(Var(1), Val(1)))),
         Both(IfElse(Op("LE", Var(2), Val(2)), Return(Val(5)), Return(Var(1))), nullptr),
         List(Let(3, Times(Var(2), Val(2))),
              Both(If(Op("GT", Var(2), Val(0)),
                      List(Let(6, Call(Minus(Var(2), Val(1)))), Assign(3, Plus(Var(3), Var(6))))),
                   Return(Var(3)))),
         List(Let(3, Val(0)),
              Both(While(Op("NEQ", Var(2), Val(0)),
                         Both(Assign(3, Plus(Var(3), Var(2))), Assign(2, Minus(Var(2), Val(1))))),
                   Return(Var(3)))),
         Both(If(Op("LT", Var(2), Val(2)), Return(Var(2))),
              Return(Plus(Call(Minus(Var(2), Val(1))), Call(Minus(Var(2), Val(2)))))) } }
CallsOf == {Call(Var(1)), Call(Call(Val(2))), Minus(Call(Val(3)), Call(Var(1))),
            Ratio(Call(Var(1)), Val(3)), Op("OR", Op("EQ", Call(Val(1)), Var(1)), Val(0))}
TwoParameters == Def(Both(Var(2), Var(5)), Return(Minus(Var(2), Times(Var(5), Var(1)))))

\* Without functions.
Conditions == {Op(c, Var(1), Val(2)) : c \in Comparators}
                \cup {Op1("NOT", Var(1)), Op("OR", Var(1), Var(4)), Op("AND", Var(1), Val(3)),
                      Op1("NOT", Op("OR", Op("GT", Var(1), Val(9)), Var(4)))}
Statements_ ==
    {If(c, Assign(1, Val(7))) : c \in Conditions}
      \cup {IfElse(c, Output(Var(1)), Output(Var(4))) : c \in Conditions}
      \cup {While(Op("GT", Var(1), Val(0)), Both(Output(Var(1)), Assign(1, Minus(Var(1), Val(2))))),
            While(Var(4), Assign(4, Val(0)))}
      \cup {Output(e) : e \in {Ratio(Var(1), Minus(Val(0), Val(3))), Ratio(Val(1), Var(4)),
                               Times(Ratio(Var(1), Val(7)), Ratio(Val(1), Val(3))),
                               Op1("SQRT", Plus(Var(1), Val(2))), Plus(Read, Minus(Read, Var(4)))}}

Program(d, e, s)  == List(Let(1, e), List(Let(4, Val(0)), List(d, List(s, Output(Var(1))))))
RunPrograms ==
    {Program(d, v, Output(e)) : d \in Functions_, v \in {Val(0), Val(3)}, e \in CallsOf}
      \cup {Program(d, Val(2), List(If(c, Assign(4, e)), Output(Var(4)))) :
              d \in Functions_, e \in CallsOf, c \in {Var(1), Op("LT", Call(Var(1)), Val(2))}}
      \cup {Program(nullptr, Read, s) : s \in Statements_}
      \cup {Program(nullptr, Val(3), List(s, t)) : s \in Statements_, t \in Statements_}
      \cup {Program(TwoParameters, Val(2), Output(e)) :
              e \in {Call(Both(Val(3), Var(1))), Call(Both(Call(Both(Val(1), Val(2))), Val(2)))}}
      \cup {Program(d, Val(2), Call(Val(3))) : d \in Functions_}
MCInputs == {0, 200, -300}

\* These programs obey the grammar of StackTypes, under which the theorem
\* AlwaysReturns says of every program what the run shows of these.
RECURSIVE MainOf(_), BodyOf(_)
MainOf(n)    == {n} \cup (IF n = nullptr \/ n.type = "FUNC_DEF" THEN {}
                           ELSE MainOf(n.left) \cup MainOf(n.right))
BodyOf(n) == {n} \cup (IF n = nullptr THEN {}
                           ELSE IF n.type \in {"FICTIOUS", "ELSE"}
                           THEN UNION {BodyOf(b) : b \in {n.left, n.right}}
                           ELSE IF n.type \in {"IF", "WHILE"} THEN BodyOf(n.right) ELSE {})
Roles == LET nodes  == UNION {Subtrees(t) : t \in RunPrograms}
             expr == {n \in nodes : n.type \in {"VAL", "VAR", "FUNC_CALL"} \/ (n.type = "OP" /\ n.data # "ASSIG")}
             args == {n \in nodes \cup {nullptr} : \A i \in DOMAIN Listed(n) : Listed(n)[i] \in expr}
         IN  [main |-> UNION {MainOf(t) : t \in RunPrograms}, expr |-> expr, args |-> args,
              body |-> {n \in UNION {BodyOf(f.right) : f \in {d \in nodes : d.type = "FUNC_DEF"}} :
                          n # nullptr => n.type # "ELSE"},
              count |-> [n \in args |-> Len(Listed(n))]]
ASSUME ProgramsObeyGrammar == Grammar(Roles, RunPrograms)

\* Programs for the finding runs.
AndPrograms == {Program(nullptr, Val(0), Output(Op("AND", Var(1), Var(4))))}
StatementPrograms ==
    {Program(Def(Var(2), Both(Output(Var(2)), Return(Var(2)))), Val(2), Output(Call(Var(1))))}

RunNodes == UNION {Subtrees(t) : t \in RunPrograms}
AndNodes == UNION {Subtrees(t) : t \in AndPrograms}
StatementNodes == UNION {Subtrees(t) : t \in StatementPrograms}
\* (TLC evaluates a definition once, but the one a cfg names at every use.)
MCNodes          == RunNodes
MCTrees          == RunPrograms
MCAndNodes       == AndNodes
MCStatementNodes == StatementNodes
=============================================================================
