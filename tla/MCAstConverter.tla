--------------------------- MODULE MCAstConverter ---------------------------
(***************************************************************************)
(* Small programs for AstConverter: the declaration of a global, a         *)
(* function definition, and two statements with expressions of depth two.  *)
(* Variable 1 is the global, 2 a parameter, 3 a local variable, 4 a second *)
(* global; 7 is the function.                                              *)
(***************************************************************************)
EXTENDS AstConverter, RevLang


\* Expressions over the variables in scope; v is one of them.
Atoms(v) == {Val(1), Var(v)}
Exprs(v) ==
    Atoms(v) \cup {Op(o, Var(v), Val(1)) : o \in {"SUB", "LT", "EQ", "OR"}}
      \cup {Op1("NOT", Var(v)), Op1("SQRT", Var(v)), Op1("INPUT", nullptr), Op("AND", Val(1), Op("GE", Var(v), Val(0))),
            Call(Var(v)), Call(List(Var(v), Call(Val(1)))), Op("MUL", Call(Val(1)), Var(v))}

Simple(v) == {Assign(v, e) : e \in Exprs(v)} \cup {Output(e) : e \in Atoms(v)} \cup {Call(Val(1))}
Statements(v) ==
    Simple(v) \cup {If(e, Assign(v, Val(1))) : e \in Exprs(v)}
      \cup {IfElse(e, Output(Var(v)), Call(Var(v))) : e \in Exprs(v)}
      \cup {While(e, If(Var(v), Assign(v, Val(0)))) : e \in Exprs(v)}

Bodies == {Return(e) : e \in Exprs(2)} \cup {List(Let(3, Var(1)), List(s, Return(Var(3)))) : s \in Statements(3)}
Defs   == {Def(p, b) : p \in {Var(2), List(Var(2), Var(5))}, b \in Bodies}
OneDef == Def(List(Var(2), List(Var(5), nullptr)), Return(Op("ADD", Var(2), Var(1))))

\* A definition before or after the statements of the program.
WithDef(d, s)   == List(Let(1, Val(2)), List(d, List(s, Output(Var(1)))))
DefLast(d, s)   == List(Let(1, Val(2)), List(s, List(Let(4, Call(Var(1))), d)))
Undeclared      == List(Let(1, Val(2)), List(OneDef, List(Assign(1, Op("ADD", Val(1), Var(9))), nullptr)))
\* Dumps that the front end does not produce, and the loader accepts.
Malformed       == {List(Let(1, Val(1)), N("ELSE", 0, nullptr, Val(1))),
                    Def(Val(1), Return(Val(1)))}
Programs == {WithDef(d, Call(Val(1))) : d \in Defs}
             \cup {WithDef(OneDef, s) : s \in Statements(1)}
             \cup {DefLast(OneDef, s) : s \in Statements(1)}
             \cup {WithDef(OneDef, List(s, t)) : s \in Simple(1), t \in Statements(1)}
             \cup {Undeclared} \cup Malformed

\* A global is used, in the argument of a call, before it is declared.
EarlyTrees == {List(Def(Var(2), Return(Var(2))),
                    List(Call(Op("ADD", Var(1), Val(1))),
                         List(Let(1, Val(2)), While(Var(1), Assign(1, Val(0))))))}

NodesOf(trees) == UNION {Subtrees(t) : t \in trees}
\* (TLC evaluates a definition once, but the one a cfg names at every use.)
ProgramNodes == NodesOf(Programs)
MCNodes      == ProgramNodes
MCTrees      == Programs
MCEarlyNodes == NodesOf(EarlyTrees)
EarlyNodes   == MCEarlyNodes
=============================================================================
