------------------------------ MODULE RevLang -------------------------------
(***************************************************************************)
(* The source language (src/README.md:32-63): how its constructs look as   *)
(* trees, and a reference interpreter that says what they mean.  Numbers   *)
(* have two decimal digits, and are counted in hundredths.                 *)
(*                                                                         *)
(* The interpreter is for TLC only.  Its state is a record: `globals` and  *)
(* `locals` map names to values, `in_func` says which of them a            *)
(* declaration extends, `val` is the value of the last expression, `stop`  *)
(* is "" while the control goes on, "return" or "fault" otherwise.         *)
(***************************************************************************)
EXTENDS Ast

N(type, data, left, right) == [type |-> type, data |-> data, left |-> left, right |-> right]

Val(v)          == N("VAL", v, nullptr, nullptr)
Var(v)          == N("VAR", v, nullptr, nullptr)
Op(op, a, b)    == N("OP", op, a, b)
Op1(op, a)      == N("OP", op, nullptr, a)
List(a, b)      == N("FICTIOUS", 0, a, b)
Assign(v, e)    == Op("ASSIG", Var(v), e)
Let(v, e)       == List(N("VAR_DEF", v, nullptr, nullptr), Assign(v, e))
If(c, t)        == N("IF", 0, c, N("ELSE", 0, nullptr, List(t, nullptr)))
IfElse(c, t, e) == N("IF", 0, c, N("ELSE", 0, List(t, nullptr), List(e, nullptr)))
While(c, b)     == N("WHILE", 0, c, List(b, nullptr))
Def(params, body) == N("FUNC_DEF", 7, params, List(body, nullptr))
Call(actuals)   == N("FUNC_CALL", 7, nullptr, actuals)
Return(e)       == N("RETURN", 0, nullptr, e)
Output(e)       == Op1("OUTPUT", e)

RECURSIVE Subtrees(_)
Subtrees(n) == IF n = nullptr THEN {} ELSE {n} \cup Subtrees(n.left) \cup Subtrees(n.right)

\* The expressions of an argument list, or the names of a list of parameters.
RECURSIVE Listed(_)
Listed(n) == IF n = nullptr THEN << >>
             ELSE IF n.type = "FICTIOUS" THEN Listed(n.left) \o Listed(n.right)
             ELSE << n >>
-----------------------------------------------------------------------------
Unit == 100
Magnitude(a) == IF a < 0 THEN -a ELSE a
\* Division rounds towards zero.
Quotient(a, b) == LET q == Magnitude(a) \div Magnitude(b) IN IF (a < 0) = (b < 0) THEN q ELSE -q
Truth(b) == IF b THEN Unit ELSE 0
\* The library rounds a root down to a tenth; negative numbers have the root 0.
Root(a) == IF a < 0 THEN 0 ELSE 10 * (CHOOSE r \in 0 .. a : r * r <= a /\ (r + 1) * (r + 1) > a)

Meaning(op, a, b) ==
    CASE op = "ADD" -> a + b                  [] op = "SUB" -> a - b
      [] op = "MUL" -> Quotient(a * b, Unit)  [] op = "DIV" -> Quotient(a * Unit, b)
      [] op = "EQ"  -> Truth(a = b)           [] op = "NEQ" -> Truth(a # b)
      [] op = "GT"  -> Truth(a > b)           [] op = "LT"  -> Truth(a < b)
      [] op = "GE"  -> Truth(a >= b)          [] op = "LE"  -> Truth(a <= b)
      [] op = "AND" -> Truth(a # 0 /\ b # 0)  [] op = "OR"  -> Truth(a # 0 \/ b # 0)
      [] op = "NOT" -> Truth(b = 0)           [] op = "SQRT" -> Root(b)

\* A map with one name set, or set anew.
Set(names, v, x) == [w \in DOMAIN names \cup {v} |-> IF w = v THEN x ELSE names[w]]
Stored(s, v, x) == IF v \in DOMAIN s.locals THEN [s EXCEPT !.locals = Set(@, v, x)]
                                            ELSE [s EXCEPT !.globals = Set(@, v, x)]
Declared(s, v) == IF s.in_func THEN [s EXCEPT !.locals = Set(@, v, 0)]
                               ELSE [s EXCEPT !.globals = Set(@, v, 0)]

RECURSIVE Run(_, _), Arguments(_, _, _, _)
\* The state after the subtree n; `fun` is the definition of the one function.
Arguments(fun, actuals, s, values) ==
    IF actuals = << >> THEN << s, values >>
    ELSE LET t == Run(Head(actuals), s) IN Arguments(fun, Tail(actuals), t, Append(values, t.val))

Run(n, s) ==
    IF s.stop # "" \/ n = nullptr THEN s
    ELSE CASE n.type = "FICTIOUS" -> Run(n.right, Run(n.left, s))
           [] n.type = "VAL"      -> [s EXCEPT !.val = Unit * n.data]
           [] n.type = "VAR"      -> [s EXCEPT !.val = IF n.data \in DOMAIN s.locals
                                                       THEN s.locals[n.data]
                                                       ELSE s.globals[n.data]]
           [] n.type = "VAR_DEF"  -> Declared(s, n.data)
           [] n.type = "FUNC_DEF" -> s
           [] n.type = "RETURN"   ->
                LET t == Run(n.right, s) IN IF t.stop = "" THEN [t EXCEPT !.stop = "return"] ELSE t
           [] n.type = "IF" ->
                LET t == Run(n.left, s)
                IN  IF n.right.left = nullptr    \* no else branch
                    THEN IF t.val # 0 THEN Run(n.right.right, t) ELSE t
                    ELSE Run(IF t.val # 0 THEN n.right.left ELSE n.right.right, t)
           [] n.type = "WHILE" ->
                LET t == Run(n.left, s) IN IF t.val = 0 THEN t ELSE Run(n, Run(n.right, t))
           [] n.type = "FUNC_CALL" ->
                LET args   == Arguments(s.fun, Listed(n.right), s, << >>)
                    t      == args[1]
                    params == Listed(s.fun.left)
                    names  == {params[i].data : i \in DOMAIN params}
                    locals == [v \in names |->
                                 args[2][CHOOSE i \in DOMAIN params : params[i].data = v]]
                    r      == Run(s.fun.right, [t EXCEPT !.locals = locals, !.in_func = TRUE])
                IN  IF r.stop = "fault" \/ t.stop = "fault" THEN [r EXCEPT !.stop = "fault"]
                    ELSE [r EXCEPT !.locals = t.locals, !.in_func = t.in_func, !.stop = ""]
           [] n.type = "OP" ->
                IF n.data = "ASSIG"
                THEN LET t == Run(n.right, s) IN IF t.stop = "" THEN Stored(t, n.left.data, t.val) ELSE t
                ELSE IF n.data = "INPUT"
                THEN IF s.input = << >> THEN [s EXCEPT !.stop = "fault"]
                     ELSE [s EXCEPT !.val = Head(s.input), !.input = Tail(s.input)]
                ELSE LET a == Run(n.left, s)
                         b == Run(n.right, a)
                     IN  IF b.stop # "" THEN b
                         ELSE IF n.data = "OUTPUT" THEN [b EXCEPT !.out = Append(@, b.val)]
                         ELSE IF n.data = "DIV" /\ b.val = 0 THEN [b EXCEPT !.stop = "fault"]
                         ELSE [b EXCEPT !.val = Meaning(n.data, a.val, b.val)]

\* The program on an input.
NoNames == [v \in {} |-> 0]
Interpreted(head, input) ==
    Run(head, [globals |-> NoNames, locals |-> NoNames, in_func |-> FALSE, val |-> 0,
               input |-> input, out |-> << >>, stop |-> "",
               fun |-> IF \E d \in Subtrees(head) : d.type = "FUNC_DEF"
                       THEN CHOOSE d \in Subtrees(head) : d.type = "FUNC_DEF" ELSE nullptr])
=============================================================================
