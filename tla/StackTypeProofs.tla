-------------------------- MODULE StackTypeProofs ---------------------------
(***************************************************************************)
(* The code of every tree that obeys the grammar has stack types.  For     *)
(* each task of the work list there is a rule: what it makes of the type   *)
(* of the instruction to come; a handler replaces its task by tasks that   *)
(* lead from the same type to the same type (the handlers, below), so the  *)
(* second pass can give each instruction that it emits a type, and each    *)
(* label and each function the type that all the ways to it agree on.      *)
(***************************************************************************)
EXTENDS StackTypes, AstConverterProofs, SequenceTheorems

(* Lists of tasks: from what is known of the stack to what they make of it. *)

\* The type of an instruction to come, and the counters of the calls that the
\* function has begun.
Points == [type : Types, counts : Seq(Nat)]
Point(x, c) == [type |-> x, counts |-> c]

\* Outside functions (m), or in one with h words; between two statements or operands.
Spot(m, h, p, n, c) == IF m THEN Point(InMain(p), << >>) ELSE Point(InFunc(h, p, n), c)
Between(m, h, c) == Spot(m, h, "rest", 0, c)
Heights == Nat \ {0}

\* The context: the grammar, the types of the labels that are taken, and the
\* translators.
Emitting(k, i, x, y) ==
    /\ i.type \notin NoNext => Effect(i, x, y)
    /\ i.type \in NoNext => y.at = "rest"
    /\ i.type = "RET" => x = InFunc(2, "return", 0)
    /\ i.type \in {"JMP"} \cup Jumps =>
          /\ x.at = "rest"
          /\ \E l \in DOMAIN k.lab : /\ i.imm_arg = addr_transl_translate(k.labels, l)
                                     /\ Weaker(AtTarget(i, x), k.lab[l])
    /\ i.type = "CALL" => \E f : i.imm_arg = addr_transl_translate(k.funcs, f)

\* Outside functions, a task that leaves things as they are.
MainTask(k, t) ==
    \/ t.do \in {"push_true_false", "emit_assig", "call"}
    \/ t.do \in {"subtree_convert", "call_args"} /\ t.node \in k.g.main
    \/ t.do = "if" /\ t.node.left \in k.g.main /\ t.node.right \in k.g.main

\* In a function, a task that finds h words and leaves j.
FuncTask(k, t, h, c, j, d) ==
    \/ /\ t.do = "subtree_convert" /\ t.node \in k.g.body /\ (t.result_used => NotCall(t.node))
       /\ h = 1 /\ j = 1 /\ d = c
    \/ t.do = "subtree_convert" /\ t.node \in k.g.expr /\ t.result_used /\ j = h + 1 /\ d = c
    \/ /\ t.do = "if" /\ \A b \in {t.node.left, t.node.right} : b \in k.g.body /\ NotCall(b)
       /\ h = 3 /\ j = 1 /\ d = c
    \/ t.do = "emit_assig" /\ h = j + 1 /\ d = c
    \/ t.do = "push_true_false" /\ h = j + 1 /\ h >= 3 /\ d = c
    \/ /\ t.do = "call_args" /\ t.node \in k.g.args /\ c # << >>
       /\ d = << c[1] + k.g.count[t.node] >> \o Tail(c) /\ j = h + k.g.count[t.node]
    \/ t.do = "call" /\ c # << >> /\ h > c[1] /\ j = h - c[1] + 1 /\ d = Tail(c)

NodeRule(k, t, z, y) ==
    \E m \in BOOLEAN, h, j \in Heights, c, d \in Seq(Nat) :
       /\ z = Between(m, h, c) /\ y = Between(m, j, d)
       /\ IF m THEN MainTask(k, t) ELSE FuncTask(k, t, h, c, j, d)

EmitRule(k, t, z, y) ==
    Emitting(k, t.ins, z.type, y.type) /\ y.counts = z.counts

LabelRule(k, t, z, y) ==
    /\ t.num \in DOMAIN k.lab /\ Weaker(k.lab[t.num], y.type)
    /\ y = z \/ (z.type.at = "rest" /\ y = Point(Main, << >>))

\* The task t leads from z to y.
Rule(k, t, z, y) ==
    \/ t.do = "emit" /\ EmitRule(k, t, z, y)
    \/ t.do = "numeric_label" /\ LabelRule(k, t, z, y)
    \/ t.do = "function_label" /\ z = Point(Entry, << >>) /\ y = z
    \/ t.do \in {"catch", "operands_done", "leave_func", "def_args"} /\ y = z
    \/ t.do = "start_new_pass" /\ z = Point(Main, << >>) /\ y = z
    \/ /\ t.do = "get_var_code" /\ z.type.at = "operand" /\ Above(z.type, 0)
       /\ y = Point(By(z.type, 0, "rest", 0), z.counts)
    \/ NodeRule(k, t, z, y)

\* The tasks of L lead from z to y.
Leads(k, L, z, y) ==
    \E w : /\ w[1] = z /\ w[Len(L) + 1] = y /\ \A i \in 1 .. Len(L) + 1 : w[i] \in Points
           /\ \A i \in 1 .. Len(L) : Rule(k, L[i], w[i], w[i + 1])

LEMMA LeadsNil == ASSUME NEW k, NEW z \in Points PROVE Leads(k, << >>, z, z)
  <1> DEFINE w == [i \in 1 .. 1 |-> z]
  <1>1. w[1] = z
    OBVIOUS
  <1> HIDE DEF w
  <1>2. Len(<< >>) = 0
    OBVIOUS
  <1>3. w[Len(<< >>) + 1] = z /\ \A i \in 1 .. Len(<< >>) + 1 : w[i] \in Points
    BY <1>1, <1>2
  <1>4. \A i \in 1 .. Len(<< >>) : Rule(k, << >>[i], w[i], w[i + 1])
    BY <1>2
  <1> QED
    BY <1>1, <1>3, <1>4 DEF Leads

LEMMA LeadsOne ==
    ASSUME NEW k, NEW t, NEW z \in Points, NEW y \in Points, Rule(k, t, z, y)
    PROVE  Leads(k, << t >>, z, y)
  <1> DEFINE w == << z, y >>
             L == << t >>
  <1>1. w[1] = z /\ w[2] = y /\ Len(L) = 1 /\ L[1] = t
    OBVIOUS
  <1> HIDE DEF w, L
  <1>2. w[Len(L) + 1] = y /\ \A i \in 1 .. Len(L) + 1 : w[i] \in Points
    BY <1>1
  <1>3. \A i \in 1 .. Len(L) : Rule(k, L[i], w[i], w[i + 1])
    BY <1>1
  <1> QED
    BY <1>1, <1>2, <1>3 DEF Leads, L

LEMMA LeadsOn ==
    ASSUME NEW k, NEW A \in Seq(Tasks), NEW B \in Seq(Tasks), NEW z, NEW v, NEW y,
           Leads(k, A, z, v), Leads(k, B, v, y)
    PROVE  Leads(k, A \o B, z, y)
  <1> DEFINE m == Len(A)
             n == Len(B)
  <1>1. /\ m \in Nat /\ n \in Nat /\ Len(A \o B) = m + n
        /\ \A i \in 1 .. m : (A \o B)[i] = A[i]
        /\ \A i \in m + 1 .. m + n : (A \o B)[i] = B[i - m]
    OBVIOUS
  <1>2. PICK a : /\ a[1] = z /\ a[m + 1] = v /\ \A i \in 1 .. m + 1 : a[i] \in Points
                 /\ \A i \in 1 .. m : Rule(k, A[i], a[i], a[i + 1])
    BY DEF Leads
  <1>3. PICK b : /\ b[1] = v /\ b[n + 1] = y /\ \A i \in 1 .. n + 1 : b[i] \in Points
                 /\ \A i \in 1 .. n : Rule(k, B[i], b[i], b[i + 1])
    BY DEF Leads
  <1> DEFINE w == [i \in 1 .. m + n + 1 |-> IF i <= m THEN a[i] ELSE b[i - m]]
  <1> HIDE DEF m, n
  <1>4. /\ \A i \in 1 .. m : w[i] = a[i]
        /\ \A i \in m + 1 .. m + n + 1 : w[i] = b[i - m] /\ i - m \in 1 .. n + 1
    BY <1>1
  <1>5. w[m + 1] = v
    <2>1. m + 1 \in m + 1 .. m + n + 1 /\ (m + 1) - m = 1
      BY <1>1
    <2>2. w[m + 1] = b[(m + 1) - m]
      BY <1>4, <2>1
    <2> QED
      BY <1>3, <2>1, <2>2
  <1> HIDE DEF w
  <1>6. w[1] = z
    <2>1. CASE m = 0
      <3>1. m + 1 = 1
        BY <2>1
      <3> QED
        BY <1>2, <1>5, <3>1
    <2>2. CASE m # 0
      <3>1. 1 \in 1 .. m
        BY <1>1, <2>2
      <3> QED
        BY <1>2, <1>4, <3>1
    <2> QED
      BY <2>1, <2>2
  <1>7. w[m + n + 1] = y
    <2>1. m + n + 1 \in m + 1 .. m + n + 1 /\ (m + n + 1) - m = n + 1
      BY <1>1
    <2>2. w[m + n + 1] = b[(m + n + 1) - m]
      BY <1>4, <2>1
    <2> QED
      BY <1>3, <2>1, <2>2
  <1>8. \A i \in 1 .. m + n + 1 : w[i] \in Points
    <2> TAKE i \in 1 .. m + n + 1
    <2>1. CASE i \in 1 .. m
      <3>1. i \in 1 .. m + 1
        BY <1>1, <2>1
      <3> QED
        BY <1>2, <1>4, <2>1, <3>1
    <2>2. CASE i \notin 1 .. m
      <3>1. i \in m + 1 .. m + n + 1
        BY <1>1, <2>2
      <3>2. w[i] = b[i - m] /\ i - m \in 1 .. n + 1
        BY <1>4, <3>1
      <3> QED
        BY <1>3, <3>2
    <2> QED
      BY <2>1, <2>2
  <1>9. \A i \in 1 .. m + n : Rule(k, (A \o B)[i], w[i], w[i + 1])
    <2> TAKE i \in 1 .. m + n
    <2>1. CASE i \in 1 .. m - 1
      <3>1. i \in 1 .. m /\ i + 1 \in 1 .. m
        BY <1>1, <2>1
      <3> QED
        BY <1>1, <1>2, <1>4, <3>1
    <2>2. CASE i = m
      <3>1. i \in 1 .. m
        BY <1>1, <2>2
      <3>2. w[i + 1] = v /\ w[i] = a[i] /\ (A \o B)[i] = A[i] /\ a[i + 1] = v
        BY <1>1, <1>2, <1>4, <1>5, <2>2, <3>1
      <3>3. Rule(k, A[i], a[i], a[i + 1])
        BY <1>2, <3>1
      <3> QED
        BY <3>2, <3>3
    <2>3. CASE i \in m + 1 .. m + n
      <3>1. i \in m + 1 .. m + n + 1 /\ i + 1 \in m + 1 .. m + n + 1 /\ (i + 1) - m = (i - m) + 1
            /\ i - m \in 1 .. n
        BY <1>1, <2>3
      <3>2. w[i] = b[i - m] /\ w[i + 1] = b[(i + 1) - m] /\ (A \o B)[i] = B[i - m]
        BY <1>1, <1>4, <2>3, <3>1
      <3>3. Rule(k, B[i - m], b[i - m], b[(i - m) + 1])
        BY <1>3, <3>1
      <3> QED
        BY <3>1, <3>2, <3>3
    <2> QED
      BY <1>1, <2>1, <2>2, <2>3
  <1> QED
    BY <1>1, <1>6, <1>7, <1>8, <1>9 DEF Leads

\* The first task and the others.
LEMMA LeadsApart ==
    ASSUME NEW k, NEW L \in Seq(Tasks), L # << >>, NEW z, NEW y, Leads(k, L, z, y)
    PROVE  \E v \in Points : Rule(k, Head(L), z, v) /\ Leads(k, Tail(L), v, y) /\ z \in Points
  <1> DEFINE n == Len(L)
             T == Tail(L)
  <1>1. /\ n \in Nat \ {0} /\ Len(T) = n - 1 /\ \A i \in 1 .. n - 1 : T[i] = L[i + 1]
        /\ Head(L) = L[1]
    OBVIOUS
  <1>2. PICK w : /\ w[1] = z /\ w[n + 1] = y /\ \A i \in 1 .. n + 1 : w[i] \in Points
                 /\ \A i \in 1 .. n : Rule(k, L[i], w[i], w[i + 1])
    BY DEF Leads
  <1> HIDE DEF n, T
  <1>3. Rule(k, Head(L), z, w[2]) /\ w[2] \in Points /\ z \in Points
    <2>1. 1 \in 1 .. n /\ 2 \in 1 .. n + 1 /\ 1 \in 1 .. n + 1
      BY <1>1
    <2>2. Rule(k, L[1], w[1], w[1 + 1])
      BY <1>2, <2>1
    <2> QED
      BY <1>1, <1>2, <2>1, <2>2
  <1> DEFINE u == [i \in 1 .. n |-> w[i + 1]]
  <1>4. \A i \in 1 .. n : u[i] = w[i + 1]
    OBVIOUS
  <1> HIDE DEF u
  <1>5. u[1] = w[2] /\ u[n] = y /\ \A i \in 1 .. n : u[i] \in Points
    <2>1. 1 \in 1 .. n /\ n \in 1 .. n /\ \A i \in 1 .. n : i + 1 \in 1 .. n + 1
      BY <1>1
    <2> QED
      BY <1>2, <1>4, <2>1
  <1>6. \A i \in 1 .. n - 1 : Rule(k, T[i], u[i], u[i + 1])
    <2> TAKE i \in 1 .. n - 1
    <2>1. i \in 1 .. n /\ i + 1 \in 1 .. n
      BY <1>1
    <2>2. Rule(k, L[i + 1], w[i + 1], w[(i + 1) + 1])
      BY <1>2, <2>1
    <2> QED
      BY <1>1, <1>4, <2>1, <2>2
  <1>7. (n - 1) + 1 = n
    BY <1>1
  <1>8. Leads(k, T, w[2], y)
    BY <1>1, <1>5, <1>6, <1>7 DEF Leads
  <1> QED
    BY <1>3, <1>8 DEF T

\* More labels are taken: what was right stays right.
Extends(k, l) == /\ l.g = k.g /\ l.labels = k.labels /\ l.funcs = k.funcs
                 /\ \A n \in DOMAIN k.lab : n \in DOMAIN l.lab /\ l.lab[n] = k.lab[n]

LEMMA EmittingKept ==
    ASSUME NEW k, NEW l, Extends(k, l), NEW i, NEW x, NEW y, Emitting(k, i, x, y)
    PROVE  Emitting(l, i, x, y)
  BY DEF Emitting, Extends

LEMMA RuleKept ==
    ASSUME NEW k, NEW l, Extends(k, l), NEW t, NEW z, NEW y, Rule(k, t, z, y)
    PROVE  Rule(l, t, z, y)
  <1>1. EmitRule(k, t, z, y) => EmitRule(l, t, z, y)
    BY EmittingKept DEF EmitRule
  <1>2. LabelRule(k, t, z, y) => LabelRule(l, t, z, y)
    BY DEF LabelRule, Extends
  <1>3. NodeRule(k, t, z, y) => NodeRule(l, t, z, y)
    <2>1. MainTask(k, t) => MainTask(l, t)
      BY DEF MainTask, Extends
    <2>2. \A h, c, j, d : FuncTask(k, t, h, c, j, d) => FuncTask(l, t, h, c, j, d)
      BY DEF FuncTask, Extends
    <2> QED
      BY <2>1, <2>2 DEF NodeRule
  <1> QED
    BY <1>1, <1>2, <1>3 DEF Rule

LEMMA LeadsKept ==
    ASSUME NEW k, NEW l, Extends(k, l), NEW L, NEW z, NEW y, Leads(k, L, z, y)
    PROVE  Leads(l, L, z, y)
  BY RuleKept DEF Leads

\* Lists of a few tasks.
LEMMA LeadsTwo ==
    ASSUME NEW k, NEW a \in Tasks, NEW b \in Tasks, NEW p \in Points, NEW q \in Points, NEW r \in Points,
           Rule(k, a, p, q), Rule(k, b, q, r)
    PROVE  Leads(k, << a, b >>, p, r)
  <1> DEFINE w == << p, q, r >>
             L == << a, b >>
  <1>1. w[1] = p /\ w[2] = q /\ w[3] = r /\ Len(L) = 2 /\ L[1] = a /\ L[2] = b
    OBVIOUS
  <1> HIDE DEF w, L
  <1>2. w[Len(L) + 1] = r /\ \A i \in 1 .. Len(L) + 1 : w[i] \in Points
    BY <1>1
  <1>3. \A i \in 1 .. Len(L) : Rule(k, L[i], w[i], w[i + 1])
    BY <1>1
  <1> QED
    BY <1>1, <1>2, <1>3 DEF Leads, L

LEMMA LeadsThree ==
    ASSUME NEW k, NEW a \in Tasks, NEW b \in Tasks, NEW c \in Tasks,
           NEW p \in Points, NEW q \in Points, NEW r \in Points, NEW s \in Points,
           Rule(k, a, p, q), Rule(k, b, q, r), Rule(k, c, r, s)
    PROVE  Leads(k, << a, b, c >>, p, s)
  <1>1. << a, b >> \in Seq(Tasks) /\ << c >> \in Seq(Tasks) /\ << a, b, c >> = << a, b >> \o << c >>
    OBVIOUS
  <1> QED
    BY <1>1, LeadsOne, LeadsTwo, LeadsOn

LEMMA LeadsFour ==
    ASSUME NEW k, NEW a \in Tasks, NEW b \in Tasks, NEW c \in Tasks, NEW d \in Tasks,
           NEW p \in Points, NEW q \in Points, NEW r \in Points, NEW s \in Points, NEW t \in Points,
           Rule(k, a, p, q), Rule(k, b, q, r), Rule(k, c, r, s), Rule(k, d, s, t)
    PROVE  Leads(k, << a, b, c, d >>, p, t)
  <1>1. /\ << a, b >> \in Seq(Tasks) /\ << c, d >> \in Seq(Tasks)
        /\ << a, b, c, d >> = << a, b >> \o << c, d >>
    OBVIOUS
  <1> QED
    BY <1>1, LeadsTwo, LeadsOn

\* The words of a type ...
LEMMA SpotFields ==
    ASSUME NEW m \in BOOLEAN, NEW h \in Nat, NEW p \in Stages, NEW n \in Nat, NEW c \in Seq(Nat)
    PROVE  /\ Spot(m, h, p, n, c) \in Points
           /\ Spot(m, h, p, n, c).type = (IF m THEN InMain(p) ELSE InFunc(h, p, n))
           /\ Spot(m, h, p, n, c).counts = (IF m THEN << >> ELSE c)
           /\ Spot(m, h, p, n, c).type \in Types
           /\ Spot(m, h, p, n, c).type.at = p /\ Spot(m, h, p, n, c).type.func = ~m
           /\ ~m => Spot(m, h, p, n, c).type.height = h /\ Spot(m, h, p, n, c).type.size = n
  <1>1. << >> \in Seq(Nat)
    OBVIOUS
  <1> QED
    BY <1>1 DEF Spot, Point, Points, Types, InMain, InFunc

LEMMA SpotStage ==
    ASSUME NEW m \in BOOLEAN, NEW h \in Nat, NEW p \in Stages, NEW n \in Nat, NEW c \in Seq(Nat)
    PROVE  /\ Spot(m, h, p, n, c) \in Points /\ Spot(m, h, p, n, c).type.at = p
           /\ Spot(m, h, p, n, c).type.func => Spot(m, h, p, n, c).type.size = n
  <1>1. << >> \in Seq(Nat)
    OBVIOUS
  <1> QED
    BY <1>1 DEF Spot, Point, Points, Types, InMain, InFunc

\* ... when an instruction has changed them.
LEMMA SpotBy ==
    ASSUME NEW m \in BOOLEAN, NEW h \in Nat, NEW p \in Stages, NEW n \in Nat, NEW c \in Seq(Nat),
           NEW d \in Int, h + d \in Nat, NEW q \in Stages, NEW o \in Nat
    PROVE  By(Spot(m, h, p, n, c).type, d, q, o) = Spot(m, h + d, q, o, c).type
  <1> DEFINE x == Spot(m, h, p, n, c).type
             g == h + d
  <1>1. x.func = ~m /\ (~m => x.height = h)
    BY DEF Spot, Point, InMain, InFunc
  <1>2. Spot(m, h + d, q, o, c).type = (IF m THEN InMain(q) ELSE InFunc(h + d, q, o))
    <2>1. g \in Nat
      OBVIOUS
    <2> HIDE DEF g
    <2>2. Spot(m, g, q, o, c).type = (IF m THEN InMain(q) ELSE InFunc(g, q, o))
      BY <2>1, SpotFields
    <2> QED
      BY <2>2 DEF g
  <1> HIDE DEF x
  <1>3. By(x, d, q, o) = (IF m THEN InMain(q) ELSE InFunc(h + d, q, o))
    BY <1>1 DEF By
  <1> QED
    BY <1>2, <1>3 DEF x

LEMMA SpotAbove ==
    ASSUME NEW m \in BOOLEAN, NEW h \in Nat, NEW p \in Stages, NEW n \in Nat, NEW c \in Seq(Nat),
           NEW d \in Nat, h > d \/ m
    PROVE  Above(Spot(m, h, p, n, c).type, d)
  <1> DEFINE x == Spot(m, h, p, n, c).type
  <1>1. x.func = ~m /\ (~m => x.height = h)
    BY SpotFields
  <1> HIDE DEF x
  <1>2. Above(x, d)
    BY <1>1 DEF Above
  <1> QED
    BY <1>2 DEF x

\* Instructions that do not transfer the control.
LEMMA EmitLeads ==
    ASSUME NEW k, NEW i \in Instr, i.type \notin NoNext \cup Jumps \cup {"CALL"},
           NEW m \in BOOLEAN, NEW h \in Nat, NEW p \in Stages, NEW n \in Nat, NEW c \in Seq(Nat),
           NEW j \in Nat, NEW q \in Stages, NEW o \in Nat,
           Effect(i, Spot(m, h, p, n, c).type, Spot(m, j, q, o, c).type)
    PROVE  Rule(k, Emit(i), Spot(m, h, p, n, c), Spot(m, j, q, o, c))
  <1> DEFINE z == Spot(m, h, p, n, c)
             y == Spot(m, j, q, o, c)
  <1>1. z.counts = y.counts
    BY SpotFields
  <1>2. Emit(i).do = "emit" /\ Emit(i).ins = i
    BY DEF Emit
  <1>3. i.type # "JMP" /\ i.type # "RET"
    BY DEF NoNext
  <1>5. Effect(i, z.type, y.type)
    OBVIOUS
  <1> HIDE DEF z, y
  <1>4. Emitting(k, i, z.type, y.type)
    BY <1>3, <1>5 DEF Emitting
  <1>6. EmitRule(k, Emit(i), z, y)
    BY <1>1, <1>2, <1>4 DEF EmitRule
  <1>7. Rule(k, Emit(i), z, y)
    BY <1>2, <1>6 DEF Rule
  <1> QED
    BY <1>7 DEF z, y

LEMMA OrdinaryLeads ==
    ASSUME NEW k, NEW i \in Instr, HasOperand(i), ~IntoRdx(i),
           i.type \in {"PUSH", "POP", "INP", "OUT"} \cup BinaryOps \cup UnaryOps,
           NEW m \in BOOLEAN, NEW h \in Nat, NEW c \in Seq(Nat),
           h > Taken(i), NEW j \in Nat, j = h + Left(i) - Taken(i)
    PROVE  Rule(k, Emit(i), Between(m, h, c), Between(m, j, c))
  <1>1. i.type \notin NoNext \cup Jumps \cup {"CALL"}
    BY DEF NoNext, Jumps, BinaryOps, UnaryOps
  <1>2. Taken(i) \in Nat /\ Left(i) \in Nat
    BY DEF Taken, Left
  <1>3. Above(Between(m, h, c).type, Taken(i))
    BY <1>2, SpotAbove DEF Between, Stages
  <1> DEFINE d == Left(i) - Taken(i)
  <1>4. d \in Int /\ h + d = j
    BY <1>2
  <1>5. By(Between(m, h, c).type, d, "rest", 0) = Between(m, j, c).type
    <2>1. 0 \in Nat /\ "rest" \in Stages
      BY DEF Stages
    <2> HIDE DEF d
    <2>2. By(Spot(m, h, "rest", 0, c).type, d, "rest", 0) = Spot(m, h + d, "rest", 0, c).type
      BY <1>4, <2>1, SpotBy
    <2> QED
      BY <1>4, <2>2 DEF Between
  <1>6. Between(m, h, c).type.at = "rest"
    BY SpotFields DEF Between, Stages
  <1>7. Ordinary(i, Between(m, h, c).type, Between(m, j, c).type)
    BY <1>3, <1>5, <1>6 DEF Ordinary
  <1>8. Effect(i, Between(m, h, c).type, Between(m, j, c).type)
    BY <1>7 DEF Effect
  <1>9. 0 \in Nat /\ "rest" \in Stages
    BY DEF Stages
  <1> QED
    BY <1>1, <1>8, <1>9, EmitLeads DEF Between

\* What the handlers emit.
LEMMA PushPop ==
    ASSUME NEW k, NEW m \in BOOLEAN, NEW h \in Heights, NEW c \in Seq(Nat)
    PROVE  /\ \A v \in Int : Rule(k, Emit(WithImm("PUSH", v)), Between(m, h, c), Between(m, h + 1, c))
           /\ \A r \in 0 .. 3 : Rule(k, Emit(WithReg("PUSH", r)), Between(m, h, c), Between(m, h + 1, c))
           /\ \A r \in 0 .. 2 : Rule(k, Emit(WithReg("POP", r)), Between(m, h + 1, c), Between(m, h, c))
           /\ Rule(k, Emit(Plain("INP")), Between(m, h, c), Between(m, h + 1, c))
           /\ Rule(k, Emit(Plain("OUT")), Between(m, h + 1, c), Between(m, h, c))
           /\ \A op \in BinaryOps : Rule(k, Emit(Plain(op)), Between(m, h + 2, c), Between(m, h + 1, c))
           /\ \A op \in UnaryOps : Rule(k, Emit(Plain(op)), Between(m, h + 1, c), Between(m, h + 1, c))
  <1>1. /\ h + 1 \in Nat /\ h + 2 \in Nat /\ h \in Nat /\ h > 0 /\ h + 1 > 1 /\ h + 2 > 2
        /\ h + 1 = h + 1 - 0 /\ h = (h + 1) + 0 - 1 /\ h + 1 = (h + 2) + 1 - 2
        /\ h + 1 = (h + 1) + 1 - 1
    BY DEF Heights
  <1>2. ASSUME NEW v \in Int
        PROVE  Rule(k, Emit(WithImm("PUSH", v)), Between(m, h, c), Between(m, h + 1, c))
    <2> DEFINE i == WithImm("PUSH", v)
    <2>1. i \in Instr /\ HasOperand(i) /\ i.type = "PUSH" /\ ~IntoRdx(i)
      BY InstrFacts DEF WithImm, Plain, HasOperand, IntoRdx, InstrTypes, Encodable
    <2>2. Taken(i) = 0 /\ Left(i) = 1
      BY <2>1 DEF Taken, Left, BinaryOps, UnaryOps, Jumps
    <2> HIDE DEF i
    <2>3. Rule(k, Emit(i), Between(m, h, c), Between(m, h + 1, c))
      BY <1>1, <2>1, <2>2, OrdinaryLeads
    <2> QED
      BY <2>3 DEF i
  <1>3. ASSUME NEW r \in 0 .. 3
        PROVE  Rule(k, Emit(WithReg("PUSH", r)), Between(m, h, c), Between(m, h + 1, c))
    <2> DEFINE i == WithReg("PUSH", r)
    <2>1. i \in Instr /\ HasOperand(i) /\ i.type = "PUSH" /\ ~IntoRdx(i)
      BY InstrFacts DEF WithReg, Plain, HasOperand, IntoRdx, InstrTypes, Encodable
    <2>2. Taken(i) = 0 /\ Left(i) = 1
      BY <2>1 DEF Taken, Left, BinaryOps, UnaryOps, Jumps
    <2> HIDE DEF i
    <2>3. Rule(k, Emit(i), Between(m, h, c), Between(m, h + 1, c))
      BY <1>1, <2>1, <2>2, OrdinaryLeads
    <2> QED
      BY <2>3 DEF i
  <1>4. ASSUME NEW r \in 0 .. 2
        PROVE  Rule(k, Emit(WithReg("POP", r)), Between(m, h + 1, c), Between(m, h, c))
    <2> DEFINE i == WithReg("POP", r)
    <2>4. r \in 0 .. 3 /\ r # 3
      OBVIOUS
    <2>5. i \in Instr /\ i.type = "POP" /\ i.reg_num = r /\ i.need_reg_arg
      BY <2>4, InstrFacts DEF WithReg, Plain, InstrTypes, Encodable
    <2>1. i \in Instr /\ HasOperand(i) /\ i.type = "POP" /\ ~IntoRdx(i)
      BY <2>4, <2>5 DEF HasOperand, IntoRdx, REG_RDX
    <2>2. Taken(i) = 1 /\ Left(i) = 0
      BY <2>1 DEF Taken, Left, BinaryOps, UnaryOps, Jumps
    <2> HIDE DEF i
    <2>3. Rule(k, Emit(i), Between(m, h + 1, c), Between(m, h, c))
      BY <1>1, <2>1, <2>2, OrdinaryLeads
    <2> QED
      BY <2>3 DEF i
  <1>5. ASSUME NEW op \in {"INP", "OUT"} \cup BinaryOps \cup UnaryOps
        PROVE  /\ Plain(op) \in Instr /\ HasOperand(Plain(op)) /\ Plain(op).type = op
               /\ ~IntoRdx(Plain(op))
    BY InstrFacts DEF Plain, HasOperand, IntoRdx, InstrTypes, Encodable, Unsupported, BinaryOps,
                      UnaryOps, Instr
  <1>6. Rule(k, Emit(Plain("INP")), Between(m, h, c), Between(m, h + 1, c))
    <2> DEFINE i == Plain("INP")
    <2>1. i \in Instr /\ HasOperand(i) /\ i.type = "INP" /\ ~IntoRdx(i)
      BY <1>5
    <2>2. Taken(i) = 0 /\ Left(i) = 1
      BY <2>1 DEF Taken, Left, BinaryOps, UnaryOps, Jumps
    <2> HIDE DEF i
    <2>3. Rule(k, Emit(i), Between(m, h, c), Between(m, h + 1, c))
      BY <1>1, <2>1, <2>2, OrdinaryLeads
    <2> QED
      BY <2>3 DEF i
  <1>7. Rule(k, Emit(Plain("OUT")), Between(m, h + 1, c), Between(m, h, c))
    <2> DEFINE i == Plain("OUT")
    <2>1. i \in Instr /\ HasOperand(i) /\ i.type = "OUT" /\ ~IntoRdx(i)
      BY <1>5
    <2>2. Taken(i) = 1 /\ Left(i) = 0
      BY <2>1 DEF Taken, Left, BinaryOps, UnaryOps, Jumps
    <2> HIDE DEF i
    <2>3. Rule(k, Emit(i), Between(m, h + 1, c), Between(m, h, c))
      BY <1>1, <2>1, <2>2, OrdinaryLeads
    <2> QED
      BY <2>3 DEF i
  <1>8. ASSUME NEW op \in BinaryOps
        PROVE  Rule(k, Emit(Plain(op)), Between(m, h + 2, c), Between(m, h + 1, c))
    <2> DEFINE i == Plain(op)
    <2>1. i \in Instr /\ HasOperand(i) /\ i.type = op /\ ~IntoRdx(i)
      BY <1>5
    <2>2. Taken(i) = 2 /\ Left(i) = 1
      BY <2>1 DEF Taken, Left
    <2> HIDE DEF i
    <2>3. Rule(k, Emit(i), Between(m, h + 2, c), Between(m, h + 1, c))
      BY <1>1, <2>1, <2>2, OrdinaryLeads
    <2> QED
      BY <2>3 DEF i
  <1>9. ASSUME NEW op \in UnaryOps
        PROVE  Rule(k, Emit(Plain(op)), Between(m, h + 1, c), Between(m, h + 1, c))
    <2> DEFINE i == Plain(op)
    <2>1. i \in Instr /\ HasOperand(i) /\ i.type = op /\ ~IntoRdx(i)
      BY <1>5
    <2>2. Taken(i) = 1 /\ Left(i) = 1
      BY <2>1 DEF Taken, Left, UnaryOps, BinaryOps, Jumps
    <2> HIDE DEF i
    <2>3. Rule(k, Emit(i), Between(m, h + 1, c), Between(m, h + 1, c))
      BY <1>1, <2>1, <2>2, OrdinaryLeads
    <2> QED
      BY <2>3 DEF i
  <1> QED
    BY <1>2, <1>3, <1>4, <1>6, <1>7, <1>8, <1>9

-----------------------------------------------------------------------------
(* Jumps, labels, operands.                                                *)

LEMMA TaskMade ==
    /\ \A i \in Instr : Emit(i) \in Tasks /\ Emit(i).do = "emit" /\ Emit(i).ins = i
    /\ \A l \in Int : /\ Label(l) \in Tasks /\ Label(l).do = "numeric_label" /\ Label(l).num = l
                      /\ FunctionLabel(l) \in Tasks /\ FunctionLabel(l).do = "function_label"
                      /\ FunctionLabel(l).num = l
                      /\ GetVarCode(l) \in Tasks /\ GetVarCode(l).do = "get_var_code"
                      /\ GetVarCode(l).num = l
    /\ \A j \in Jumps : /\ PushTrueFalse(j) \in Tasks /\ PushTrueFalse(j).do = "push_true_false"
                        /\ PushTrueFalse(j).jmp_type = j
    /\ \A n \in MaybeNodes :
          /\ \A u \in BOOLEAN : /\ Convert(n, u) \in Tasks /\ Convert(n, u).do = "subtree_convert"
                                /\ Convert(n, u).node = n /\ Convert(n, u).result_used = u
          /\ \A h \in {"if", "emit_assig", "call_args", "call", "def_args"} :
                Rest(h, n) \in Tasks /\ Rest(h, n).do = h /\ Rest(h, n).node = n
    /\ \A s \in {"operands_done", "catch", "leave_func", "start_new_pass"} :
          Mark(s) \in Tasks /\ Mark(s).do = s
  BY DEF Tasks, Emit, Label, FunctionLabel, GetVarCode, PushTrueFalse, Convert, Rest, Mark

LEMMA BetweenFields ==
    ASSUME NEW m \in BOOLEAN, NEW h \in Heights, NEW c \in Seq(Nat)
    PROVE  /\ Between(m, h, c) \in Points /\ Between(m, h, c).type \in Types
           /\ Between(m, h, c).type.at = "rest"
           /\ Between(m, h, c).type = (IF m THEN Main ELSE InFunc(h, "rest", 0))
           /\ Between(m, h, c).counts = (IF m THEN << >> ELSE c)
  BY SpotFields DEF Between, Stages, Heights, Main

LEMMA JumpLeads ==
    ASSUME NEW k, NEW i \in Instr, i.type \in Jumps, NEW l \in DOMAIN k.lab,
           i.imm_arg = addr_transl_translate(k.labels, l),
           NEW m \in BOOLEAN, NEW h \in Heights, NEW c \in Seq(Nat),
           Weaker(Between(m, h, c).type, k.lab[l])
    PROVE  Rule(k, Emit(i), Between(m, h + 2, c), Between(m, h, c))
  <1> DEFINE z == Between(m, h + 2, c)
             y == Between(m, h, c)
  <1>1. h \in Nat /\ h > 0 /\ h + 2 \in Heights /\ h + 2 > 2 /\ h + 2 \in Nat
        /\ (h + 2) + (0 - 2) = h /\ 0 - 2 \in Int /\ (h + 2) + (-2) = h /\ -2 \in Int
    BY DEF Heights
  <1>2. Taken(i) = 2 /\ Left(i) = 0 /\ HasOperand(i) /\ ~IntoRdx(i)
        /\ i.type \notin NoNext \cup {"CALL", "RET", "JMP"}
    BY DEF Taken, Left, HasOperand, IntoRdx, Jumps, BinaryOps, UnaryOps, NoNext
  <1>3. Above(z.type, 2) /\ z.type.at = "rest"
    BY <1>1, SpotAbove, BetweenFields DEF Between, Stages
  <1>4. By(z.type, 0 - 2, "rest", 0) = y.type /\ By(z.type, -2, "rest", 0) = y.type
    <2>1. By(z.type, 0 - 2, "rest", 0) = y.type
      BY <1>1, SpotBy DEF Between, Stages
    <2>2. By(z.type, -2, "rest", 0) = y.type
      BY <1>1, SpotBy DEF Between, Stages
    <2> QED
      BY <2>1, <2>2
  <1>5. z.counts = y.counts
    BY <1>1, BetweenFields
  <1>6. Weaker(y.type, k.lab[l])
    OBVIOUS
  <1> HIDE DEF z, y
  <1>7. Ordinary(i, z.type, y.type)
    BY <1>2, <1>3, <1>4 DEF Ordinary
  <1>8. Emitting(k, i, z.type, y.type)
    BY <1>2, <1>3, <1>4, <1>6, <1>7 DEF Emitting, Effect, AtTarget
  <1>9. EmitRule(k, Emit(i), z, y)
    BY <1>5, <1>8, TaskMade DEF EmitRule
  <1>10. Rule(k, Emit(i), z, y)
    BY <1>9, TaskMade DEF Rule
  <1> QED
    BY <1>10 DEF z, y

LEMMA JmpLeads ==
    ASSUME NEW k, NEW i \in Instr, i.type = "JMP", NEW l \in DOMAIN k.lab,
           i.imm_arg = addr_transl_translate(k.labels, l),
           NEW m \in BOOLEAN, NEW h \in Heights, NEW c \in Seq(Nat),
           Weaker(Between(m, h, c).type, k.lab[l]),
           NEW y, y.type.at = "rest", y.counts = Between(m, h, c).counts
    PROVE  Rule(k, Emit(i), Between(m, h, c), y)
  <1> DEFINE z == Between(m, h, c)
  <1>1. h \in Nat /\ h + 0 = h /\ 0 \in Int /\ 0 \in Nat /\ h + (-0) = h /\ -0 \in Int
    BY DEF Heights
  <1>2. Taken(i) = 0 /\ i.type \in NoNext /\ i.type \notin Jumps \cup {"CALL", "RET"}
    BY DEF Taken, Jumps, BinaryOps, UnaryOps, NoNext
  <1>3. z.type.at = "rest"
    BY BetweenFields
  <1>4. By(z.type, -0, "rest", 0) = z.type
    BY <1>1, SpotBy DEF Between, Stages
  <1>6. Weaker(z.type, k.lab[l]) /\ y.counts = z.counts
    OBVIOUS
  <1> HIDE DEF z
  <1>8. Emitting(k, i, z.type, y.type)
    BY <1>2, <1>3, <1>4, <1>6 DEF Emitting, AtTarget
  <1>9. EmitRule(k, Emit(i), z, y)
    BY <1>2, <1>6, <1>8, TaskMade DEF EmitRule
  <1>10. Rule(k, Emit(i), z, y)
    BY <1>9, TaskMade DEF Rule
  <1> QED
    BY <1>10 DEF z

\* The control does not come past HALT.
LEMMA HaltLeads ==
    ASSUME NEW k, NEW z, NEW y, y.type.at = "rest", y.counts = z.counts
    PROVE  Rule(k, Emit(Plain("HALT")), z, y)
  <1> DEFINE i == Plain("HALT")
  <1>1. i.type = "HALT" /\ i \in Instr
    BY InstrFacts DEF Plain, InstrTypes, Encodable
  <1>2. i.type \in NoNext /\ i.type \notin Jumps \cup {"CALL", "RET", "JMP"}
    BY <1>1 DEF NoNext, Jumps
  <1> HIDE DEF i
  <1>3. Emitting(k, i, z.type, y.type)
    BY <1>2 DEF Emitting
  <1>4. EmitRule(k, Emit(i), z, y)
    BY <1>1, <1>2, <1>3, TaskMade DEF EmitRule
  <1>5. Rule(k, Emit(i), z, y)
    BY <1>1, <1>4, TaskMade DEF Rule
  <1> QED
    BY <1>5 DEF i

LEMMA WeakerSelf == \A x : Weaker(x, x)
  BY DEF Weaker

LEMMA WeakerOn ==
    ASSUME NEW x, NEW y, NEW z, Weaker(x, y), Weaker(y, z) PROVE Weaker(x, z)
  BY DEF Weaker, Main, InMain

LEMMA LabelLeads ==
    ASSUME NEW k, NEW l \in DOMAIN k.lab, l \in Nat,
           NEW m \in BOOLEAN, NEW h \in Heights, NEW c \in Seq(Nat), k.lab[l] = Between(m, h, c).type
    PROVE  Rule(k, Label(l), Between(m, h, c), Between(m, h, c))
  <1>1. Label(l).do = "numeric_label" /\ Label(l).num = l
    BY TaskMade
  <1>2. LabelRule(k, Label(l), Between(m, h, c), Between(m, h, c))
    BY <1>1, WeakerSelf DEF LabelRule
  <1> QED
    BY <1>1, <1>2 DEF Rule

\* An instruction whose operand is filled in afterwards.
LEMMA BareLeads ==
    ASSUME NEW k, NEW m \in BOOLEAN, NEW h \in Heights, NEW c \in Seq(Nat)
    PROVE  /\ Rule(k, Emit(Plain("PUSH")), Between(m, h, c), Spot(m, h + 1, "operand", 0, c))
           /\ Rule(k, Emit(Plain("POP")), Between(m, h + 1, c), Spot(m, h, "operand", 0, c))
           /\ \A v \in Int : Rule(k, GetVarCode(v), Spot(m, h, "operand", 0, c), Between(m, h, c))
  <1>1. /\ h \in Nat /\ h > 0 /\ h + 1 \in Nat /\ h + 1 > 1 /\ h + (1 - 0) = h + 1
        /\ (h + 1) + (0 - 1) = h /\ h + 0 = h /\ 1 - 0 \in Int /\ 0 - 1 \in Int /\ 0 \in Int
        /\ 0 \in Nat /\ 1 \in Nat /\ h + 1 \in Heights
    BY DEF Heights
  <1>2. Rule(k, Emit(Plain("PUSH")), Between(m, h, c), Spot(m, h + 1, "operand", 0, c))
    <2> DEFINE i == Plain("PUSH")
               z == Between(m, h, c)
               y == Spot(m, h + 1, "operand", 0, c)
    <2>1. i \in Instr /\ i.type = "PUSH" /\ ~HasOperand(i) /\ ~IntoRdx(i)
      BY InstrFacts DEF Plain, HasOperand, IntoRdx, InstrTypes, Encodable
    <2>2. Taken(i) = 0 /\ Left(i) = 1 /\ i.type \notin NoNext \cup Jumps \cup {"CALL"}
      BY <2>1 DEF Taken, Left, BinaryOps, UnaryOps, Jumps, NoNext
    <2>3. By(z.type, 1 - 0, "operand", 0) = y.type
      BY <1>1, SpotBy DEF Between, Stages
    <2>4. z.type.at = "rest" /\ Above(z.type, 0)
      BY <1>1, SpotAbove, BetweenFields DEF Between, Stages
    <2> HIDE DEF i
    <2>5. Ordinary(i, z.type, y.type)
      <3> HIDE DEF z, y
      <3> QED
        BY <2>1, <2>2, <2>3, <2>4 DEF Ordinary
    <2>6. Effect(i, z.type, y.type)
      BY <2>5 DEF Effect
    <2>8. "rest" \in Stages /\ "operand" \in Stages
      BY DEF Stages
    <2>7. Rule(k, Emit(i), z, y)
      BY <1>1, <2>1, <2>2, <2>6, <2>8, EmitLeads DEF Between
    <2> QED
      BY <2>7 DEF i
  <1>3. Rule(k, Emit(Plain("POP")), Between(m, h + 1, c), Spot(m, h, "operand", 0, c))
    <2> DEFINE i == Plain("POP")
               z == Between(m, h + 1, c)
               y == Spot(m, h, "operand", 0, c)
    <2>1. i \in Instr /\ i.type = "POP" /\ ~HasOperand(i) /\ ~IntoRdx(i)
      BY InstrFacts DEF Plain, HasOperand, IntoRdx, InstrTypes, Encodable, REG_RDX
    <2>2. Taken(i) = 1 /\ Left(i) = 0 /\ i.type \notin NoNext \cup Jumps \cup {"CALL"}
      BY <2>1 DEF Taken, Left, BinaryOps, UnaryOps, Jumps, NoNext
    <2>3. By(z.type, 0 - 1, "operand", 0) = y.type
      BY <1>1, SpotBy DEF Between, Stages
    <2>4. z.type.at = "rest" /\ Above(z.type, 1)
      BY <1>1, SpotAbove, BetweenFields DEF Between, Stages
    <2> HIDE DEF i
    <2>5. Ordinary(i, z.type, y.type)
      <3> HIDE DEF z, y
      <3> QED
        BY <2>1, <2>2, <2>3, <2>4 DEF Ordinary
    <2>6. Effect(i, z.type, y.type)
      BY <2>5 DEF Effect
    <2>8. "rest" \in Stages /\ "operand" \in Stages
      BY DEF Stages
    <2>7. Rule(k, Emit(i), z, y)
      BY <1>1, <2>1, <2>2, <2>6, <2>8, EmitLeads DEF Between
    <2> QED
      BY <2>7 DEF i
  <1>4. ASSUME NEW v \in Int
        PROVE  Rule(k, GetVarCode(v), Spot(m, h, "operand", 0, c), Between(m, h, c))
    <2> DEFINE z == Spot(m, h, "operand", 0, c)
               y == Between(m, h, c)
    <2>0. h \in Nat /\ "operand" \in Stages /\ 0 \in Nat
      BY <1>1 DEF Stages
    <2>1. By(z.type, 0, "rest", 0) = y.type
      BY <1>1, SpotBy DEF Between, Stages
    <2>5. /\ Spot(m, h, "operand", 0, c).counts = (IF m THEN << >> ELSE c)
          /\ Spot(m, h, "operand", 0, c).type.at = "operand"
      BY <2>0, SpotFields
    <2>6. y.counts = (IF m THEN << >> ELSE c)
      BY BetweenFields
    <2>7. \A a, b : Point(a, b) = Point(Point(a, b).type, Point(a, b).counts)
      BY DEF Point
    <2>8. \E a, b : y = Point(a, b)
      BY DEF Between, Spot
    <2>2. z.type.at = "operand" /\ z.counts = y.counts /\ y = Point(y.type, y.counts)
      BY <2>5, <2>6, <2>7, <2>8
    <2>3. Above(z.type, 0)
      BY <1>1, SpotAbove DEF Stages
    <2>4. GetVarCode(v).do = "get_var_code"
      BY TaskMade
    <2> HIDE DEF z, y
    <2>9. Rule(k, GetVarCode(v), z, y)
      BY <2>1, <2>2, <2>3, <2>4 DEF Rule
    <2> QED
      BY <2>9 DEF z, y
  <1> QED
    BY <1>2, <1>3, <1>4

\* A node outside functions or in one.
LEMMA NodeLeads ==
    ASSUME NEW k, NEW t, NEW m \in BOOLEAN, NEW h \in Heights, NEW j \in Heights,
           NEW c \in Seq(Nat), NEW d \in Seq(Nat),
           IF m THEN MainTask(k, t) ELSE FuncTask(k, t, h, c, j, d)
    PROVE  Rule(k, t, Between(m, h, c), Between(m, j, d))
  BY DEF Rule, NodeRule


-----------------------------------------------------------------------------
(* Calls and returns.                                                      *)

\* The instructions that move rdx.
LEMMA MoveInstr ==
    /\ \A r \in 0 .. 3 : /\ WithReg("PUSH", r) \in Instr /\ WithReg("PUSH", r).type = "PUSH"
                         /\ WithReg("POP", r) \in Instr /\ WithReg("POP", r).type = "POP"
    /\ \A n \in Int : /\ WithImm("PUSH", n) \in Instr /\ WithImm("PUSH", n).type = "PUSH"
                      /\ WithImm("PUSH", n).imm_arg = n
    /\ Plain("ADD") \in Instr /\ Plain("ADD").type = "ADD"
    /\ Plain("SUB") \in Instr /\ Plain("SUB").type = "SUB"
    /\ \A s \in {"PUSH", "POP", "ADD", "SUB", "INP", "OUT"} : s \notin NoNext \cup Jumps \cup {"CALL"}
    /\ REG_RDX \in 0 .. 3 /\ REG_RAX \in 0 .. 3 /\ REG_RBX \in 0 .. 3
  <1>1. /\ \A r \in 0 .. 3 : /\ WithReg("PUSH", r) \in Instr /\ WithReg("PUSH", r).type = "PUSH"
                           /\ WithReg("POP", r) \in Instr /\ WithReg("POP", r).type = "POP"
    BY InstrFacts DEF WithReg, Plain, InstrTypes, Encodable
  <1>2. /\ \A n \in Int : /\ WithImm("PUSH", n) \in Instr /\ WithImm("PUSH", n).type = "PUSH"
                        /\ WithImm("PUSH", n).imm_arg = n
    BY InstrFacts DEF WithImm, Plain, InstrTypes, Encodable
  <1>3. /\ Plain("ADD") \in Instr /\ Plain("ADD").type = "ADD"
        /\ Plain("SUB") \in Instr /\ Plain("SUB").type = "SUB"
    BY InstrFacts DEF Plain, InstrTypes, Encodable
  <1>4. \A s \in {"PUSH", "POP", "ADD", "SUB", "INP", "OUT"} : s \notin NoNext \cup Jumps \cup {"CALL"}
    BY DEF NoNext, Jumps
  <1>5. REG_RDX \in 0 .. 3 /\ REG_RAX \in 0 .. 3 /\ REG_RBX \in 0 .. 3
    BY DEF REG_RDX, REG_RAX, REG_RBX
  <1> QED
    BY <1>1, <1>2, <1>3, <1>4, <1>5

LEMMA MoveEffects ==
    ASSUME NEW x, NEW n \in Nat, x.func => x.size = n
    PROVE  /\ x.at = "rest" /\ Above(x, 0) => Effect(WithReg("PUSH", REG_RDX), x, By(x, 1, "frame", 0))
           /\ x.at = "size" => Effect(Plain("ADD"), x, By(x, -1, "sum", n))
           /\ x.at = "sum" => Effect(WithReg("POP", REG_RDX), x, By(x, -1, "moved", n))
           /\ x.at = "moved" => Effect(WithReg("PUSH", REG_RDX), x, By(x, 1, "top", n))
           /\ x.at = "top" => Effect(WithImm("PUSH", n), x, By(x, 1, "top_size", n))
           /\ x.at = "top_size" => Effect(Plain("SUB"), x, By(x, -1, "back", n))
           /\ x.at = "back" => Effect(WithReg("POP", REG_RDX), x, By(x, -1, "rest", 0))
  <1>1. \A d, q : By(x, d, q, n) = By(x, d, q, x.size)
    BY DEF By
  <1>2. WithImm("PUSH", n).type = "PUSH" /\ WithImm("PUSH", n).imm_arg = n
        /\ Plain("ADD").type = "ADD" /\ Plain("SUB").type = "SUB"
    BY MoveInstr
  <1>3. \A i, y : Moves(i, x, y) => Effect(i, x, y)
    BY DEF Effect
  <1>4. x.at = "rest" /\ Above(x, 0) => Moves(WithReg("PUSH", REG_RDX), x, By(x, 1, "frame", 0))
    BY DEF Moves
  <1>5. x.at = "moved" => Moves(WithReg("PUSH", REG_RDX), x, By(x, 1, "top", n))
    BY <1>1 DEF Moves
  <1>7. x.at = "top" => Moves(WithImm("PUSH", n), x, By(x, 1, "top_size", n))
    BY <1>1, <1>2 DEF Moves
  <1>8. x.at = "size" => Moves(Plain("ADD"), x, By(x, -1, "sum", n))
    BY <1>1, <1>2 DEF Moves
  <1>9. x.at = "top_size" => Moves(Plain("SUB"), x, By(x, -1, "back", n))
    BY <1>1, <1>2 DEF Moves
  <1>10. x.at = "sum" => Moves(WithReg("POP", REG_RDX), x, By(x, -1, "moved", n))
    BY <1>1 DEF Moves
  <1>11. x.at = "back" => Moves(WithReg("POP", REG_RDX), x, By(x, -1, "rest", 0))
    BY DEF Moves
  <1> QED
    BY <1>3, <1>4, <1>5, <1>7, <1>8, <1>9, <1>10, <1>11

LEMMA SizeEffect ==
    ASSUME NEW x, x.at = "frame", NEW n \in Nat
    PROVE  Effect(WithImm("PUSH", n), x, By(x, 1, "size", n))
  <1>1. WithImm("PUSH", n).type = "PUSH" /\ WithImm("PUSH", n).imm_arg = n
    BY MoveInstr
  <1> QED
    BY <1>1 DEF Effect, Moves

\* One of them.
LEMMA ByLeads ==
    ASSUME NEW k, NEW i \in Instr, i.type \in {"PUSH", "POP", "ADD", "SUB", "INP", "OUT"},
           NEW m \in BOOLEAN, NEW h \in Nat, NEW p \in Stages, NEW n \in Nat, NEW c \in Seq(Nat),
           NEW d \in Int, NEW j \in Nat, j = h + d, NEW q \in Stages, NEW o \in Nat,
           Effect(i, Spot(m, h, p, n, c).type, By(Spot(m, h, p, n, c).type, d, q, o))
    PROVE  Rule(k, Emit(i), Spot(m, h, p, n, c), Spot(m, j, q, o, c))
  <1>1. By(Spot(m, h, p, n, c).type, d, q, o) = Spot(m, j, q, o, c).type
    BY SpotBy
  <1>2. i.type \notin NoNext \cup Jumps \cup {"CALL"}
    BY MoveInstr
  <1> QED
    BY <1>1, <1>2, EmitLeads

LEMMA MoveFrameLeads ==
    ASSUME NEW k, NEW m \in BOOLEAN, NEW h \in Heights, NEW n \in Nat, NEW c \in Seq(Nat)
    PROVE  /\ Leads(k, << Emit(WithReg("PUSH", REG_RDX)), Emit(WithImm("PUSH", n)),
                          Emit(Plain("ADD")), Emit(WithReg("POP", REG_RDX)) >>,
                    Between(m, h, c), Spot(m, h, "moved", n, c))
           /\ Leads(k, << Emit(WithReg("PUSH", REG_RDX)), Emit(WithImm("PUSH", n)),
                          Emit(Plain("SUB")), Emit(WithReg("POP", REG_RDX)) >>,
                    Spot(m, h, "moved", n, c), Between(m, h, c))
  <1> DEFINE pr == WithReg("PUSH", REG_RDX)
             pi == WithImm("PUSH", n)
             ad == Plain("ADD")
             su == Plain("SUB")
             po == WithReg("POP", REG_RDX)
             minus == -1
             zero == 0
             one == 1
             h1 == h + 1
             h2 == h + 2
             rest == Spot(m, h, "rest", zero, c)
             frame == Spot(m, h1, "frame", zero, c)
             size == Spot(m, h2, "size", n, c)
             sum == Spot(m, h1, "sum", n, c)
             moved == Spot(m, h, "moved", n, c)
             top == Spot(m, h1, "top", n, c)
             top_size == Spot(m, h2, "top_size", n, c)
             back == Spot(m, h1, "back", n, c)
  <1>1. /\ h \in Nat /\ h1 \in Nat /\ h2 \in Nat /\ h1 = h + one /\ h2 = h1 + one
        /\ h1 = h2 + minus /\ h = h1 + minus /\ h > zero /\ zero \in Nat
        /\ minus \in Int /\ one \in Int
    BY DEF Heights
  <1>2. /\ pr \in Instr /\ pr.type = "PUSH" /\ pi \in Instr /\ pi.type = "PUSH"
        /\ ad \in Instr /\ ad.type = "ADD" /\ su \in Instr /\ su.type = "SUB"
        /\ po \in Instr /\ po.type = "POP"
    BY MoveInstr
  <1>4. /\ Emit(pr) \in Tasks /\ Emit(pi) \in Tasks /\ Emit(ad) \in Tasks /\ Emit(su) \in Tasks
        /\ Emit(po) \in Tasks
    BY <1>2, TaskMade
  <1>3. /\ "rest" \in Stages /\ "frame" \in Stages /\ "size" \in Stages /\ "sum" \in Stages
        /\ "moved" \in Stages /\ "top" \in Stages /\ "top_size" \in Stages /\ "back" \in Stages
    BY DEF Stages
  <1>10. rest \in Points /\ rest.type.at = "rest" /\ (rest.type.func => rest.type.size = zero)
    <2>1. h \in Nat /\ zero \in Nat /\ "rest" \in Stages
      BY <1>1, <1>3
    <2> HIDE DEF h1, h2, zero
    <2> QED
      BY <2>1, SpotStage
  <1>11. frame \in Points /\ frame.type.at = "frame" /\ (frame.type.func => frame.type.size = zero)
    <2>1. h1 \in Nat /\ zero \in Nat /\ "frame" \in Stages
      BY <1>1, <1>3
    <2> HIDE DEF h1, h2, zero
    <2> QED
      BY <2>1, SpotStage
  <1>12. size \in Points /\ size.type.at = "size" /\ (size.type.func => size.type.size = n)
    <2>1. h2 \in Nat /\ n \in Nat /\ "size" \in Stages
      BY <1>1, <1>3
    <2> HIDE DEF h1, h2, zero
    <2> QED
      BY <2>1, SpotStage
  <1>13. sum \in Points /\ sum.type.at = "sum" /\ (sum.type.func => sum.type.size = n)
    <2>1. h1 \in Nat /\ n \in Nat /\ "sum" \in Stages
      BY <1>1, <1>3
    <2> HIDE DEF h1, h2, zero
    <2> QED
      BY <2>1, SpotStage
  <1>14. moved \in Points /\ moved.type.at = "moved" /\ (moved.type.func => moved.type.size = n)
    <2>1. h \in Nat /\ n \in Nat /\ "moved" \in Stages
      BY <1>1, <1>3
    <2> HIDE DEF h1, h2, zero
    <2> QED
      BY <2>1, SpotStage
  <1>15. top \in Points /\ top.type.at = "top" /\ (top.type.func => top.type.size = n)
    <2>1. h1 \in Nat /\ n \in Nat /\ "top" \in Stages
      BY <1>1, <1>3
    <2> HIDE DEF h1, h2, zero
    <2> QED
      BY <2>1, SpotStage
  <1>16. top_size \in Points /\ top_size.type.at = "top_size" /\ (top_size.type.func => top_size.type.size = n)
    <2>1. h2 \in Nat /\ n \in Nat /\ "top_size" \in Stages
      BY <1>1, <1>3
    <2> HIDE DEF h1, h2, zero
    <2> QED
      BY <2>1, SpotStage
  <1>17. back \in Points /\ back.type.at = "back" /\ (back.type.func => back.type.size = n)
    <2>1. h1 \in Nat /\ n \in Nat /\ "back" \in Stages
      BY <1>1, <1>3
    <2> HIDE DEF h1, h2, zero
    <2> QED
      BY <2>1, SpotStage
  <1>6. Above(rest.type, zero)
    BY <1>1, <1>3, SpotAbove
  <1>20. Rule(k, Emit(pr), rest, frame)
    <2>1. Effect(pr, rest.type, By(rest.type, one, "frame", zero))
      <3> HIDE DEF rest
      <3> QED
        BY <1>1, <1>10, <1>6, MoveEffects
    <2> HIDE DEF pr, zero, one, minus, h1, h2
    <2> QED
      BY <1>1, <1>2, <1>3, <2>1, ByLeads DEF rest, frame
  <1>21. Rule(k, Emit(pi), frame, size)
    <2>1. Effect(pi, frame.type, By(frame.type, one, "size", n))
      <3> HIDE DEF frame
      <3> QED
        BY <1>1, <1>11, SizeEffect
    <2> HIDE DEF pi, zero, one, minus, h1, h2
    <2> QED
      BY <1>1, <1>2, <1>3, <2>1, ByLeads DEF frame, size
  <1>22. Rule(k, Emit(ad), size, sum)
    <2>1. Effect(ad, size.type, By(size.type, minus, "sum", n))
      <3> HIDE DEF size
      <3> QED
        BY <1>1, <1>12, MoveEffects
    <2> HIDE DEF ad, zero, one, minus, h1, h2
    <2> QED
      BY <1>1, <1>2, <1>3, <2>1, ByLeads DEF size, sum
  <1>23. Rule(k, Emit(po), sum, moved)
    <2>1. Effect(po, sum.type, By(sum.type, minus, "moved", n))
      <3> HIDE DEF sum
      <3> QED
        BY <1>1, <1>13, MoveEffects
    <2> HIDE DEF po, zero, one, minus, h1, h2
    <2> QED
      BY <1>1, <1>2, <1>3, <2>1, ByLeads DEF sum, moved
  <1>24. Rule(k, Emit(pr), moved, top)
    <2>1. Effect(pr, moved.type, By(moved.type, one, "top", n))
      <3> HIDE DEF moved
      <3> QED
        BY <1>1, <1>14, MoveEffects
    <2> HIDE DEF pr, zero, one, minus, h1, h2
    <2> QED
      BY <1>1, <1>2, <1>3, <2>1, ByLeads DEF moved, top
  <1>25. Rule(k, Emit(pi), top, top_size)
    <2>1. Effect(pi, top.type, By(top.type, one, "top_size", n))
      <3> HIDE DEF top
      <3> QED
        BY <1>1, <1>15, MoveEffects
    <2> HIDE DEF pi, zero, one, minus, h1, h2
    <2> QED
      BY <1>1, <1>2, <1>3, <2>1, ByLeads DEF top, top_size
  <1>26. Rule(k, Emit(su), top_size, back)
    <2>1. Effect(su, top_size.type, By(top_size.type, minus, "back", n))
      <3> HIDE DEF top_size
      <3> QED
        BY <1>1, <1>16, MoveEffects
    <2> HIDE DEF su, zero, one, minus, h1, h2
    <2> QED
      BY <1>1, <1>2, <1>3, <2>1, ByLeads DEF top_size, back
  <1>27. Rule(k, Emit(po), back, rest)
    <2>1. Effect(po, back.type, By(back.type, minus, "rest", zero))
      <3> HIDE DEF back
      <3> QED
        BY <1>1, <1>17, MoveEffects
    <2> HIDE DEF po, zero, one, minus, h1, h2
    <2> QED
      BY <1>1, <1>2, <1>3, <2>1, ByLeads DEF back, rest
  <1> HIDE DEF pr, pi, ad, su, po, rest, frame, size, sum, moved, top, top_size, back
  <1>7. Leads(k, << Emit(pr), Emit(pi), Emit(ad), Emit(po) >>, rest, moved)
    BY <1>4, <1>10, <1>11, <1>12, <1>13, <1>14, <1>20, <1>21, <1>22, <1>23, LeadsFour
  <1>8. Leads(k, << Emit(pr), Emit(pi), Emit(su), Emit(po) >>, moved, rest)
    BY <1>4, <1>14, <1>15, <1>16, <1>17, <1>10, <1>24, <1>25, <1>26, <1>27, LeadsFour
  <1> QED
    BY <1>7, <1>8 DEF Between, pr, pi, ad, su, po, rest, moved, zero

\* The arguments are popped into the frame of the function.
LEMMA CallInstr ==
    /\ \A v \in Int : /\ WithMem("POP", REG_RDX, v) \in Instr /\ WithMem("POP", REG_RDX, v).type = "POP"
                      /\ WithMem("POP", REG_RDX, v).need_mem_arg
                      /\ WithImm("CALL", v) \in Instr /\ WithImm("CALL", v).type = "CALL"
                      /\ WithImm("CALL", v).imm_arg = v
  <1>1. "POP" \in InstrTypes /\ "CALL" \in InstrTypes /\ REG_RDX \in 0 .. 3
    BY DEF InstrTypes, Encodable, REG_RDX
  <1>2. ASSUME NEW v \in Int
        PROVE  WithMem("POP", REG_RDX, v) \in Instr /\ WithImm("CALL", v) \in Instr
    BY <1>1, InstrFacts
  <1> QED
    BY <1>2 DEF WithMem, WithImm, Plain

LEMMA ArgumentLeads ==
    ASSUME NEW k, NEW m \in BOOLEAN, NEW h \in Heights, NEW n \in Nat, NEW c \in Seq(Nat), NEW v \in Int
    PROVE  Rule(k, Emit(WithMem("POP", REG_RDX, v)), Spot(m, h + 1, "moved", n, c), Spot(m, h, "moved", n, c))
  <1> DEFINE i == WithMem("POP", REG_RDX, v)
             g == h + 1
             z == Spot(m, g, "moved", n, c)
             minus == -1
             one == 1
  <1>1. /\ h \in Nat /\ g \in Nat /\ g > one /\ h = g + minus /\ minus \in Int /\ one \in Nat
        /\ "moved" \in Stages
    BY DEF Heights, Stages
  <1>2. i \in Instr /\ i.type = "POP" /\ i.need_mem_arg
    BY CallInstr
  <1> HIDE DEF g, one, minus
  <1>3. z.type.at = "moved" /\ z.type.func = ~m /\ (~m => z.type.size = n)
    BY <1>1, SpotFields
  <1>4. Above(z.type, one)
    BY <1>1, SpotAbove
  <1> HIDE DEF i, z
  <1>5. By(z.type, minus, "moved", n) = By(z.type, minus, "moved", z.type.size)
    BY <1>3 DEF By
  <1>6. PassesOn(i, z.type, By(z.type, minus, "moved", n))
    BY <1>2, <1>3, <1>4, <1>5 DEF PassesOn, one, minus
  <1>7. Effect(i, z.type, By(z.type, minus, "moved", n))
    BY <1>6 DEF Effect
  <1>8. Rule(k, Emit(i), z, Spot(m, h, "moved", n, c))
    BY <1>1, <1>2, <1>7, ByLeads DEF z
  <1> QED
    BY <1>8 DEF i, z, g

LEMMA ArgumentsLead ==
    ASSUME NEW k, NEW m \in BOOLEAN, NEW h \in Heights, NEW n \in Nat, NEW c \in Seq(Nat), NEW q \in Nat
    PROVE  Leads(k, [i \in 1 .. q |-> Emit(WithMem("POP", REG_RDX, q - i))],
                 Spot(m, h + q, "moved", n, c), Spot(m, h, "moved", n, c))
  <1> DEFINE L == [i \in 1 .. q |-> Emit(WithMem("POP", REG_RDX, q - i))]
             w == [i \in 1 .. q + 1 |-> Spot(m, h + (q + 1 - i), "moved", n, c)]
  <1>1. Len(L) = q /\ \A i \in 1 .. q : L[i] = Emit(WithMem("POP", REG_RDX, q - i))
    OBVIOUS
  <1>2. \A i \in 1 .. q + 1 : w[i] = Spot(m, h + (q + 1 - i), "moved", n, c)
    OBVIOUS
  <1> HIDE DEF L, w
  <1>3. w[1] = Spot(m, h + q, "moved", n, c) /\ w[q + 1] = Spot(m, h, "moved", n, c)
    <2>1. /\ 1 \in 1 .. q + 1 /\ q + 1 \in 1 .. q + 1 /\ h + (q + 1 - 1) = h + q
          /\ h + (q + 1 - (q + 1)) = h
      BY DEF Heights
    <2> QED
      BY <1>2, <2>1
  <1>4. \A i \in 1 .. q + 1 : w[i] \in Points
    <2> TAKE i \in 1 .. q + 1
    <2> DEFINE g == h + (q + 1 - i)
    <2>1. g \in Nat /\ "moved" \in Stages
      BY DEF Heights, Stages
    <2>2. w[i] = Spot(m, g, "moved", n, c)
      BY <1>2
    <2> HIDE DEF g
    <2>3. Spot(m, g, "moved", n, c) \in Points
      BY <2>1, SpotStage
    <2> QED
      BY <2>2, <2>3
  <1>5. \A i \in 1 .. q : Rule(k, L[i], w[i], w[i + 1])
    <2> TAKE i \in 1 .. q
    <2> DEFINE g == h + (q + 1 - (i + 1))
    <2>1. /\ i \in 1 .. q + 1 /\ i + 1 \in 1 .. q + 1 /\ g \in Heights /\ h + (q + 1 - i) = g + 1
          /\ q - i \in Int
      BY DEF Heights
    <2>2. w[i + 1] = Spot(m, g, "moved", n, c) /\ w[i] = Spot(m, g + 1, "moved", n, c)
      BY <1>2, <2>1
    <2> HIDE DEF g
    <2> QED
      BY <1>1, <2>1, <2>2, ArgumentLeads
  <1>6. Leads(k, L, Spot(m, h + q, "moved", n, c), Spot(m, h, "moved", n, c))
    BY <1>1, <1>3, <1>4, <1>5 DEF Leads
  <1> QED
    BY <1>6 DEF L

LEMMA CallLeads ==
    ASSUME NEW k, NEW m \in BOOLEAN, NEW h \in Heights, NEW n \in Nat, NEW c \in Seq(Nat),
           NEW f, addr_transl_translate(k.funcs, f) \in Int
    PROVE  Rule(k, Emit(WithImm("CALL", addr_transl_translate(k.funcs, f))),
                Spot(m, h, "moved", n, c), Spot(m, h + 1, "moved", n, c))
  <1> DEFINE i == WithImm("CALL", addr_transl_translate(k.funcs, f))
             z == Spot(m, h, "moved", n, c)
             y == Spot(m, h + 1, "moved", n, c)
             zero == 0
             one == 1
  <1>1. h \in Nat /\ h + one \in Nat /\ h > zero /\ one \in Int /\ "moved" \in Stages /\ zero \in Nat
    BY DEF Heights, Stages
  <1>2. i \in Instr /\ i.type = "CALL" /\ i.imm_arg = addr_transl_translate(k.funcs, f)
    BY CallInstr
  <1>3. z.type.at = "moved" /\ z.type.func = ~m /\ (~m => z.type.size = n)
    BY <1>1, SpotFields
  <1>4. Above(z.type, zero)
    BY <1>1, SpotAbove
  <1>5. By(z.type, one, "moved", n) = y.type
    <2> HIDE DEF one
    <2>1. By(z.type, one, "moved", n) = Spot(m, h + one, "moved", n, c).type
      BY <1>1, SpotBy
    <2> QED
      BY <2>1 DEF one
  <1>6. z.counts = y.counts
    <2> DEFINE g == h + 1
    <2>1. g \in Nat
      BY <1>1
    <2> HIDE DEF g
    <2>2. Spot(m, g, "moved", n, c).counts = z.counts
      BY <1>1, <2>1, SpotFields
    <2> QED
      BY <2>2 DEF g
  <1> HIDE DEF i, z, y
  <1>7. By(z.type, one, "moved", n) = By(z.type, one, "moved", z.type.size)
    BY <1>3 DEF By
  <1>8. Effect(i, z.type, y.type)
    BY <1>2, <1>3, <1>4, <1>5, <1>7 DEF Effect, PassesOn
  <1>9. i.type \notin NoNext \cup Jumps \cup {"JMP", "RET"}
    BY <1>2 DEF NoNext, Jumps
  <1>10. Emitting(k, i, z.type, y.type)
    BY <1>2, <1>8, <1>9 DEF Emitting
  <1>11. EmitRule(k, Emit(i), z, y)
    BY <1>2, <1>6, <1>10, TaskMade DEF EmitRule
  <1>12. Rule(k, Emit(i), z, y)
    BY <1>2, <1>11, TaskMade DEF Rule
  <1> QED
    BY <1>12 DEF i, z, y

\* A call: q arguments are taken, and the result is left.
LEMMA CallsLead ==
    ASSUME NEW k, NEW m \in BOOLEAN, NEW h \in Heights, NEW n \in Nat, NEW c \in Seq(Nat), NEW q \in Nat,
           NEW f, addr_transl_translate(k.funcs, f) \in Int,
           NEW A, A = << Emit(WithReg("PUSH", REG_RDX)), Emit(WithImm("PUSH", n)), Emit(Plain("ADD")),
                         Emit(WithReg("POP", REG_RDX)) >>,
           NEW D, D = << Emit(WithReg("PUSH", REG_RDX)), Emit(WithImm("PUSH", n)), Emit(Plain("SUB")),
                         Emit(WithReg("POP", REG_RDX)) >>
    PROVE  Leads(k, A \o [i \in 1 .. q |-> Emit(WithMem("POP", REG_RDX, q - i))]
                      \o << Emit(WithImm("CALL", addr_transl_translate(k.funcs, f))) >> \o D,
                 Between(m, h + q, c), Between(m, h + 1, c))
  <1> DEFINE B == [i \in 1 .. q |-> Emit(WithMem("POP", REG_RDX, q - i))]
             t == Emit(WithImm("CALL", addr_transl_translate(k.funcs, f)))
             C == << t >>
  <1>1. h + q \in Heights /\ h + 1 \in Heights /\ h \in Nat /\ h + 1 \in Nat /\ "moved" \in Stages
    BY DEF Heights, Stages
  <1>2. /\ Emit(WithReg("PUSH", REG_RDX)) \in Tasks /\ Emit(WithImm("PUSH", n)) \in Tasks
        /\ Emit(Plain("ADD")) \in Tasks /\ Emit(Plain("SUB")) \in Tasks
        /\ Emit(WithReg("POP", REG_RDX)) \in Tasks
    BY MoveInstr, TaskMade
  <1>3. A \in Seq(Tasks) /\ D \in Seq(Tasks)
    BY <1>2
  <1>4. B \in Seq(Tasks)
    <2>1. \A i \in 1 .. q : Emit(WithMem("POP", REG_RDX, q - i)) \in Tasks
      BY CallInstr, TaskMade
    <2> QED
      BY <2>1
  <1>5. t \in Tasks
    BY CallInstr, TaskMade
  <1>6. C \in Seq(Tasks)
    BY <1>5
  <1>7. Leads(k, A, Between(m, h + q, c), Spot(m, h + q, "moved", n, c))
    BY <1>1, MoveFrameLeads
  <1>8. Leads(k, D, Spot(m, h + 1, "moved", n, c), Between(m, h + 1, c))
    BY <1>1, MoveFrameLeads
  <1>9. Leads(k, B, Spot(m, h + q, "moved", n, c), Spot(m, h, "moved", n, c))
    BY ArgumentsLead
  <1>10. Rule(k, t, Spot(m, h, "moved", n, c), Spot(m, h + 1, "moved", n, c))
    BY CallLeads
  <1>11. Spot(m, h, "moved", n, c) \in Points
    BY <1>1, SpotFields
  <1>12. Spot(m, h + 1, "moved", n, c) \in Points
    <2> DEFINE g == h + 1
    <2> HIDE DEF g
    <2>1. g \in Nat
      BY <1>1 DEF g
    <2>2. Spot(m, g, "moved", n, c) \in Points
      BY <1>1, <2>1, SpotFields
    <2> QED
      BY <2>2 DEF g
  <1> HIDE DEF B, t
  <1>13. Leads(k, C, Spot(m, h, "moved", n, c), Spot(m, h + 1, "moved", n, c))
    BY <1>10, <1>11, <1>12, LeadsOne
  <1> HIDE DEF C
  <1>14. A \o B \in Seq(Tasks) /\ A \o B \o C \in Seq(Tasks)
    BY <1>3, <1>4, <1>6
  <1>15. Leads(k, A \o B, Between(m, h + q, c), Spot(m, h, "moved", n, c))
    BY <1>3, <1>4, <1>7, <1>9, LeadsOn
  <1>16. Leads(k, A \o B \o C, Between(m, h + q, c), Spot(m, h + 1, "moved", n, c))
    BY <1>6, <1>13, <1>14, <1>15, LeadsOn
  <1>17. Leads(k, A \o B \o C \o D, Between(m, h + q, c), Between(m, h + 1, c))
    BY <1>3, <1>8, <1>14, <1>16, LeadsOn
  <1> QED
    BY <1>17 DEF B, C, t

\* The return: the result is on the top, and above the return address.
LEMMA ReturnLeads ==
    ASSUME NEW k, NEW c \in Seq(Nat)
    PROVE  Leads(k, << Emit(WithReg("POP", REG_RBX)), Emit(WithReg("PUSH", REG_RAX)),
                       Emit(WithReg("PUSH", REG_RBX)), Emit(Plain("RET")) >>,
                 Between(FALSE, 1, c), Between(FALSE, 1, c))
  <1> DEFINE a == WithReg("POP", REG_RBX)
             b == WithReg("PUSH", REG_RAX)
             d == WithReg("PUSH", REG_RBX)
             e == Plain("RET")
             m == FALSE
             zero == 0
             one == 1
             two == 2
             p == Spot(m, one, "rest", zero, c)
             q == Spot(m, zero, "taken", zero, c)
             r == Spot(m, one, "result", zero, c)
             s == Spot(m, two, "return", zero, c)
  <1>1. /\ "rest" \in Stages /\ "taken" \in Stages /\ "result" \in Stages /\ "return" \in Stages
        /\ m \in BOOLEAN /\ ~m /\ zero \in Nat /\ one \in Nat /\ two \in Nat
    BY DEF Stages
  <1>2. /\ a \in Instr /\ a.type = "POP" /\ b \in Instr /\ b.type = "PUSH"
        /\ d \in Instr /\ d.type = "PUSH" /\ e \in Instr /\ e.type = "RET"
    BY MoveInstr, InstrFacts DEF Plain, InstrTypes, Encodable
  <1> HIDE DEF a, b, d, e
  <1>3. /\ Emit(a) \in Tasks /\ Emit(b) \in Tasks /\ Emit(d) \in Tasks /\ Emit(e) \in Tasks
    BY <1>2, TaskMade
  <1> HIDE DEF zero, one, two, m
  <1>4. /\ p \in Points /\ p.type = InFunc(one, "rest", zero) /\ p.counts = c /\ p.type.at = "rest"
    BY <1>1, SpotFields
  <1>5. /\ q \in Points /\ q.type = InFunc(zero, "taken", zero) /\ q.counts = c
    BY <1>1, SpotFields
  <1>6. /\ r \in Points /\ r.type = InFunc(one, "result", zero) /\ r.counts = c
    BY <1>1, SpotFields
  <1>7. /\ s \in Points /\ s.type = InFunc(two, "return", zero) /\ s.counts = c
    BY <1>1, SpotFields
  <1>8. Rule(k, Emit(a), p, q)
    <2>1. Effect(a, p.type, q.type)
      <3> HIDE DEF p, q
      <3> QED
        BY <1>4, <1>5 DEF Effect, Returns, Entry, zero, one, a
    <2> QED
      BY <1>1, <1>2, <2>1, MoveInstr, EmitLeads
  <1>9. Rule(k, Emit(b), q, r)
    <2>1. Effect(b, q.type, r.type)
      <3> HIDE DEF q, r
      <3> QED
        BY <1>5, <1>6 DEF Effect, Returns, zero, one, b
    <2> QED
      BY <1>1, <1>2, <2>1, MoveInstr, EmitLeads
  <1>10. Rule(k, Emit(d), r, s)
    <2>1. Effect(d, r.type, s.type)
      <3> HIDE DEF r, s
      <3> QED
        BY <1>6, <1>7 DEF Effect, Returns, zero, one, two, d
    <2> QED
      BY <1>1, <1>2, <2>1, MoveInstr, EmitLeads
  <1>11. Rule(k, Emit(e), s, p)
    <2> HIDE DEF p, s
    <2>1. e.type \in NoNext /\ e.type \notin Jumps \cup {"CALL", "JMP"}
      BY <1>2 DEF NoNext, Jumps
    <2>2. Emitting(k, e, s.type, p.type)
      BY <1>4, <1>7, <2>1 DEF Emitting, zero, two
    <2>3. EmitRule(k, Emit(e), s, p)
      BY <1>2, <1>4, <1>7, <2>2, TaskMade DEF EmitRule
    <2> QED
      BY <1>2, <2>3, TaskMade DEF Rule
  <1> HIDE DEF p, q, r, s
  <1>12. Leads(k, << Emit(a), Emit(b), Emit(d), Emit(e) >>, p, p)
    BY <1>3, <1>4, <1>5, <1>6, <1>7, <1>8, <1>9, <1>10, <1>11, LeadsFour
  <1> QED
    BY <1>12 DEF a, b, d, e, p, Between, m, zero, one

\* The code begins with rdx at zero.
LEMMA BeginLeads ==
    ASSUME NEW k
    PROVE  Leads(k, << Emit(WithImm("PUSH", 0)), Emit(WithReg("POP", REG_RDX)) >>,
                 Point(Main, << >>), Point(Main, << >>))
  <1> DEFINE a == WithImm("PUSH", 0)
             b == WithReg("POP", REG_RDX)
             p == Point(Main, << >>)
             q == Point(InMain("start"), << >>)
  <1>1. /\ p \in Points /\ q \in Points /\ p.type = Main /\ q.type = InMain("start")
        /\ p.counts = << >> /\ q.counts = << >>
    BY DEF Point, Points, Main, InMain, Types, Stages
  <1>2. /\ a \in Instr /\ a.type = "PUSH" /\ a = WithImm("PUSH", a.imm_arg)
        /\ b \in Instr /\ b.type = "POP"
    BY MoveInstr
  <1>3. Emit(a) \in Tasks /\ Emit(b) \in Tasks
    BY <1>2, TaskMade
  <1> HIDE DEF a, p, q
  <1>4. Effect(a, p.type, q.type) /\ Effect(b, q.type, p.type)
    BY <1>1, <1>2 DEF Effect, ZeroesRdx
  <1> HIDE DEF b
  <1>5. /\ \A i \in {a, b} : i.type \notin NoNext \cup Jumps \cup {"CALL", "RET", "JMP"}
    BY <1>2, MoveInstr DEF NoNext
  <1>6. Emitting(k, a, p.type, q.type) /\ Emitting(k, b, q.type, p.type)
    BY <1>4, <1>5 DEF Emitting
  <1>7. EmitRule(k, Emit(a), p, q) /\ EmitRule(k, Emit(b), q, p)
    BY <1>1, <1>2, <1>6, TaskMade DEF EmitRule
  <1>8. Rule(k, Emit(a), p, q) /\ Rule(k, Emit(b), q, p)
    BY <1>2, <1>7, TaskMade DEF Rule
  <1>9. Leads(k, << Emit(a), Emit(b) >>, p, p)
    BY <1>1, <1>3, <1>8, LeadsTwo
  <1> QED
    BY <1>9 DEF a, b, p
-----------------------------------------------------------------------------
(* The tasks of the nodes.                                                 *)

InExpr(k, m, n)    == IF m THEN n \in k.g.main ELSE n \in k.g.expr
InBody(k, m, n, u) == IF m THEN n \in k.g.main ELSE n \in k.g.body /\ (u => NotCall(n))
InArgs(k, m, n)    == IF m THEN n \in k.g.main ELSE n \in k.g.args

LEMMA MainSame == \A h, j, c, d : Between(TRUE, h, c) = Between(TRUE, j, d)
  BY DEF Between, Spot

LEMMA ExprLeads ==
    ASSUME NEW k, NEW m \in BOOLEAN, NEW c \in Seq(Nat), NEW n \in MaybeNodes, NEW h \in Heights,
           InExpr(k, m, n)
    PROVE  Rule(k, Convert(n, TRUE), Between(m, h, c), Between(m, h + 1, c))
  <1> DEFINE t == Convert(n, TRUE)
  <1>1. t.do = "subtree_convert" /\ t.node = n /\ t.result_used
    BY TaskMade
  <1>2. h + 1 \in Heights
    BY DEF Heights
  <1> HIDE DEF t
  <1>3. IF m THEN MainTask(k, t) ELSE FuncTask(k, t, h, c, h + 1, c)
    BY <1>1 DEF InExpr, MainTask, FuncTask
  <1> QED
    BY <1>2, <1>3, NodeLeads DEF t

LEMMA BodyLeads ==
    ASSUME NEW k, NEW m \in BOOLEAN, NEW c \in Seq(Nat), NEW n \in MaybeNodes, NEW u \in BOOLEAN,
           InBody(k, m, n, u)
    PROVE  Rule(k, Convert(n, u), Between(m, 1, c), Between(m, 1, c))
  <1> DEFINE t == Convert(n, u)
  <1>1. t.do = "subtree_convert" /\ t.node = n /\ t.result_used = u
    BY TaskMade
  <1>2. 1 \in Heights
    BY DEF Heights
  <1> HIDE DEF t
  <1>3. IF m THEN MainTask(k, t) ELSE FuncTask(k, t, 1, c, 1, c)
    BY <1>1 DEF InBody, MainTask, FuncTask
  <1> QED
    BY <1>2, <1>3, NodeLeads DEF t

\* The tasks that belong to a handler.
LEMMA RestLeads ==
    ASSUME NEW k, NEW m \in BOOLEAN, NEW c \in Seq(Nat), NEW h \in Heights
    PROVE  /\ \A n \in MaybeNodes :
                 /\ Rule(k, Rest("emit_assig", n), Between(m, h + 1, c), Between(m, h, c))
                 /\ InBody(k, m, n.left, TRUE) /\ InBody(k, m, n.right, TRUE) =>
                       Rule(k, Rest("if", n), Between(m, 3, c), Between(m, 1, c))
           /\ \A j \in Jumps :
                 Rule(k, PushTrueFalse(j), Between(m, h + 2, c), Between(m, h + 1, c))
           /\ \A s \in {"operands_done", "catch"} : \A z : Rule(k, Mark(s), z, z)
  <1>1. h + 1 \in Heights /\ h + 2 \in Heights /\ 3 \in Heights /\ 1 \in Heights
        /\ h + 2 = (h + 1) + 1 /\ h + 2 >= 3
    BY DEF Heights
  <1>2. ASSUME NEW n \in MaybeNodes
        PROVE  Rule(k, Rest("emit_assig", n), Between(m, h + 1, c), Between(m, h, c))
    <2> DEFINE t == Rest("emit_assig", n)
    <2>1. t.do = "emit_assig"
      BY TaskMade
    <2> HIDE DEF t
    <2>2. IF m THEN MainTask(k, t) ELSE FuncTask(k, t, h + 1, c, h, c)
      BY <2>1 DEF MainTask, FuncTask
    <2> QED
      BY <1>1, <2>2, NodeLeads DEF t
  <1>3. ASSUME NEW n \in MaybeNodes, InBody(k, m, n.left, TRUE), InBody(k, m, n.right, TRUE)
        PROVE  Rule(k, Rest("if", n), Between(m, 3, c), Between(m, 1, c))
    <2> DEFINE t == Rest("if", n)
    <2>1. t.do = "if" /\ t.node = n
      BY TaskMade
    <2> HIDE DEF t
    <2>2. IF m THEN MainTask(k, t) ELSE FuncTask(k, t, 3, c, 1, c)
      BY <1>3, <2>1 DEF MainTask, FuncTask, InBody
    <2> QED
      BY <1>1, <2>2, NodeLeads DEF t
  <1>4. ASSUME NEW j \in Jumps
        PROVE  Rule(k, PushTrueFalse(j), Between(m, h + 2, c), Between(m, h + 1, c))
    <2> DEFINE t == PushTrueFalse(j)
    <2>1. t.do = "push_true_false"
      BY TaskMade
    <2> HIDE DEF t
    <2>2. IF m THEN MainTask(k, t) ELSE FuncTask(k, t, h + 2, c, h + 1, c)
      BY <1>1, <2>1 DEF MainTask, FuncTask
    <2> QED
      BY <1>1, <2>2, NodeLeads DEF t
  <1>5. ASSUME NEW s \in {"operands_done", "catch"}, NEW z PROVE Rule(k, Mark(s), z, z)
    BY TaskMade DEF Rule
  <1> QED
    BY <1>2, <1>3, <1>4, <1>5
-----------------------------------------------------------------------------
(* The lists of the handlers.                                              *)

LEMMA HeightsUp ==
    ASSUME NEW m \in BOOLEAN, NEW h \in Heights, NEW c \in Seq(Nat)
    PROVE  /\ h + 1 \in Heights /\ h + 2 \in Heights /\ (h + 1) + 1 = h + 2
           /\ Between(m, h, c) \in Points /\ Between(m, h + 1, c) \in Points
           /\ Between(m, h + 2, c) \in Points
  <1> DEFINE g == h + 1
             i == h + 2
  <1>1. g \in Heights /\ i \in Heights /\ g + 1 = i
    BY DEF Heights
  <1> HIDE DEF g, i
  <1>2. Between(m, h, c) \in Points /\ Between(m, g, c) \in Points /\ Between(m, i, c) \in Points
    BY <1>1, BetweenFields
  <1> QED
    BY <1>1, <1>2 DEF g, i

LEMMA Joined ==
    ASSUME NEW a \in Tasks, NEW b \in Tasks, NEW c \in Tasks
    PROVE  << a >> \o << b, c >> = << a, b, c >> /\ << a, b >> \o << c >> = << a, b, c >>
  <1>1. << a, b >> \in Seq(Tasks) /\ << c >> \in Seq(Tasks) /\ << a, b, c >> = << a, b >> \o << c >>
    OBVIOUS
  <1>2. << a >> \in Seq(Tasks) /\ << b, c >> \in Seq(Tasks) /\ << a, b, c >> = << a >> \o << b, c >>
    OBVIOUS
  <1> QED
    BY <1>1, <1>2

LEMMA PairLeads ==
    ASSUME NEW k, NEW a \in Tasks, NEW L \in Seq(Tasks), NEW z \in Points, NEW v \in Points, NEW y,
           Rule(k, a, z, v), Leads(k, L, v, y)
    PROVE  Leads(k, << a >> \o L, z, y)
  <1>1. << a >> \in Seq(Tasks) /\ Leads(k, << a >>, z, v)
    BY LeadsOne
  <1> HIDE DEF Leads
  <1> QED
    BY <1>1, LeadsOn

\* An expression of one node.
LEMMA LeafLeads ==
    ASSUME NEW k, NEW m \in BOOLEAN, NEW h \in Heights, NEW c \in Seq(Nat),
           NEW n \in Nodes, n.type \in {"VAL", "VAR"}
    PROVE  Leads(k, SimpleTasks(n), Between(m, h, c), Between(m, h + 1, c))
  <1>1. n.data \in Int
    BY NodeFacts
  <1>2. /\ Between(m, h, c) \in Points /\ Between(m, h + 1, c) \in Points /\ h + 1 \in Heights
    BY HeightsUp
  <1>3. CASE n.type = "VAL"
    <2>1. SimpleTasks(n) = << Emit(WithImm("PUSH", n.data)) >>
      BY <1>3 DEF SimpleTasks
    <2>2. Rule(k, Emit(WithImm("PUSH", n.data)), Between(m, h, c), Between(m, h + 1, c))
      BY <1>1, PushPop
    <2> QED
      BY <1>2, <2>1, <2>2, LeadsOne
  <1>4. CASE n.type = "VAR"
    <2> DEFINE a == Emit(Plain("PUSH"))
               b == GetVarCode(n.data)
               g == h + 1
               x == Spot(m, g, "operand", 0, c)
    <2>1. SimpleTasks(n) = << a, b >>
      BY <1>4 DEF SimpleTasks
    <2>2. a \in Tasks /\ b \in Tasks
      BY <1>1, TaskMade, InstrFacts DEF InstrTypes, Encodable
    <2>3. Rule(k, a, Between(m, h, c), Spot(m, h + 1, "operand", 0, c))
      BY BareLeads
    <2>4. g \in Heights /\ g \in Nat /\ 0 \in Nat /\ "operand" \in Stages
      BY <1>2 DEF Heights, Stages
    <2> HIDE DEF g
    <2>5. Rule(k, b, x, Between(m, g, c)) /\ x \in Points
      BY <1>1, <2>4, BareLeads, SpotFields
    <2> HIDE DEF a, b
    <2>6. Leads(k, << a, b >>, Between(m, h, c), Between(m, g, c))
      BY <1>2, <2>2, <2>3, <2>5, LeadsTwo DEF g
    <2> QED
      BY <2>1, <2>6 DEF g
  <1> QED
    BY <1>3, <1>4

LEMMA FictiousLeads ==
    ASSUME NEW k, NEW m \in BOOLEAN, NEW c \in Seq(Nat), NEW n \in Nodes, n.type = "FICTIOUS",
           InBody(k, m, n.left, FALSE), InBody(k, m, n.right, FALSE)
    PROVE  Leads(k, SimpleTasks(n), Between(m, 1, c), Between(m, 1, c))
  <1>1. SimpleTasks(n) = << Convert(n.left, FALSE), Convert(n.right, FALSE) >>
    BY DEF SimpleTasks
  <1>2. n.left \in MaybeNodes /\ n.right \in MaybeNodes /\ 1 \in Heights
    BY NodeFacts DEF Heights
  <1>3. Rule(k, Convert(n.left, FALSE), Between(m, 1, c), Between(m, 1, c))
    BY <1>2, BodyLeads
  <1>4. Rule(k, Convert(n.right, FALSE), Between(m, 1, c), Between(m, 1, c))
    BY <1>2, BodyLeads
  <1>5. Between(m, 1, c) \in Points
    BY <1>2, HeightsUp
  <1>6. Convert(n.left, FALSE) \in Tasks /\ Convert(n.right, FALSE) \in Tasks
    BY <1>2, TaskMade
  <1> QED
    BY <1>1, <1>3, <1>4, <1>5, <1>6, LeadsTwo

LEMMA ReturnNodeLeads ==
    ASSUME NEW k, NEW c \in Seq(Nat), NEW n \in Nodes, n.type = "RETURN", InExpr(k, FALSE, n.right)
    PROVE  Leads(k, SimpleTasks(n), Between(FALSE, 1, c), Between(FALSE, 1, c))
  <1> DEFINE a == Convert(n.right, TRUE)
             b == Emit(WithReg("POP", REG_RAX))
             p == Emit(WithReg("POP", REG_RBX))
             q == Emit(WithReg("PUSH", REG_RAX))
             r == Emit(WithReg("PUSH", REG_RBX))
             s == Emit(Plain("RET"))
             z == Between(FALSE, 1, c)
             one == 1
  <1>1. SimpleTasks(n) = << a, b, p, q, r, s >>
    BY DEF SimpleTasks
  <1>2. /\ n.right \in MaybeNodes /\ one \in Heights
        /\ REG_RAX \in 0 .. 3 /\ REG_RAX \in 0 .. 2 /\ REG_RBX \in 0 .. 3
    BY NodeFacts DEF Heights, REG_RAX, REG_RBX
  <1>3. a \in Tasks /\ b \in Tasks
    BY <1>2, TaskMade, MoveInstr
  <1>4. p \in Tasks /\ q \in Tasks /\ r \in Tasks
    BY <1>2, TaskMade, MoveInstr
  <1>5. s \in Tasks
    BY TaskMade, InstrFacts DEF InstrTypes, Encodable
  <1>6. Leads(k, << p, q, r, s >>, z, z)
    BY ReturnLeads
  <1> HIDE DEF one
  <1>7. Rule(k, a, Between(FALSE, one, c), Between(FALSE, one + 1, c))
    BY <1>2, ExprLeads
  <1>8. Rule(k, b, Between(FALSE, one + 1, c), Between(FALSE, one, c))
    BY <1>2, PushPop
  <1>9. Between(FALSE, one, c) \in Points /\ Between(FALSE, one + 1, c) \in Points
    BY <1>2, HeightsUp
  <1> HIDE DEF a, b, p, q, r, s
  <1>10. Leads(k, << a, b >>, Between(FALSE, one, c), Between(FALSE, one, c))
    BY <1>3, <1>7, <1>8, <1>9, LeadsTwo
  <1>11. << a, b >> \in Seq(Tasks) /\ << p, q, r, s >> \in Seq(Tasks)
         /\ << a, b, p, q, r, s >> = << a, b >> \o << p, q, r, s >>
    BY <1>3, <1>4, <1>5
  <1>12. Leads(k, << a, b >>, z, z)
    BY <1>10 DEF one
  <1> HIDE DEF z
  <1>13. Leads(k, SimpleTasks(n), z, z)
    BY <1>1, <1>6, <1>11, <1>12, LeadsOn
  <1> QED
    BY <1>13 DEF z

\* The operands of an operation are expressions, and so is what it leaves.
LEMMA OpLeads ==
    ASSUME NEW k, NEW m \in BOOLEAN, NEW h \in Heights, NEW c \in Seq(Nat),
           NEW n \in Nodes, n.type = "OP", n.data # "ASSIG",
           n.data # "INPUT" => InExpr(k, m, n.right),
           n.data \in BinaryOps \cup Comparators \cup {"AND", "OR"} => InExpr(k, m, n.left)
    PROVE  Leads(k, OpTasks(n), Between(m, h, c), Between(m, h + 1, c))
  <1> DEFINE op == n.data
             a  == Convert(n.left, TRUE)
             b  == Convert(n.right, TRUE)
             zero == Emit(WithImm("PUSH", 0))
             pop  == Emit(WithReg("POP", REG_RAX))
             push == Emit(WithReg("PUSH", REG_RAX))
             je   == PushTrueFalse("JE")
             jne  == PushTrueFalse("JNE")
             done == Mark("operands_done")
             catch == Mark("catch")
             inp  == Emit(Plain("INP"))
             out  == Emit(Plain("OUT"))
             add  == Emit(Plain("ADD"))
             h1 == h + 1
             h2 == h + 2
             h3 == h + 3
             p0 == Between(m, h, c)
             p1 == Between(m, h1, c)
             p2 == Between(m, h2, c)
             p3 == Between(m, h3, c)
  <1>1. op \in OpNames /\ n.left \in MaybeNodes /\ n.right \in MaybeNodes
    BY NodeFacts
  <1>2. /\ h1 \in Heights /\ h2 \in Heights /\ h3 \in Heights /\ h1 = h + 1 /\ h2 = h1 + 1 /\ h2 = h + 2
        /\ h3 = h2 + 1 /\ h3 = h1 + 2
    BY DEF Heights
  <1> HIDE DEF h1, h2, h3
  <1>3. p0 \in Points /\ p1 \in Points /\ p2 \in Points /\ p3 \in Points
    BY <1>2, BetweenFields
  <1>4. /\ a \in Tasks /\ b \in Tasks
    BY <1>1, TaskMade
  <1>5. zero \in Tasks /\ pop \in Tasks /\ push \in Tasks
    BY TaskMade, MoveInstr
  <1>6. je \in Tasks /\ jne \in Tasks /\ done \in Tasks /\ catch \in Tasks
    BY TaskMade DEF Jumps
  <1>7. \A o \in {"INP", "OUT"} \cup BinaryOps \cup UnaryOps : Emit(Plain(o)) \in Tasks
    BY TaskMade, InstrFacts DEF InstrTypes, Encodable, Unsupported, BinaryOps, UnaryOps
  <1>8. inp \in Tasks /\ out \in Tasks /\ add \in Tasks
    BY <1>7 DEF BinaryOps
  <1>9. op # "INPUT" => Rule(k, b, p0, p1) /\ Rule(k, b, p1, p2)
    BY <1>1, <1>2, ExprLeads
  <1>10. op \in BinaryOps \cup Comparators \cup {"AND", "OR"} => Rule(k, a, p0, p1)
    BY <1>1, <1>2, ExprLeads
  <1>11. Rule(k, zero, p1, p2) /\ Rule(k, zero, p2, p3) /\ Rule(k, push, p0, p1) /\ Rule(k, push, p1, p2)
    <2>1. 0 \in Int /\ REG_RAX \in 0 .. 3
      BY DEF REG_RAX
    <2>2. Rule(k, zero, p1, p2) /\ Rule(k, push, p1, p2)
      BY <1>2, <2>1, PushPop
    <2>3. Rule(k, zero, p2, p3)
      BY <1>2, <2>1, PushPop
    <2>4. Rule(k, push, p0, p1)
      BY <1>2, <2>1, PushPop
    <2> QED
      BY <2>2, <2>3, <2>4
  <1>12. Rule(k, pop, p1, p0) /\ Rule(k, inp, p0, p1) /\ Rule(k, out, p2, p1)
    <2>1. REG_RAX \in 0 .. 2
      BY DEF REG_RAX
    <2>2. Rule(k, pop, p1, p0)
      BY <1>2, <2>1, PushPop
    <2>3. Rule(k, inp, p0, p1)
      BY <1>2, PushPop
    <2>4. Rule(k, out, p2, p1)
      BY <1>2, PushPop
    <2> QED
      BY <2>2, <2>3, <2>4
  <1>13. /\ \A o \in BinaryOps : Rule(k, Emit(Plain(o)), p2, p1)
         /\ \A o \in UnaryOps : Rule(k, Emit(Plain(o)), p1, p1)
    BY <1>2, PushPop
  <1>14. \A j \in Jumps : Rule(k, PushTrueFalse(j), p2, p1) /\ Rule(k, PushTrueFalse(j), p3, p2)
    BY <1>2, RestLeads
  <1>15. Rule(k, done, p2, p2) /\ Rule(k, catch, p2, p2)
    BY RestLeads
  <1>16. Rule(k, add, p2, p1) /\ Rule(k, je, p2, p1) /\ Rule(k, jne, p2, p1) /\ Rule(k, jne, p3, p2)
    BY <1>13, <1>14 DEF BinaryOps, Jumps
  <1> HIDE DEF a, b, zero, pop, push, je, jne, done, catch, inp, out, add, p0, p1, p2, p3
  <1>17. CASE op \in BinaryOps
    <2>1. OpTasks(n) = << a, b >> \o << Emit(Plain(op)) >>
      BY <1>17 DEF OpTasks, BinaryOps, UnaryOps, Comparators, a, b
    <2> DEFINE e == Emit(Plain(op))
    <2>2. e \in Tasks /\ Rule(k, e, p2, p1)
      BY <1>7, <1>13, <1>17
    <2>3. op # "INPUT"
      BY <1>17 DEF BinaryOps
    <2> HIDE DEF e
    <2>4. << a, b >> \o << e >> = << a, b, e >>
      BY <1>4, <2>2, Joined
    <2>5. Leads(k, << a, b, e >>, p0, p1)
      BY <1>3, <1>4, <1>9, <1>10, <1>17, <2>2, <2>3, LeadsThree
    <2> QED
      BY <2>1, <2>4, <2>5 DEF e, p0, p1, h1
  <1>18. CASE op \in UnaryOps
    <2>1. OpTasks(n) = << b >> \o << Emit(Plain(op)) >>
      BY <1>18 DEF OpTasks, BinaryOps, UnaryOps, Comparators, b
    <2> DEFINE e == Emit(Plain(op))
    <2>2. e \in Tasks /\ Rule(k, e, p1, p1)
      BY <1>7, <1>13, <1>18
    <2>3. op # "INPUT"
      BY <1>18 DEF UnaryOps
    <2> HIDE DEF e
    <2>4. << e >> \in Seq(Tasks) /\ Leads(k, << e >>, p1, p1)
      BY <1>3, <2>2, LeadsOne
    <2>5. Leads(k, << b >> \o << e >>, p0, p1)
      BY <1>3, <1>4, <1>9, <2>3, <2>4, PairLeads
    <2> QED
      BY <2>1, <2>5 DEF e, p0, p1, h1
  <1>19. CASE op \in Comparators
    <2>1. OpTasks(n) = << a, b >> \o << PushTrueFalse(JumpOf(op)) >>
      BY <1>19 DEF OpTasks, BinaryOps, UnaryOps, Comparators, a, b
    <2> DEFINE e == PushTrueFalse(JumpOf(op))
    <2>2. JumpOf(op) \in Jumps
      BY <1>19 DEF Comparators, JumpOf, Jumps
    <2>3. e \in Tasks /\ Rule(k, e, p2, p1)
      BY <1>14, <2>2, TaskMade
    <2>4. op # "INPUT"
      BY <1>19 DEF Comparators
    <2> HIDE DEF e
    <2>5. << a, b >> \o << e >> = << a, b, e >>
      BY <1>4, <2>3, Joined
    <2>6. Leads(k, << a, b, e >>, p0, p1)
      BY <1>3, <1>4, <1>9, <1>10, <1>19, <2>3, <2>4, LeadsThree
    <2> QED
      BY <2>1, <2>5, <2>6 DEF e, p0, p1, h1
  <1>20. CASE op = "INPUT"
    <2>1. OpTasks(n) = << inp >>
      BY <1>20 DEF OpTasks, BinaryOps, UnaryOps, Comparators, inp
    <2>2. Leads(k, << inp >>, p0, p1)
      BY <1>3, <1>8, <1>12, LeadsOne
    <2> QED
      BY <2>1, <2>2 DEF p0, p1, h1
  <1>21. CASE op = "OUTPUT"
    <2>1. OpTasks(n) = << b >> \o << pop, push, push, out >>
      BY <1>21 DEF OpTasks, BinaryOps, UnaryOps, Comparators, b, pop, push, out
    <2>2. Leads(k, << pop, push, push, out >>, p1, p1)
      BY <1>3, <1>5, <1>8, <1>11, <1>12, LeadsFour
    <2>3. << pop, push, push, out >> \in Seq(Tasks)
      BY <1>5, <1>8
    <2>4. Leads(k, << b >> \o << pop, push, push, out >>, p0, p1)
      BY <1>3, <1>4, <1>9, <1>21, <2>2, <2>3, PairLeads
    <2> QED
      BY <2>1, <2>4 DEF p0, p1, h1
  <1>22. CASE op = "NOT"
    <2>1. OpTasks(n) = << b >> \o << zero, je >>
      BY <1>22 DEF OpTasks, BinaryOps, UnaryOps, Comparators, b, zero, je
    <2>2. << b >> \o << zero, je >> = << b, zero, je >>
      BY <1>4, <1>5, <1>6, Joined
    <2>3. Leads(k, << b, zero, je >>, p0, p1)
      BY <1>3, <1>4, <1>5, <1>6, <1>9, <1>11, <1>16, <1>22, LeadsThree
    <2> QED
      BY <2>1, <2>2, <2>3 DEF p0, p1, h1
  <1>23. CASE op \in {"AND", "OR"}
    <2> DEFINE A == << a, zero, jne >>
               B == << b, zero, jne >>
               D == << done, catch >>
               o == LogicalOperands(n)
    <2>1. o = A \o B \o D
      BY DEF LogicalOperands, Boolify, a, b, zero, jne, done, catch
    <2>2. A \in Seq(Tasks) /\ B \in Seq(Tasks) /\ D \in Seq(Tasks)
      BY <1>4, <1>5, <1>6
    <2>3. op # "INPUT"
      BY <1>23
    <2>4. Leads(k, A, p0, p1)
      BY <1>3, <1>4, <1>5, <1>6, <1>10, <1>11, <1>16, <1>23, LeadsThree
    <2>5. Leads(k, B, p1, p2)
      BY <1>3, <1>4, <1>5, <1>6, <1>9, <1>11, <1>16, <2>3, LeadsThree
    <2>6. Leads(k, D, p2, p2)
      BY <1>3, <1>6, <1>15, LeadsTwo
    <2> HIDE DEF A, B, D
    <2>7. A \o B \in Seq(Tasks) /\ A \o B \o D \in Seq(Tasks)
      BY <2>2
    <2>8. Leads(k, A \o B, p0, p2)
      BY <2>2, <2>4, <2>5, LeadsOn
    <2>9. Leads(k, o, p0, p2) /\ o \in Seq(Tasks)
      BY <2>1, <2>2, <2>6, <2>7, <2>8, LeadsOn
    <2> HIDE DEF o
    <2>10. ASSUME NEW e \in {add, je} PROVE Leads(k, o \o << e >>, p0, p1)
      <3>1. e \in Tasks /\ Rule(k, e, p2, p1)
        BY <1>6, <1>8, <1>16
      <3>2. << e >> \in Seq(Tasks) /\ Leads(k, << e >>, p2, p1)
        BY <1>3, <3>1, LeadsOne
      <3> QED
        BY <2>9, <3>2, LeadsOn
    <2>11. CASE op = "OR"
      <3>1. OpTasks(n) = o \o << add >>
        BY <2>11 DEF OpTasks, BinaryOps, UnaryOps, Comparators, add, o
      <3> QED
        BY <2>10, <3>1 DEF p0, p1, h1
    <2>12. CASE op = "AND"
      <3>1. OpTasks(n) = o \o << je >>
        BY <2>12 DEF OpTasks, BinaryOps, UnaryOps, Comparators, je, o
      <3> QED
        BY <2>10, <3>1 DEF p0, p1, h1
    <2> QED
      BY <1>23, <2>11, <2>12
  <1> QED
    BY <1>1, <1>17, <1>18, <1>19, <1>20, <1>21, <1>22, <1>23 DEF OpNames

LEMMA AssignLeads ==
    ASSUME NEW k, NEW m \in BOOLEAN, NEW c \in Seq(Nat), NEW n \in Nodes, n.type = "OP",
           n.data = "ASSIG", InExpr(k, m, n.right)
    PROVE  Leads(k, OpTasks(n), Between(m, 1, c), Between(m, 1, c))
  <1> DEFINE b == Convert(n.right, TRUE)
             e == Rest("emit_assig", n.left)
             one == 1
  <1>1. OpTasks(n) = << b >> \o << e >>
    BY DEF OpTasks, BinaryOps, UnaryOps, Comparators
  <1>2. n.left \in MaybeNodes /\ n.right \in MaybeNodes /\ one \in Heights
    BY NodeFacts DEF Heights
  <1>3. b \in Tasks /\ e \in Tasks
    BY <1>2, TaskMade
  <1> HIDE DEF one
  <1>4. Rule(k, b, Between(m, one, c), Between(m, one + 1, c))
    BY <1>2, ExprLeads
  <1>5. Rule(k, e, Between(m, one + 1, c), Between(m, one, c))
    BY <1>2, RestLeads
  <1>6. Between(m, one, c) \in Points /\ Between(m, one + 1, c) \in Points
    BY <1>2, HeightsUp
  <1> HIDE DEF b, e
  <1>7. << e >> \in Seq(Tasks) /\ Leads(k, << e >>, Between(m, one + 1, c), Between(m, one, c))
    BY <1>3, <1>5, <1>6, LeadsOne
  <1>8. Leads(k, << b >> \o << e >>, Between(m, one, c), Between(m, one, c))
    BY <1>3, <1>4, <1>6, <1>7, PairLeads
  <1> QED
    BY <1>1, <1>8 DEF one

LEMMA LeadsSix ==
    ASSUME NEW k, NEW a \in Tasks, NEW b \in Tasks, NEW c \in Tasks, NEW d \in Tasks, NEW e \in Tasks,
           NEW f \in Tasks, NEW p \in Points, NEW q \in Points, NEW r \in Points, NEW s \in Points,
           NEW t \in Points, NEW u \in Points, NEW v \in Points,
           Rule(k, a, p, q), Rule(k, b, q, r), Rule(k, c, r, s), Rule(k, d, s, t), Rule(k, e, t, u),
           Rule(k, f, u, v)
    PROVE  Leads(k, << a, b, c, d, e, f >>, p, v)
  <1>1. /\ << a, b, c >> \in Seq(Tasks) /\ << d, e, f >> \in Seq(Tasks)
        /\ << a, b, c, d, e, f >> = << a, b, c >> \o << d, e, f >>
    OBVIOUS
  <1>2. Leads(k, << a, b, c >>, p, s) /\ Leads(k, << d, e, f >>, s, v)
    BY LeadsThree
  <1> QED
    BY <1>1, <1>2, LeadsOn

LEMMA LeadsSeven ==
    ASSUME NEW k, NEW a \in Tasks, NEW b \in Tasks, NEW c \in Tasks, NEW d \in Tasks, NEW e \in Tasks,
           NEW f \in Tasks, NEW g \in Tasks, NEW p \in Points, NEW q \in Points, NEW r \in Points,
           NEW s \in Points, NEW t \in Points, NEW u \in Points, NEW v \in Points, NEW w \in Points,
           Rule(k, a, p, q), Rule(k, b, q, r), Rule(k, c, r, s), Rule(k, d, s, t), Rule(k, e, t, u),
           Rule(k, f, u, v), Rule(k, g, v, w)
    PROVE  Leads(k, << a, b, c, d, e, f, g >>, p, w)
  <1>1. /\ << a, b, c >> \in Seq(Tasks) /\ << d, e, f, g >> \in Seq(Tasks)
        /\ << a, b, c, d, e, f, g >> = << a, b, c >> \o << d, e, f, g >>
    OBVIOUS
  <1>2. Leads(k, << a, b, c >>, p, s) /\ Leads(k, << d, e, f, g >>, s, w)
    BY LeadsThree, LeadsFour
  <1> QED
    BY <1>1, <1>2, LeadsOn

LEMMA IfLeads ==
    ASSUME NEW k, NEW m \in BOOLEAN, NEW c \in Seq(Nat), NEW n \in Nodes, n.type = "IF",
           InExpr(k, m, n.left), InBody(k, m, n.right.left, TRUE), InBody(k, m, n.right.right, TRUE)
    PROVE  Leads(k, << Convert(n.left, TRUE), Emit(WithImm("PUSH", 0)), Rest("if", n.right) >>,
                 Between(m, 1, c), Between(m, 1, c))
  <1> DEFINE a == Convert(n.left, TRUE)
             b == Emit(WithImm("PUSH", 0))
             d == Rest("if", n.right)
             one == 1
             two == 2
             three == 3
  <1>1. /\ n.left \in MaybeNodes /\ n.right \in MaybeNodes /\ one \in Heights /\ two \in Heights
        /\ three \in Heights /\ two = one + 1 /\ three = two + 1
    BY NodeFacts DEF Heights
  <1>2. a \in Tasks /\ b \in Tasks /\ d \in Tasks
    <2>1. a \in Tasks /\ d \in Tasks
      BY <1>1, TaskMade
    <2>2. WithImm("PUSH", 0) \in Instr
      BY MoveInstr
    <2> QED
      BY <2>1, <2>2, TaskMade
  <1>3. Rule(k, d, Between(m, three, c), Between(m, one, c))
    BY <1>1, RestLeads
  <1> HIDE DEF one, two, three
  <1>4. /\ Between(m, one, c) \in Points /\ Between(m, two, c) \in Points
        /\ Between(m, three, c) \in Points
    BY <1>1, BetweenFields
  <1>5. Rule(k, a, Between(m, one, c), Between(m, two, c))
    BY <1>1, ExprLeads
  <1>6. Rule(k, b, Between(m, two, c), Between(m, three, c))
    <2>1. 0 \in Int
      OBVIOUS
    <2> QED
      BY <1>1, <2>1, PushPop
  <1> HIDE DEF a, b, d
  <1>7. Leads(k, << a, b, d >>, Between(m, one, c), Between(m, one, c))
    BY <1>2, <1>3, <1>4, <1>5, <1>6, LeadsThree
  <1> QED
    BY <1>7 DEF a, b, d, one

\* A jump to a label, in whose type the label is entered.
JumpTo(k, j, l) == Emit(WithImm(j, addr_transl_translate(k.labels, l)))

LEMMA JumpToLeads ==
    ASSUME NEW k, NEW l \in DOMAIN k.lab, l \in Nat, addr_transl_translate(k.labels, l) \in Int,
           NEW m \in BOOLEAN, NEW h \in Heights, NEW c \in Seq(Nat), k.lab[l] = Between(m, h, c).type
    PROVE  /\ \A j \in Jumps : /\ JumpTo(k, j, l) \in Tasks
                               /\ Rule(k, JumpTo(k, j, l), Between(m, h + 2, c), Between(m, h, c))
           /\ JumpTo(k, "JMP", l) \in Tasks
           /\ \A y : y.type.at = "rest" /\ y.counts = Between(m, h, c).counts =>
                 Rule(k, JumpTo(k, "JMP", l), Between(m, h, c), y)
           /\ Rule(k, Label(l), Between(m, h, c), Between(m, h, c)) /\ Label(l) \in Tasks
  <1> DEFINE v == addr_transl_translate(k.labels, l)
  <1>1. \A j \in Jumps \cup {"JMP"} : /\ WithImm(j, v) \in Instr /\ WithImm(j, v).type = j
                                      /\ WithImm(j, v).imm_arg = v
    BY InstrFacts DEF WithImm, Plain, InstrTypes, Encodable
  <1>2. Weaker(Between(m, h, c).type, k.lab[l])
    BY WeakerSelf
  <1>3. ASSUME NEW j \in Jumps
        PROVE  JumpTo(k, j, l) \in Tasks /\ Rule(k, JumpTo(k, j, l), Between(m, h + 2, c), Between(m, h, c))
    <2> DEFINE i == WithImm(j, v)
    <2>1. i \in Instr /\ i.type \in Jumps /\ i.imm_arg = addr_transl_translate(k.labels, l)
      BY <1>1
    <2>2. JumpTo(k, j, l) = Emit(i)
      BY DEF JumpTo
    <2> HIDE DEF i, v
    <2>3. Rule(k, Emit(i), Between(m, h + 2, c), Between(m, h, c))
      BY <1>2, <2>1, JumpLeads
    <2> QED
      BY <2>1, <2>2, <2>3, TaskMade
  <1>4. JumpTo(k, "JMP", l) \in Tasks
        /\ \A y : y.type.at = "rest" /\ y.counts = Between(m, h, c).counts =>
              Rule(k, JumpTo(k, "JMP", l), Between(m, h, c), y)
    <2> DEFINE i == WithImm("JMP", v)
    <2>1. i \in Instr /\ i.type = "JMP" /\ i.imm_arg = addr_transl_translate(k.labels, l)
      BY <1>1
    <2>2. JumpTo(k, "JMP", l) = Emit(i)
      BY DEF JumpTo
    <2> HIDE DEF i, v
    <2>3. ASSUME NEW y, y.type.at = "rest", y.counts = Between(m, h, c).counts
          PROVE  Rule(k, Emit(i), Between(m, h, c), y)
      BY <1>2, <2>1, <2>3, JmpLeads
    <2> QED
      BY <2>1, <2>2, <2>3, TaskMade
  <1>5. Rule(k, Label(l), Between(m, h, c), Between(m, h, c)) /\ Label(l) \in Tasks
    BY LabelLeads, TaskMade
  <1> QED
    BY <1>3, <1>4, <1>5

\* The labels of emit_push_true_false: one operand less, and the result.
LEMMA TrueFalseLeads ==
    ASSUME NEW k, NEW l \in DOMAIN k.lab, l \in Nat, addr_transl_translate(k.labels, l) \in Int,
           NEW e \in DOMAIN k.lab, e \in Nat, addr_transl_translate(k.labels, e) \in Int,
           NEW m \in BOOLEAN, NEW h \in Heights, NEW c \in Seq(Nat),
           k.lab[l] = Between(m, h, c).type, k.lab[e] = Between(m, h + 1, c).type, NEW j \in Jumps
    PROVE  Leads(k, << JumpTo(k, j, l), Emit(WithImm("PUSH", 0)), JumpTo(k, "JMP", e), Label(l),
                       Emit(WithImm("PUSH", 1)), Label(e) >>,
                 Between(m, h + 2, c), Between(m, h + 1, c))
  <1> DEFINE a == JumpTo(k, j, l)
             b == Emit(WithImm("PUSH", 0))
             d == JumpTo(k, "JMP", e)
             f == Label(l)
             g == Emit(WithImm("PUSH", 1))
             i == Label(e)
             h1 == h + 1
             p == Between(m, h, c)
             q == Between(m, h1, c)
             r == Between(m, h + 2, c)
  <1>1. h1 \in Heights /\ p \in Points /\ q \in Points /\ r \in Points
    BY HeightsUp
  <1>2. a \in Tasks /\ Rule(k, a, r, p) /\ f \in Tasks /\ Rule(k, f, p, p)
    BY JumpToLeads
  <1>3. k.lab[e] = Between(m, h1, c).type
    OBVIOUS
  <1>4. b \in Tasks /\ g \in Tasks
    BY TaskMade, MoveInstr
  <1>5. Rule(k, b, p, q) /\ Rule(k, g, p, q)
    <2>1. 0 \in Int /\ 1 \in Int
      OBVIOUS
    <2> QED
      BY <2>1, PushPop
  <1>6. p.type.at = "rest" /\ p.counts = q.counts
    <2> HIDE DEF h1
    <2> QED
      BY <1>1, BetweenFields
  <1>7. d \in Tasks /\ Rule(k, d, q, p) /\ i \in Tasks /\ Rule(k, i, q, q)
    <2> HIDE DEF h1
    <2>1. /\ d \in Tasks /\ i \in Tasks /\ Rule(k, i, q, q)
          /\ \A y : y.type.at = "rest" /\ y.counts = q.counts => Rule(k, d, q, y)
      BY <1>1, <1>3, JumpToLeads
    <2> HIDE DEF p, q, d, i
    <2> QED
      BY <1>6, <2>1
  <1> HIDE DEF a, b, d, f, g, i, p, q, r
  <1>8. Leads(k, << a, b, d, f, g, i >>, r, q)
    BY <1>1, <1>2, <1>4, <1>5, <1>7, LeadsSix
  <1> QED
    BY <1>8 DEF a, b, d, f, g, i, r, q

\* Both branches of an IF, or the second one.
LEMMA BranchLeads ==
    ASSUME NEW k, NEW l \in DOMAIN k.lab, l \in Nat, addr_transl_translate(k.labels, l) \in Int,
           NEW m \in BOOLEAN, NEW c \in Seq(Nat), k.lab[l] = Between(m, 1, c).type,
           NEW n \in MaybeNodes, InBody(k, m, n, TRUE)
    PROVE  /\ Leads(k, << JumpTo(k, "JE", l), Convert(n, TRUE), Label(l) >>,
                    Between(m, 3, c), Between(m, 1, c))
           /\ \A e \in DOMAIN k.lab, o \in MaybeNodes :
                 /\ e \in Nat /\ addr_transl_translate(k.labels, e) \in Int
                 /\ k.lab[e] = Between(m, 1, c).type /\ InBody(k, m, o, TRUE)
                 => Leads(k, << JumpTo(k, "JE", e), Convert(n, TRUE), JumpTo(k, "JMP", l), Label(e),
                                Convert(o, TRUE), Label(l) >>,
                          Between(m, 3, c), Between(m, 1, c))
  <1> DEFINE one == 1
             three == 3
             p == Between(m, one, c)
             r == Between(m, three, c)
             d == JumpTo(k, "JMP", l)
             f == Label(l)
             t == Convert(n, TRUE)
  <1>1. one \in Heights /\ three \in Heights /\ three = one + 2
    BY DEF Heights
  <1>2. Rule(k, t, p, p)
    BY BodyLeads
  <1> HIDE DEF one, three
  <1>3. p \in Points /\ r \in Points /\ p.type.at = "rest"
    BY <1>1, BetweenFields
  <1>4. k.lab[l] = Between(m, one, c).type
    BY DEF one
  <1>5. d \in Tasks /\ Rule(k, f, p, p) /\ f \in Tasks /\ Rule(k, d, p, p)
    BY <1>1, <1>3, <1>4, JumpToLeads
  <1>6. \A e \in DOMAIN k.lab : /\ e \in Nat /\ addr_transl_translate(k.labels, e) \in Int
                                /\ k.lab[e] = p.type
           => /\ JumpTo(k, "JE", e) \in Tasks /\ Rule(k, JumpTo(k, "JE", e), r, p)
              /\ Rule(k, Label(e), p, p) /\ Label(e) \in Tasks
    BY <1>1, JumpToLeads DEF Jumps
  <1>7. t \in Tasks
    BY TaskMade
  <1> HIDE DEF d, f, t
  <1>8. Leads(k, << JumpTo(k, "JE", l), t, f >>, r, p)
    <2>1. JumpTo(k, "JE", l) \in Tasks /\ Rule(k, JumpTo(k, "JE", l), r, p)
      BY <1>4, <1>6
    <2> HIDE DEF p, r
    <2> QED
      BY <1>2, <1>3, <1>5, <1>7, <2>1, LeadsThree
  <1>9. ASSUME NEW e \in DOMAIN k.lab, NEW o \in MaybeNodes, e \in Nat,
               addr_transl_translate(k.labels, e) \in Int, k.lab[e] = p.type, InBody(k, m, o, TRUE)
        PROVE  Leads(k, << JumpTo(k, "JE", e), t, d, Label(e), Convert(o, TRUE), f >>, r, p)
    <2> DEFINE a == JumpTo(k, "JE", e)
               b == Label(e)
               s == Convert(o, TRUE)
    <2>1. a \in Tasks /\ Rule(k, a, r, p) /\ b \in Tasks /\ Rule(k, b, p, p)
      BY <1>6, <1>9
    <2>2. s \in Tasks /\ Rule(k, s, p, p)
      <3>1. s \in Tasks
        BY TaskMade
      <3>2. Rule(k, s, p, p)
        BY <1>9, BodyLeads DEF one
      <3> QED
        BY <3>1, <3>2
    <2> HIDE DEF a, b, s, p, r
    <2>3. Leads(k, << a, t, d, b, s, f >>, r, p)
      BY <1>2, <1>3, <1>5, <1>7, <2>1, <2>2, LeadsSix
    <2> QED
      BY <2>3 DEF a, b, s
  <1> QED
    BY <1>8, <1>9 DEF one, three, p, r, d, f, t

LEMMA WhileLeads ==
    ASSUME NEW k, NEW l \in DOMAIN k.lab, l \in Nat, addr_transl_translate(k.labels, l) \in Int,
           NEW e \in DOMAIN k.lab, e \in Nat, addr_transl_translate(k.labels, e) \in Int,
           NEW m \in BOOLEAN, NEW c \in Seq(Nat),
           k.lab[l] = Between(m, 1, c).type, k.lab[e] = Between(m, 1, c).type,
           NEW n \in Nodes, InExpr(k, m, n.left), InBody(k, m, n.right, TRUE)
    PROVE  Leads(k, << Label(l), Convert(n.left, TRUE), Emit(WithImm("PUSH", 0)), JumpTo(k, "JE", e),
                       Convert(n.right, TRUE), JumpTo(k, "JMP", l), Label(e) >>,
                 Between(m, 1, c), Between(m, 1, c))
  <1> DEFINE one == 1
             two == 2
             three == 3
             p == Between(m, one, c)
             q == Between(m, two, c)
             r == Between(m, three, c)
             a == Label(l)
             b == Convert(n.left, TRUE)
             d == Emit(WithImm("PUSH", 0))
             f == JumpTo(k, "JE", e)
             g == Convert(n.right, TRUE)
             i == JumpTo(k, "JMP", l)
             j == Label(e)
  <1>1. /\ one \in Heights /\ two \in Heights /\ three \in Heights /\ two = one + 1
        /\ three = two + 1 /\ three = one + 2
    BY DEF Heights
  <1>2. n.left \in MaybeNodes /\ n.right \in MaybeNodes
    BY NodeFacts
  <1>3. Rule(k, g, p, p) /\ g \in Tasks
    <2>1. Rule(k, g, p, p)
      BY <1>2, BodyLeads
    <2> QED
      BY <1>2, <2>1, TaskMade
  <1>4. k.lab[l] = Between(m, one, c).type /\ k.lab[e] = Between(m, one, c).type
    BY DEF one
  <1> HIDE DEF one, two, three
  <1>5. p \in Points /\ q \in Points /\ r \in Points /\ p.type.at = "rest"
    BY <1>1, BetweenFields
  <1>6. Rule(k, b, p, q) /\ b \in Tasks
    <2>1. Rule(k, b, p, q)
      BY <1>1, <1>2, ExprLeads
    <2> QED
      BY <1>2, <2>1, TaskMade
  <1>7. Rule(k, d, q, r) /\ d \in Tasks
    <2>1. 0 \in Int /\ WithImm("PUSH", 0) \in Instr
      BY MoveInstr
    <2>2. d \in Tasks
      BY <2>1, TaskMade
    <2>3. Rule(k, d, q, r)
      BY <1>1, <2>1, PushPop
    <2> QED
      BY <2>2, <2>3
  <1>8. a \in Tasks /\ Rule(k, a, p, p) /\ i \in Tasks /\ Rule(k, i, p, p)
    BY <1>1, <1>4, <1>5, JumpToLeads
  <1>9. f \in Tasks /\ Rule(k, f, r, p) /\ j \in Tasks /\ Rule(k, j, p, p)
    BY <1>1, <1>4, <1>5, JumpToLeads DEF Jumps
  <1> HIDE DEF a, b, d, f, g, i, j, p, q, r
  <1>10. Leads(k, << a, b, d, f, g, i, j >>, p, p)
    BY <1>3, <1>5, <1>6, <1>7, <1>8, <1>9, LeadsSeven
  <1> QED
    BY <1>10 DEF a, b, d, f, g, i, j, p, one

-----------------------------------------------------------------------------
(* Functions and calls.                                                    *)

\* A label in whose type the code of a function comes, or nothing comes: behind
\* it the code outside functions goes on.
LEMMA FuncDefLeads ==
    ASSUME NEW k, NEW l \in DOMAIN k.lab, l \in Nat, addr_transl_translate(k.labels, l) \in Int,
           k.lab[l] = Main, NEW n \in Nodes, n.type = "FUNC_DEF", InBody(k, FALSE, n.right, TRUE)
    PROVE  Leads(k, << JumpTo(k, "JMP", l), FunctionLabel(n.data), Rest("def_args", n.left),
                       Convert(n.right, TRUE), Label(l), Mark("leave_func") >>,
                 Point(Main, << >>), Point(Main, << >>))
  <1> DEFINE a == JumpTo(k, "JMP", l)
             b == FunctionLabel(n.data)
             d == Rest("def_args", n.left)
             f == Convert(n.right, TRUE)
             g == Label(l)
             i == Mark("leave_func")
             p == Point(Main, << >>)
             q == Point(Entry, << >>)
  <1>1. n.data \in Int /\ n.left \in MaybeNodes /\ n.right \in MaybeNodes
    BY NodeFacts
  <1>2. /\ p \in Points /\ q \in Points /\ p.type = Main /\ q.type = Entry /\ q.type.at = "rest"
        /\ p.counts = << >> /\ q.counts = << >> /\ p.type.at = "rest"
    BY DEF Point, Points, Main, InMain, Entry, InFunc, Types, Stages
  <1>3. p = Between(TRUE, 1, << >>) /\ q = Between(FALSE, 1, << >>)
    BY DEF Between, Spot, Main, Entry
  <1>4. 1 \in Heights /\ << >> \in Seq(Nat) /\ TRUE \in BOOLEAN /\ FALSE \in BOOLEAN
    BY DEF Heights
  <1>5. k.lab[l] = Between(TRUE, 1, << >>).type
    BY <1>2, <1>3
  <1>6. b \in Tasks /\ d \in Tasks /\ f \in Tasks /\ g \in Tasks /\ i \in Tasks
    <2>1. b \in Tasks /\ n.type # "OP"
      BY <1>1, TaskMade
    <2>2. d \in Tasks /\ f \in Tasks
      BY <1>1, TaskMade
    <2>3. g \in Tasks /\ i \in Tasks
      BY TaskMade
    <2> QED
      BY <2>1, <2>2, <2>3
  <1>7. Rule(k, f, q, q)
    BY <1>1, <1>3, <1>4, BodyLeads
  <1>8. a \in Tasks
    BY <1>4, <1>5, JumpToLeads
  <1>9. \A y : y.type.at = "rest" /\ y.counts = p.counts => Rule(k, a, p, y)
    BY <1>3, <1>4, <1>5, JumpToLeads
  <1>10. /\ b.do = "function_label" /\ d.do = "def_args" /\ g.do = "numeric_label" /\ g.num = l
         /\ i.do = "leave_func"
    BY <1>1, TaskMade
  <1> HIDE DEF a, b, d, f, g, i, p, q
  <1>11. Rule(k, a, p, q)
    BY <1>2, <1>9
  <1>12. Rule(k, b, q, q) /\ Rule(k, d, q, q) /\ Rule(k, i, p, p)
    BY <1>10 DEF Rule, q
  <1>13. LabelRule(k, g, q, p)
    BY <1>2, <1>10, WeakerSelf DEF LabelRule, p
  <1>14. Rule(k, g, q, p)
    BY <1>10, <1>13 DEF Rule
  <1>15. Leads(k, << a, b, d, f, g, i >>, p, p)
    BY <1>2, <1>6, <1>7, <1>8, <1>11, <1>12, <1>14, LeadsSix
  <1> QED
    BY <1>15 DEF a, b, d, f, g, i, p

\* The arguments that have been counted lie on the top.
Counted(c, n) == << c[1] + n >> \o Tail(c)

LEMMA CountedFields ==
    ASSUME NEW c \in Seq(Nat), c # << >>, NEW n \in Nat
    PROVE  /\ Counted(c, n) \in Seq(Nat) /\ Counted(c, n) # << >>
           /\ Counted(c, n)[1] = c[1] + n /\ Tail(Counted(c, n)) = Tail(c)
           /\ c[1] \in Nat /\ Tail(c) \in Seq(Nat) /\ Counted(c, 0) = c
  <1>1. c[1] \in Nat /\ Tail(c) \in Seq(Nat)
    OBVIOUS
  <1>2. /\ Counted(c, n) \in Seq(Nat) /\ Counted(c, n) # << >>
        /\ Counted(c, n)[1] = c[1] + n /\ Tail(Counted(c, n)) = Tail(c)
    BY <1>1 DEF Counted
  <1>3. Counted(c, 0) = c
    <2>1. c[1] + 0 = c[1]
      BY <1>1
    <2>2. << c[1] >> \o Tail(c) = c
      BY <1>1
    <2> QED
      BY <2>1, <2>2 DEF Counted
  <1> QED
    BY <1>1, <1>2, <1>3

LEMMA CallArgsLeads ==
    ASSUME NEW k, NEW h \in Heights, NEW c \in Seq(Nat), c # << >>,
           NEW n \in MaybeNodes, n \in k.g.args, k.g.count[n] \in Nat
    PROVE  /\ Rule(k, Rest("call_args", n), Between(FALSE, h, c),
                   Between(FALSE, h + k.g.count[n], Counted(c, k.g.count[n])))
           /\ h + k.g.count[n] \in Heights
  <1> DEFINE t == Rest("call_args", n)
             j == h + k.g.count[n]
             d == Counted(c, k.g.count[n])
  <1>1. t.do = "call_args" /\ t.node = n
    BY TaskMade
  <1>2. j \in Heights /\ j = h + k.g.count[n]
    BY DEF Heights
  <1>3. d \in Seq(Nat) /\ d = << c[1] + k.g.count[n] >> \o Tail(c)
    BY CountedFields DEF Counted
  <1> HIDE DEF t, j, d
  <1>4. FuncTask(k, t, h, c, j, d)
    BY <1>1, <1>2, <1>3 DEF FuncTask
  <1>5. Rule(k, t, Between(FALSE, h, c), Between(FALSE, j, d))
    BY <1>2, <1>3, <1>4, NodeLeads
  <1> QED
    BY <1>2, <1>5 DEF t, j, d

LEMMA MainCallArgsLeads ==
    ASSUME NEW k, NEW n \in MaybeNodes, n \in k.g.main, NEW h \in Heights
    PROVE  Rule(k, Rest("call_args", n), Between(TRUE, h, << >>), Between(TRUE, h, << >>))
  <1> DEFINE t == Rest("call_args", n)
  <1>1. t.do = "call_args" /\ t.node = n
    BY TaskMade
  <1>2. << >> \in Seq(Nat)
    OBVIOUS
  <1> HIDE DEF t
  <1>3. MainTask(k, t)
    BY <1>1 DEF MainTask
  <1>4. Rule(k, t, Between(TRUE, h, << >>), Between(TRUE, h, << >>))
    BY <1>2, <1>3, NodeLeads
  <1> QED
    BY <1>4 DEF t

\* The call of a function whose arguments have been counted.
LEMMA CallTaskLeads ==
    ASSUME NEW k, NEW h \in Heights, NEW c \in Seq(Nat), c # << >>, NEW q \in Nat, q = c[1],
           NEW n \in MaybeNodes, NEW g \in Heights, h = g + q
    PROVE  Rule(k, Rest("call", n), Between(FALSE, h, c), Between(FALSE, g + 1, Tail(c)))
  <1> DEFINE t == Rest("call", n)
             j == g + 1
             d == Tail(c)
  <1>1. t.do = "call"
    BY TaskMade
  <1>2. d \in Seq(Nat) /\ j \in Heights /\ h > q /\ j = h - q + 1
    BY DEF Heights
  <1> HIDE DEF t, j
  <1>3. FuncTask(k, t, h, c, j, d)
    BY <1>1, <1>2 DEF FuncTask
  <1> HIDE DEF d
  <1>4. Rule(k, t, Between(FALSE, h, c), Between(FALSE, j, d))
    BY <1>2, <1>3, NodeLeads
  <1> QED
    BY <1>4 DEF t, j, d

LEMMA MainCallLeads ==
    ASSUME NEW k, NEW n \in MaybeNodes, NEW h \in Heights
    PROVE  Rule(k, Rest("call", n), Between(TRUE, h, << >>), Between(TRUE, h, << >>))
  <1> DEFINE t == Rest("call", n)
  <1>1. t.do = "call"
    BY TaskMade
  <1>2. << >> \in Seq(Nat)
    OBVIOUS
  <1> HIDE DEF t
  <1>3. MainTask(k, t)
    BY <1>1 DEF MainTask
  <1>4. Rule(k, t, Between(TRUE, h, << >>), Between(TRUE, h, << >>))
    BY <1>2, <1>3, NodeLeads
  <1> QED
    BY <1>4 DEF t

\* A node that calls a function: its arguments are counted from zero.
LEMMA FuncCallLeads ==
    ASSUME NEW k, NEW h \in Heights, NEW c \in Seq(Nat), NEW n \in Nodes, n.right \in k.g.args,
           k.g.count[n.right] \in Nat
    PROVE  Leads(k, << Rest("call_args", n.right), Rest("call", n) >>,
                 Between(FALSE, h, << 0 >> \o c), Between(FALSE, h + 1, c))
  <1> DEFINE a == Rest("call_args", n.right)
             b == Rest("call", n)
             q == k.g.count[n.right]
             d == << 0 >> \o c
             e == Counted(d, q)
             i == h + q
             m == FALSE
  <1>1. n.right \in MaybeNodes /\ n \in MaybeNodes
    BY NodeFacts
  <1>2. d \in Seq(Nat) /\ d # << >> /\ d[1] = 0 /\ Tail(d) = c /\ q \in Nat /\ i \in Heights
        /\ h + 1 \in Heights /\ m \in BOOLEAN
    BY SMTT(30) DEF Heights
  <1>3. Rule(k, a, Between(m, h, d), Between(m, i, e))
    <2> HIDE DEF d
    <2> QED
      BY <1>1, <1>2, CallArgsLeads
  <1> HIDE DEF d, q, i
  <1>4. e \in Seq(Nat) /\ e # << >> /\ e[1] = q /\ Tail(e) = c
    <2>1. e \in Seq(Nat) /\ e # << >> /\ e[1] = d[1] + q /\ Tail(e) = Tail(d)
      BY <1>2, CountedFields
    <2> HIDE DEF e
    <2>2. 0 + q = q
      BY <1>2
    <2> QED
      BY <1>2, <2>1, <2>2
  <1> HIDE DEF e
  <1>5. i = h + q
    BY DEF i
  <1>6. Rule(k, b, Between(m, i, e), Between(m, h + 1, c))
    BY <1>1, <1>2, <1>4, <1>5, CallTaskLeads
  <1>7. a \in Tasks /\ b \in Tasks
    BY <1>1, TaskMade
  <1>8. Between(m, h, d) \in Points /\ Between(m, i, e) \in Points
    BY <1>2, <1>4, BetweenFields
  <1>9. Between(m, h + 1, c) \in Points
    BY HeightsUp
  <1> HIDE DEF a, b
  <1>10. Leads(k, << a, b >>, Between(m, h, d), Between(m, h + 1, c))
    BY <1>3, <1>6, <1>7, <1>8, <1>9, LeadsTwo
  <1> QED
    BY <1>10 DEF a, b, d, m

LEMMA MainFuncCallLeads ==
    ASSUME NEW k, NEW n \in Nodes, n.right \in k.g.main
    PROVE  Leads(k, << Rest("call_args", n.right), Rest("call", n) >>,
                 Between(TRUE, 1, << >>), Between(TRUE, 1, << >>))
  <1>1. n.right \in MaybeNodes /\ n \in MaybeNodes /\ 1 \in Heights /\ << >> \in Seq(Nat)
    BY NodeFacts DEF Heights
  <1>2. Between(TRUE, 1, << >>) \in Points
    BY <1>1, BetweenFields
  <1>3. Rest("call_args", n.right) \in Tasks /\ Rest("call", n) \in Tasks
    BY <1>1, TaskMade
  <1>4. Rule(k, Rest("call_args", n.right), Between(TRUE, 1, << >>), Between(TRUE, 1, << >>))
    BY <1>1, MainCallArgsLeads
  <1>5. Rule(k, Rest("call", n), Between(TRUE, 1, << >>), Between(TRUE, 1, << >>))
    BY <1>1, MainCallLeads
  <1> QED
    BY <1>2, <1>3, <1>4, <1>5, LeadsTwo

\* The result of a call that is not used is dropped.
LEMMA DropLeads ==
    ASSUME NEW k, NEW m \in BOOLEAN, NEW h \in Heights, NEW c \in Seq(Nat), NEW L \in Seq(Tasks), NEW z,
           Leads(k, L, z, Between(m, h + 1, c))
    PROVE  Leads(k, L \o << Emit(WithReg("POP", REG_RAX)) >>, z, Between(m, h, c))
  <1> DEFINE t == Emit(WithReg("POP", REG_RAX))
  <1>1. REG_RAX \in 0 .. 2 /\ REG_RAX \in 0 .. 3
    BY DEF REG_RAX
  <1>2. WithReg("POP", REG_RAX) \in Instr
    BY <1>1, MoveInstr
  <1>3. t \in Tasks
    BY <1>2, TaskMade
  <1>4. Rule(k, t, Between(m, h + 1, c), Between(m, h, c))
    BY <1>1, PushPop
  <1>5. Between(m, h, c) \in Points /\ Between(m, h + 1, c) \in Points
    BY HeightsUp
  <1> HIDE DEF t
  <1>6. Leads(k, << t >>, Between(m, h + 1, c), Between(m, h, c)) /\ << t >> \in Seq(Tasks)
    BY <1>3, <1>4, <1>5, LeadsOne
  <1>7. Leads(k, L \o << t >>, z, Between(m, h, c))
    BY <1>6, LeadsOn
  <1> QED
    BY <1>7 DEF t

\* The variable of an assignment.
LEMMA AssigTaskLeads ==
    ASSUME NEW k, NEW m \in BOOLEAN, NEW h \in Heights, NEW c \in Seq(Nat), NEW v \in Int
    PROVE  Leads(k, << Emit(Plain("POP")), GetVarCode(v), Mark("catch") >>,
                 Between(m, h + 1, c), Between(m, h, c))
  <1> DEFINE a == Emit(Plain("POP"))
             b == GetVarCode(v)
             d == Mark("catch")
             x == Spot(m, h, "operand", 0, c)
  <1>1. a \in Tasks
    BY TaskMade, InstrFacts DEF InstrTypes, Encodable
  <1>2. b \in Tasks /\ d \in Tasks
    BY TaskMade
  <1>3. Rule(k, a, Between(m, h + 1, c), x) /\ Rule(k, b, x, Between(m, h, c))
    BY BareLeads
  <1>4. Rule(k, d, Between(m, h, c), Between(m, h, c))
    BY RestLeads
  <1>5. Between(m, h, c) \in Points /\ Between(m, h + 1, c) \in Points
    BY HeightsUp
  <1>6. x \in Points
    <2>1. h \in Nat /\ 0 \in Nat /\ "operand" \in Stages
      BY DEF Heights, Stages
    <2> QED
      BY <2>1, SpotFields
  <1> HIDE DEF a, b, d, x
  <1>7. Leads(k, << a, b, d >>, Between(m, h + 1, c), Between(m, h, c))
    BY <1>1, <1>2, <1>3, <1>4, <1>5, <1>6, LeadsThree
  <1> QED
    BY <1>7 DEF a, b, d

\* An argument.
LEMMA ArgumentNodeLeads ==
    ASSUME NEW k, NEW m \in BOOLEAN, NEW h \in Heights, NEW c \in Seq(Nat), NEW n \in MaybeNodes,
           InExpr(k, m, n)
    PROVE  Leads(k, << Convert(n, TRUE), Mark("catch") >>, Between(m, h, c), Between(m, h + 1, c))
  <1>1. Convert(n, TRUE) \in Tasks /\ Mark("catch") \in Tasks
    BY TaskMade
  <1>2. Rule(k, Convert(n, TRUE), Between(m, h, c), Between(m, h + 1, c))
    BY ExprLeads
  <1>3. Between(m, h, c) \in Points /\ Between(m, h + 1, c) \in Points
    BY HeightsUp
  <1> DEFINE y == Between(m, h + 1, c)
  <1>4. Rule(k, Mark("catch"), y, y)
    BY RestLeads
  <1> HIDE DEF y
  <1>5. Leads(k, << Convert(n, TRUE), Mark("catch") >>, Between(m, h, c), y)
    BY <1>1, <1>2, <1>3, <1>4, LeadsTwo DEF y
  <1> QED
    BY <1>5 DEF y

\* The list of a pass.
LEMMA PassLeads ==
    ASSUME NEW k, tree \in Trees, Trees \subseteq k.g.main
    PROVE  Leads(k, PassTasks, Point(Main, << >>), Point(Main, << >>))
  <1> DEFINE a == Emit(WithImm("PUSH", 0))
             b == Emit(WithReg("POP", REG_RDX))
             c == Convert(tree, FALSE)
             d == Emit(Plain("HALT"))
             e == Mark("start_new_pass")
             p == Point(Main, << >>)
             m == TRUE
             u == FALSE
  <1>1. PassTasks = << a, b, c, d, e >>
    BY DEF PassTasks
  <1>2. tree \in MaybeNodes /\ m \in BOOLEAN /\ u \in BOOLEAN /\ << >> \in Seq(Nat) /\ 1 \in Heights
    BY TreesAssumption DEF MaybeNodes, Heights
  <1>3. /\ a \in Tasks /\ b \in Tasks /\ c \in Tasks /\ d \in Tasks /\ e \in Tasks
    <2>1. a \in Tasks /\ b \in Tasks
      BY TaskMade, MoveInstr
    <2>2. d \in Tasks
      BY TaskMade, InstrFacts DEF InstrTypes, Encodable
    <2>3. c \in Tasks /\ e \in Tasks
      BY <1>2, TaskMade
    <2> QED
      BY <2>1, <2>2, <2>3
  <1>4. p = Between(m, 1, << >>)
    BY DEF Between, Spot, Main
  <1>5. InBody(k, m, tree, u)
    BY DEF InBody
  <1>6. Rule(k, c, p, p)
    <2> HIDE DEF m, u, p, c
    <2>1. Rule(k, Convert(tree, u), p, p)
      BY <1>2, <1>4, <1>5, BodyLeads
    <2> QED
      BY <2>1 DEF c, u
  <1>7. p \in Points /\ p.type.at = "rest"
    <2> HIDE DEF m, p
    <2> QED
      BY <1>2, <1>4, BetweenFields
  <1>8. Rule(k, d, p, p)
    BY <1>7, HaltLeads
  <1>9. Rule(k, e, p, p)
    BY TaskMade DEF Rule
  <1>10. Leads(k, << a, b >>, p, p)
    BY BeginLeads
  <1> HIDE DEF a, b, c, d, e, p
  <1>11. Leads(k, << c, d, e >>, p, p)
    BY <1>3, <1>6, <1>7, <1>8, <1>9, LeadsThree
  <1>12. /\ << a, b >> \in Seq(Tasks) /\ << c, d, e >> \in Seq(Tasks)
         /\ << a, b, c, d, e >> = << a, b >> \o << c, d, e >>
    BY <1>3
  <1>13. Leads(k, PassTasks, p, p)
    BY <1>1, <1>10, <1>11, <1>12, LeadsOn
  <1> QED
    BY <1>13 DEF p

-----------------------------------------------------------------------------
(* What the grammar says of the node that is converted.                    *)

End == Point(Main, << >>)

LEMMA EndIs == /\ \A h : End = Between(TRUE, h, << >>)
               /\ End \in Points /\ End.type = Main /\ End.counts = << >> /\ End.type.at = "rest"
  BY DEF End, Point, Points, Main, InMain, Types, Stages, Between, Spot

\* A node outside functions, a statement of a function, or an expression in it.
Converts(k, t, z, v) ==
    \/ t.node \in k.g.main /\ z = End /\ v = End
    \/ /\ t.node \in k.g.body /\ (t.result_used => NotCall(t.node))
       /\ \E c \in Seq(Nat) : z = Between(FALSE, 1, c) /\ v = z
    \/ /\ t.node \in k.g.expr /\ t.result_used
       /\ \E h \in Heights, c \in Seq(Nat) : z = Between(FALSE, h, c) /\ v = Between(FALSE, h + 1, c)

LEMMA ConvertRule ==
    ASSUME NEW k, NEW t, t.do = "subtree_convert", NEW z, NEW v, Rule(k, t, z, v)
    PROVE  Converts(k, t, z, v)
  <1>1. NodeRule(k, t, z, v)
    BY DEF Rule
  <1>2. PICK m \in BOOLEAN, h \in Heights, j \in Heights, c \in Seq(Nat), d \in Seq(Nat) :
           /\ z = Between(m, h, c) /\ v = Between(m, j, d)
           /\ IF m THEN MainTask(k, t) ELSE FuncTask(k, t, h, c, j, d)
    BY <1>1 DEF NodeRule
  <1>3. CASE m
    <2>1. t.node \in k.g.main
      BY <1>2, <1>3 DEF MainTask
    <2>2. z = End /\ v = End
      BY <1>2, <1>3 DEF Between, Spot, End, Main
    <2> QED
      BY <2>1, <2>2 DEF Converts
  <1>4. CASE ~m
    <2>1. FuncTask(k, t, h, c, j, d) /\ m = FALSE
      BY <1>2, <1>4
    <2>2. z = Between(FALSE, h, c) /\ v = Between(FALSE, j, d)
      BY <1>2, <2>1
    <2> QED
      BY <2>1, <2>2 DEF FuncTask, Converts
  <1> QED
    BY <1>3, <1>4

\* A statement.
StatementAt(k, n, z, v) ==
    \E m \in BOOLEAN, c \in Seq(Nat) :
       /\ z = Between(m, 1, c) /\ v = z
       /\ n.type = "FICTIOUS" => InBody(k, m, n.left, FALSE) /\ InBody(k, m, n.right, FALSE)
       /\ n.type = "IF" => /\ InExpr(k, m, n.left) /\ InBody(k, m, n.right.left, TRUE)
                           /\ InBody(k, m, n.right.right, TRUE)
       /\ n.type = "WHILE" => InExpr(k, m, n.left) /\ InBody(k, m, n.right, TRUE)
       /\ n.type = "OP" => InExpr(k, m, n.right)

LEMMA StatementRule ==
    ASSUME NEW k, Grammar(k.g, Trees),
           NEW t, t.do = "subtree_convert", NEW n \in Nodes, n = t.node,
           NEW z, NEW v, Rule(k, t, z, v),
           n.type \in {"FICTIOUS", "VAR_DEF", "IF", "WHILE"} \/ (n.type = "OP" /\ n.data = "ASSIG")
    PROVE  StatementAt(k, n, z, v)
  <1>1. n # nullptr /\ n.type # "FUNC_DEF" /\ n.type # "FUNC_CALL" /\ n.type # "RETURN"
    BY NodeFacts
  <1>2. CASE t.node \in k.g.main /\ z = End /\ v = End
    <2>1. n.left \in k.g.main /\ n.right \in k.g.main
      BY <1>1, <1>2 DEF Grammar, OutsideFunctions
    <2>2. n.type = "IF" => n.right.left \in k.g.main /\ n.right.right \in k.g.main
      <3> SUFFICES ASSUME n.type = "IF" PROVE n.right.left \in k.g.main /\ n.right.right \in k.g.main
        OBVIOUS
      <3>1. n.right # nullptr /\ n.right.type = "ELSE"
        BY NodesAssumption
      <3> QED
        BY <2>1, <3>1 DEF Grammar, OutsideFunctions
    <2>3. z = Between(TRUE, 1, << >>) /\ v = z /\ << >> \in Seq(Nat)
      <3>1. << >> \in Seq(Nat)
        OBVIOUS
      <3> QED
        BY <1>2, <3>1, EndIs
    <2> DEFINE m == TRUE
    <2>4. /\ n.type = "FICTIOUS" => InBody(k, m, n.left, FALSE) /\ InBody(k, m, n.right, FALSE)
          /\ n.type = "IF" => /\ InExpr(k, m, n.left) /\ InBody(k, m, n.right.left, TRUE)
                              /\ InBody(k, m, n.right.right, TRUE)
          /\ n.type = "WHILE" => InExpr(k, m, n.left) /\ InBody(k, m, n.right, TRUE)
          /\ n.type = "OP" => InExpr(k, m, n.right)
      BY <2>1, <2>2 DEF InBody, InExpr
    <2>5. m \in BOOLEAN /\ z = Between(m, 1, << >>)
      BY <2>3
    <2> HIDE DEF m
    <2> QED
      BY <2>3, <2>4, <2>5 DEF StatementAt
  <1>3. CASE /\ t.node \in k.g.body /\ (t.result_used => NotCall(t.node))
             /\ \E c \in Seq(Nat) : z = Between(FALSE, 1, c) /\ v = z
    <2> DEFINE m == FALSE
    <2>1. PICK c \in Seq(Nat) : z = Between(m, 1, c) /\ v = z
      BY <1>3
    <2>2. \/ n.type = "FICTIOUS" /\ n.left \in k.g.body /\ n.right \in k.g.body
          \/ n.type = "VAR_DEF"
          \/ n.type = "OP" /\ n.data = "ASSIG" /\ n.right \in k.g.expr
          \/ /\ n.type = "IF" /\ n.left \in k.g.expr
             /\ \A b \in {n.right.left, n.right.right} : b \in k.g.body /\ NotCall(b)
          \/ n.type = "WHILE" /\ n.left \in k.g.expr /\ n.right \in k.g.body /\ NotCall(n.right)
      BY <1>1, <1>3 DEF Grammar, InFunctions
    <2>3. /\ n.type = "FICTIOUS" => InBody(k, m, n.left, FALSE) /\ InBody(k, m, n.right, FALSE)
          /\ n.type = "IF" => /\ InExpr(k, m, n.left) /\ InBody(k, m, n.right.left, TRUE)
                              /\ InBody(k, m, n.right.right, TRUE)
          /\ n.type = "WHILE" => InExpr(k, m, n.left) /\ InBody(k, m, n.right, TRUE)
          /\ n.type = "OP" => InExpr(k, m, n.right)
      BY <2>2 DEF InBody, InExpr
    <2>4. m \in BOOLEAN
      OBVIOUS
    <2> HIDE DEF m
    <2> QED
      BY <2>1, <2>3, <2>4 DEF StatementAt
  <1>4. CASE t.node \in k.g.expr
    BY <1>1, <1>4 DEF Grammar, Expressions
  <1>5. Converts(k, t, z, v)
    BY ConvertRule
  <1> QED
    BY <1>2, <1>3, <1>4, <1>5 DEF Converts

\* An expression, but no call.
ExpressionAt(k, n, z, v) ==
    \E m \in BOOLEAN, h \in Heights, c \in Seq(Nat) :
       /\ z = Between(m, h, c) /\ v = Between(m, h + 1, c)
       /\ n.type = "OP" =>
             /\ n.data # "INPUT" => InExpr(k, m, n.right)
             /\ n.data \in BinaryOps \cup Comparators \cup {"AND", "OR"} => InExpr(k, m, n.left)

LEMMA ExpressionRule ==
    ASSUME NEW k, Grammar(k.g, Trees),
           NEW t, t.do = "subtree_convert", NEW n \in Nodes, n = t.node,
           NEW z, NEW v, Rule(k, t, z, v),
           n.type \in {"VAL", "VAR"} \/ (n.type = "OP" /\ n.data # "ASSIG")
    PROVE  ExpressionAt(k, n, z, v)
  <1>1. n # nullptr /\ n.type # "FUNC_DEF" /\ n.type # "FUNC_CALL" /\ n.type # "RETURN"
    BY NodeFacts
  <1>2. CASE t.node \in k.g.main /\ z = End /\ v = End
    <2> DEFINE m == TRUE
               h == 1
    <2>1. n.left \in k.g.main /\ n.right \in k.g.main
      BY <1>1, <1>2 DEF Grammar, OutsideFunctions
    <2>2. InExpr(k, m, n.right) /\ InExpr(k, m, n.left)
      BY <2>1 DEF InExpr
    <2>3. /\ m \in BOOLEAN /\ h \in Heights /\ << >> \in Seq(Nat) /\ z = Between(m, h, << >>)
          /\ v = Between(m, h + 1, << >>)
      <3>1. << >> \in Seq(Nat) /\ h \in Heights /\ m \in BOOLEAN
        BY DEF Heights
      <3>2. End = Between(TRUE, h, << >>) /\ End = Between(TRUE, h + 1, << >>)
        BY EndIs
      <3> QED
        BY <1>2, <3>1, <3>2
    <2> HIDE DEF m, h
    <2> QED
      BY <2>2, <2>3 DEF ExpressionAt
  <1>3. CASE t.node \in k.g.body
    BY <1>1, <1>3 DEF Grammar, InFunctions
  <1>4. CASE /\ t.node \in k.g.expr
             /\ \E h \in Heights, c \in Seq(Nat) : z = Between(FALSE, h, c) /\ v = Between(FALSE, h + 1, c)
    <2> DEFINE m == FALSE
    <2>1. PICK h \in Heights, c \in Seq(Nat) : z = Between(m, h, c) /\ v = Between(m, h + 1, c)
      BY <1>4
    <2>2. n.type = "OP" =>
              /\ n.data # "INPUT" => n.right \in k.g.expr
              /\ n.data \in BinaryOps \cup Comparators \cup {"AND", "OR"} => n.left \in k.g.expr
      BY <1>1, <1>4 DEF Grammar, Expressions
    <2>3. n.type = "OP" =>
              /\ n.data # "INPUT" => InExpr(k, m, n.right)
              /\ n.data \in BinaryOps \cup Comparators \cup {"AND", "OR"} => InExpr(k, m, n.left)
      BY <2>2 DEF InExpr
    <2>4. m \in BOOLEAN
      OBVIOUS
    <2> HIDE DEF m
    <2> QED
      BY <2>1, <2>3, <2>4 DEF ExpressionAt
  <1>5. Converts(k, t, z, v)
    BY ConvertRule
  <1> QED
    BY <1>2, <1>3, <1>4, <1>5 DEF Converts

\* RETURN stands in a function, a function does not.
ReturnAt(k, n, z, v) == \E c \in Seq(Nat) : z = Between(FALSE, 1, c) /\ v = z /\ InExpr(k, FALSE, n.right)
DefAt(k, n, z, v)    == z = End /\ v = End /\ InBody(k, FALSE, n.right, TRUE)
CallAt(k, n, z, v, used) ==
    \/ z = End /\ v = End /\ n.right \in k.g.main
    \/ /\ n.right \in k.g.args /\ k.g.count[n.right] \in Nat
       /\ \E h \in Heights, c \in Seq(Nat) :
             z = Between(FALSE, h, c) /\ v = Between(FALSE, IF used THEN h + 1 ELSE h, c)

LEMMA OtherRules ==
    ASSUME NEW k, Grammar(k.g, Trees),
           NEW t, t.do = "subtree_convert", NEW n \in Nodes, n = t.node,
           NEW z, NEW v, Rule(k, t, z, v)
    PROVE  /\ n.type = "RETURN" => ReturnAt(k, n, z, v)
           /\ n.type = "FUNC_DEF" => DefAt(k, n, z, v)
           /\ n.type = "FUNC_CALL" => CallAt(k, n, z, v, t.result_used)
  <1>1. n # nullptr
    BY NodeFacts
  <1>2. CASE t.node \in k.g.main /\ z = End /\ v = End
    BY <1>1, <1>2 DEF Grammar, OutsideFunctions, InBody, DefAt, CallAt
  <1>3. CASE /\ t.node \in k.g.body /\ (t.result_used => NotCall(t.node))
             /\ \E c \in Seq(Nat) : z = Between(FALSE, 1, c) /\ v = z
    <2>1. PICK c \in Seq(Nat) : z = Between(FALSE, 1, c) /\ v = z
      BY <1>3
    <2>2. n.type # "FUNC_DEF"
      BY <1>1, <1>3 DEF Grammar, InFunctions
    <2>3. n.type = "RETURN" => n.right \in k.g.expr
      BY <1>1, <1>3 DEF Grammar, InFunctions
    <2>4. n.type = "FUNC_CALL" => n.right \in k.g.args /\ ~t.result_used
      BY <1>1, <1>3 DEF Grammar, InFunctions, NotCall
    <2>5. \A a \in k.g.args : k.g.count[a] \in Nat
      BY DEF Grammar, ArgumentLists
    <2>6. 1 \in Heights
      BY DEF Heights
    <2> QED
      BY <2>1, <2>2, <2>3, <2>4, <2>5, <2>6 DEF InExpr, ReturnAt, CallAt
  <1>4. CASE /\ t.node \in k.g.expr /\ t.result_used
             /\ \E h \in Heights, c \in Seq(Nat) : z = Between(FALSE, h, c) /\ v = Between(FALSE, h + 1, c)
    <2>1. n.type \notin {"RETURN", "FUNC_DEF"}
      BY <1>1, <1>4 DEF Grammar, Expressions
    <2>2. n.type = "FUNC_CALL" => n.right \in k.g.args
      BY <1>1, <1>4 DEF Grammar, Expressions
    <2>3. \A a \in k.g.args : k.g.count[a] \in Nat
      BY DEF Grammar, ArgumentLists
    <2> QED
      BY <1>4, <2>1, <2>2, <2>3 DEF CallAt
  <1>5. Converts(k, t, z, v)
    BY ConvertRule
  <1> QED
    BY <1>2, <1>3, <1>4, <1>5 DEF Converts

-----------------------------------------------------------------------------
(* The steps of the second pass.                                           *)

\* The labels from 0 to q - 1 have types.
Numbered(k, q) ==
    /\ DOMAIN k.lab = 0 .. q - 1
    /\ \A l \in DOMAIN k.lab : k.lab[l] \in Types /\ k.lab[l].at = "rest"

\* The tasks lead from z to the end; the counters of a function's calls are above
\* others, that it does not touch.
Ahead(k, z) ==
    /\ k.labels = indexed_label_transl /\ k.funcs = func_label_transl /\ Grammar(k.g, Trees)
    /\ Numbered(k, cur_label_index)
    /\ z \in Points /\ Leads(k, todo, z, End)
    /\ \E r \in Seq(Nat) : args_counters = z.counts \o r

\* After a step that emits nothing.
Advances(k, z) == \E l, x : Extends(k, l) /\ Ahead(l, x)' /\ x.type = z.type

\* The first task leads from z to v.
Here(k, z, v) ==
    /\ TypeInv /\ TypeInv' /\ todo # << >>
    /\ Ahead(k, z) /\ v \in Points /\ Rule(k, Head(todo), z, v) /\ Leads(k, Tail(todo), v, End)

LEMMA ExtendsSelf == \A k : Extends(k, k)
  BY DEF Extends

LEMMA GoesOn ==
    ASSUME NEW k, NEW z, NEW v, Here(k, z, v), NEW L, L \in Seq(Tasks), Continue(L),
           NEW l, Extends(k, l), Numbered(l, cur_label_index'),
           NEW x \in Points, x.type = z.type, Leads(l, L, x, v),
           NEW r \in Seq(Nat), args_counters' = x.counts \o r, UNCHANGED transl
    PROVE  Advances(k, z)
  <1>1. Tail(todo) \in Seq(Tasks) /\ todo' = L \o Tail(todo)
    BY HeadTask DEF Here, Continue
  <1>2. Leads(l, Tail(todo), v, End)
    BY LeadsKept DEF Here
  <1>3. Leads(l, L \o Tail(todo), x, End)
    BY <1>1, <1>2, LeadsOn
  <1>4. Leads(l, todo', x, End)
    BY <1>1, <1>3
  <1>5. /\ l.labels = indexed_label_transl' /\ l.funcs = func_label_transl' /\ Grammar(l.g, Trees)
    BY DEF Here, Ahead, Extends, transl
  <1>6. Ahead(l, x)'
    BY <1>4, <1>5 DEF Ahead
  <1> QED
    BY <1>6 DEF Advances

\* Neither labels nor counters.
LEMMA StaysOn ==
    ASSUME NEW k, NEW z, NEW v, Here(k, z, v), NEW L, Continue(L), L \in Seq(Tasks),
           Leads(k, L, z, v), UNCHANGED << transl, cur_label_index, args_counters >>
    PROVE  Advances(k, z)
  <1>1. PICK r \in Seq(Nat) : args_counters = z.counts \o r
    BY DEF Here, Ahead
  <1>2. z \in Points /\ Numbered(k, cur_label_index') /\ args_counters' = z.counts \o r /\ UNCHANGED transl
    BY <1>1 DEF Here, Ahead
  <1> QED
    BY <1>2, ExtendsSelf, GoesOn

\* One label is taken, or two.
LEMMA LabelTaken ==
    ASSUME NEW k, NEW q \in Nat, Numbered(k, q), NEW a \in Types, a.at = "rest"
    PROVE  \E l : Extends(k, l) /\ Numbered(l, q + 1) /\ q \in DOMAIN l.lab /\ l.lab[q] = a
  <1> DEFINE b == [i \in 0 .. q |-> IF i < q THEN k.lab[i] ELSE a]
             l == [g |-> k.g, labels |-> k.labels, funcs |-> k.funcs, lab |-> b]
  <1>1. DOMAIN b = 0 .. q /\ b[q] = a /\ \A i \in 0 .. q - 1 : b[i] = k.lab[i]
    OBVIOUS
  <1>2. l.g = k.g /\ l.labels = k.labels /\ l.funcs = k.funcs /\ l.lab = b
    OBVIOUS
  <1> HIDE DEF b, l
  <1>3. \A i \in 0 .. q : i = q \/ i \in 0 .. q - 1
    OBVIOUS
  <1>4. (q + 1) - 1 = q /\ q \in 0 .. q /\ \A i \in 0 .. q - 1 : i \in 0 .. q
    OBVIOUS
  <1>5. Extends(k, l)
    BY <1>1, <1>2, <1>4 DEF Extends, Numbered
  <1>6. \A i \in 0 .. q : b[i] \in Types /\ b[i].at = "rest"
    BY <1>1, <1>3 DEF Numbered
  <1>7. Numbered(l, q + 1)
    BY <1>1, <1>2, <1>4, <1>6 DEF Numbered
  <1> QED
    BY <1>1, <1>2, <1>4, <1>5, <1>7

LEMMA LabelsTaken ==
    ASSUME NEW k, NEW q \in Nat, Numbered(k, q), NEW a \in Types, a.at = "rest", NEW b \in Types, b.at = "rest"
    PROVE  \E l : /\ Extends(k, l) /\ Numbered(l, q + 2)
                  /\ q \in DOMAIN l.lab /\ q + 1 \in DOMAIN l.lab /\ l.lab[q] = a /\ l.lab[q + 1] = b
  <1>1. PICK i : Extends(k, i) /\ Numbered(i, q + 1) /\ q \in DOMAIN i.lab /\ i.lab[q] = a
    BY LabelTaken
  <1> DEFINE e == q + 1
  <1>2. e \in Nat /\ e + 1 = q + 2
    OBVIOUS
  <1> HIDE DEF e
  <1>3. PICK l : Extends(i, l) /\ Numbered(l, e + 1) /\ e \in DOMAIN l.lab /\ l.lab[e] = b
    <2>1. Numbered(i, e)
      BY <1>1 DEF e
    <2> QED
      BY <1>2, <2>1, LabelTaken
  <1>4. Extends(k, l)
    BY <1>1, <1>3 DEF Extends
  <1>5. q \in DOMAIN l.lab /\ l.lab[q] = a
    BY <1>1, <1>3 DEF Extends
  <1> QED
    BY <1>2, <1>3, <1>4, <1>5 DEF e

\* The node of the first task.
LEMMA HereNode ==
    ASSUME NEW k, NEW z, NEW v, Here(k, z, v), NEW type, AtNode(type)
    PROVE  /\ Node \in Nodes /\ Node.type = type /\ Node = Head(todo).node
           /\ Head(todo).do = "subtree_convert" /\ Rule(k, Head(todo), z, v) /\ Grammar(k.g, Trees)
           /\ Head(todo).result_used \in BOOLEAN
  <1>1. Node \in Nodes /\ Node.type = type /\ At_("subtree_convert")
    BY NodeAt DEF Here
  <1>2. Head(todo) \in Tasks
    BY HeadTask DEF Here
  <1>3. Head(todo).do = "subtree_convert"
    BY <1>1 DEF At_
  <1> QED
    BY <1>1, <1>2, <1>3, TaskFields DEF Here, Ahead, Node


-----------------------------------------------------------------------------
(* What is left of a conversion: where its tasks lead from and to.         *)

PushAt(z, v) ==
    \E m \in BOOLEAN, h \in Heights, c \in Seq(Nat) :
       z = Between(m, h + 2, c) /\ v = Between(m, h + 1, c)

LEMMA PushRule ==
    ASSUME NEW k, NEW t, t.do = "push_true_false", NEW z, NEW v, Rule(k, t, z, v)
    PROVE  PushAt(z, v)
  <1>1. PICK m \in BOOLEAN, h \in Heights, j \in Heights, c \in Seq(Nat), d \in Seq(Nat) :
           /\ z = Between(m, h, c) /\ v = Between(m, j, d)
           /\ IF m THEN MainTask(k, t) ELSE FuncTask(k, t, h, c, j, d)
    BY DEF Rule, NodeRule
  <1>2. CASE m
    <2> DEFINE one == 1
    <2>1. one \in Heights
      BY DEF Heights
    <2> HIDE DEF one
    <2>2. z = Between(m, one + 2, c) /\ v = Between(m, one + 1, c)
      BY <1>1, <1>2, MainSame
    <2> QED
      BY <2>1, <2>2 DEF PushAt
  <1>3. CASE ~m
    <2>1. h = j + 1 /\ h >= 3 /\ d = c
      BY <1>1, <1>3 DEF FuncTask
    <2> DEFINE i == j - 1
    <2>2. i \in Heights /\ h = i + 2 /\ j = i + 1
      BY <2>1 DEF Heights
    <2> HIDE DEF i
    <2> QED
      BY <1>1, <2>1, <2>2 DEF PushAt
  <1> QED
    BY <1>2, <1>3

BranchAt(k, n, z, v) ==
    \E m \in BOOLEAN, c \in Seq(Nat) :
       /\ z = Between(m, 3, c) /\ v = Between(m, 1, c)
       /\ InBody(k, m, n.left, TRUE) /\ InBody(k, m, n.right, TRUE)

LEMMA BranchRule ==
    ASSUME NEW k, NEW t, t.do = "if", NEW z, NEW v, Rule(k, t, z, v)
    PROVE  BranchAt(k, t.node, z, v)
  <1>1. PICK m \in BOOLEAN, h \in Heights, j \in Heights, c \in Seq(Nat), d \in Seq(Nat) :
           /\ z = Between(m, h, c) /\ v = Between(m, j, d)
           /\ IF m THEN MainTask(k, t) ELSE FuncTask(k, t, h, c, j, d)
    BY DEF Rule, NodeRule
  <1>2. CASE m
    <2>1. z = Between(m, 3, c) /\ v = Between(m, 1, c)
      BY <1>1, <1>2, MainSame
    <2>2. InBody(k, m, t.node.left, TRUE) /\ InBody(k, m, t.node.right, TRUE)
      BY <1>1, <1>2 DEF MainTask, InBody
    <2> QED
      BY <2>1, <2>2 DEF BranchAt
  <1>3. CASE ~m
    <2>1. h = 3 /\ j = 1 /\ d = c
      BY <1>1, <1>3 DEF FuncTask
    <2>2. InBody(k, m, t.node.left, TRUE) /\ InBody(k, m, t.node.right, TRUE)
      BY <1>1, <1>3 DEF FuncTask, InBody
    <2> QED
      BY <1>1, <2>1, <2>2 DEF BranchAt
  <1> QED
    BY <1>2, <1>3

AssigAt(z, v) ==
    \E m \in BOOLEAN, h \in Heights, c \in Seq(Nat) :
       z = Between(m, h + 1, c) /\ v = Between(m, h, c)

LEMMA AssigRule ==
    ASSUME NEW k, NEW t, t.do = "emit_assig", NEW z, NEW v, Rule(k, t, z, v)
    PROVE  AssigAt(z, v)
  <1>1. PICK m \in BOOLEAN, h \in Heights, j \in Heights, c \in Seq(Nat), d \in Seq(Nat) :
           /\ z = Between(m, h, c) /\ v = Between(m, j, d)
           /\ IF m THEN MainTask(k, t) ELSE FuncTask(k, t, h, c, j, d)
    BY DEF Rule, NodeRule
  <1>2. CASE m
    <2>1. z = Between(m, j + 1, c) /\ v = Between(m, j, c)
      BY <1>1, <1>2, MainSame
    <2> QED
      BY <2>1 DEF AssigAt
  <1>3. CASE ~m
    <2>1. h = j + 1 /\ d = c
      BY <1>1, <1>3 DEF FuncTask
    <2> QED
      BY <1>1, <2>1 DEF AssigAt
  <1> QED
    BY <1>2, <1>3

ArgsAt(k, n, z, v) ==
    \/ n \in k.g.main /\ z = End /\ v = End
    \/ /\ n \in k.g.args
       /\ \E h \in Heights, c \in Seq(Nat) :
             /\ c # << >> /\ z = Between(FALSE, h, c)
             /\ v = Between(FALSE, h + k.g.count[n], Counted(c, k.g.count[n]))

LEMMA ArgsRule ==
    ASSUME NEW k, NEW t, t.do = "call_args", NEW z, NEW v, Rule(k, t, z, v)
    PROVE  ArgsAt(k, t.node, z, v)
  <1>1. PICK m \in BOOLEAN, h \in Heights, j \in Heights, c \in Seq(Nat), d \in Seq(Nat) :
           /\ z = Between(m, h, c) /\ v = Between(m, j, d)
           /\ IF m THEN MainTask(k, t) ELSE FuncTask(k, t, h, c, j, d)
    BY DEF Rule, NodeRule
  <1>2. CASE m
    <2>1. z = End /\ v = End
      BY <1>1, <1>2 DEF Between, Spot, End, Main
    <2>2. t.node \in k.g.main
      BY <1>1, <1>2 DEF MainTask
    <2> QED
      BY <2>1, <2>2 DEF ArgsAt
  <1>3. CASE ~m
    <2>1. /\ t.node \in k.g.args /\ c # << >> /\ d = Counted(c, k.g.count[t.node])
          /\ j = h + k.g.count[t.node]
      BY <1>1, <1>3 DEF FuncTask, Counted
    <2>2. z = Between(FALSE, h, c) /\ v = Between(FALSE, j, d)
      BY <1>1, <1>3
    <2> QED
      BY <2>1, <2>2 DEF ArgsAt
  <1> QED
    BY <1>2, <1>3

CallTaskAt(z, v) ==
    \/ z = End /\ v = End
    \/ \E g \in Heights, c \in Seq(Nat), q \in Nat :
          /\ c # << >> /\ q = c[1] /\ Tail(c) \in Seq(Nat)
          /\ z = Between(FALSE, g + q, c) /\ v = Between(FALSE, g + 1, Tail(c))

LEMMA CallRule ==
    ASSUME NEW k, NEW t, t.do = "call", NEW z, NEW v, Rule(k, t, z, v)
    PROVE  CallTaskAt(z, v)
  <1>1. PICK m \in BOOLEAN, h \in Heights, j \in Heights, c \in Seq(Nat), d \in Seq(Nat) :
           /\ z = Between(m, h, c) /\ v = Between(m, j, d)
           /\ IF m THEN MainTask(k, t) ELSE FuncTask(k, t, h, c, j, d)
    BY DEF Rule, NodeRule
  <1>2. CASE m
    <2>1. z = End /\ v = End
      BY <1>1, <1>2 DEF Between, Spot, End, Main
    <2> QED
      BY <2>1 DEF CallTaskAt
  <1>3. CASE ~m
    <2>1. c # << >> /\ h > c[1] /\ j = h - c[1] + 1 /\ d = Tail(c)
      BY <1>1, <1>3 DEF FuncTask
    <2>2. c[1] \in Nat /\ Tail(c) \in Seq(Nat)
      BY <2>1
    <2> DEFINE q == c[1]
               g == h - q
    <2>3. q \in Nat /\ g \in Heights /\ h = g + q /\ j = g + 1
      BY <2>1, <2>2 DEF Heights
    <2> HIDE DEF q, g
    <2>4. z = Between(FALSE, h, c) /\ v = Between(FALSE, j, d)
      BY <1>1, <1>3
    <2>5. q = c[1]
      BY DEF q
    <2> QED
      BY <2>1, <2>2, <2>3, <2>4, <2>5 DEF CallTaskAt
  <1> QED
    BY <1>2, <1>3

LEMMA SkipRule ==
    ASSUME NEW k, NEW t, t.do \in {"catch", "operands_done", "leave_func", "def_args"},
           NEW z, NEW v, Rule(k, t, z, v)
    PROVE  v = z
  <1>1. ~MainTask(k, t) /\ \A h, c, j, d : ~FuncTask(k, t, h, c, j, d)
    BY DEF MainTask, FuncTask
  <1>2. ~NodeRule(k, t, z, v)
    BY <1>1 DEF NodeRule
  <1> QED
    BY <1>2 DEF Rule

-----------------------------------------------------------------------------
(* The steps that emit nothing.                                            *)

LEMMA HereFields ==
    ASSUME NEW k, NEW z, NEW v, Here(k, z, v)
    PROVE  /\ Head(todo) \in Tasks /\ TaskOK(Head(todo)) /\ Tail(todo) \in Seq(Tasks) /\ todo # << >>
           /\ z \in Points /\ v \in Points /\ Rule(k, Head(todo), z, v) /\ Grammar(k.g, Trees)
  BY HeadTask DEF Here, Ahead

LEMMA OpAdvances == ASSUME NEW k, NEW z, NEW v, Here(k, z, v), convert_op PROVE Advances(k, z)
  <1>1. AtNode("OP") /\ Continue(OpTasks(Node)) /\ UNCHANGED << transl, cur_label_index, args_counters >>
    BY DEF convert_op, GoOn
  <1>2. /\ Node \in Nodes /\ Node.type = "OP" /\ Node = Head(todo).node /\ Head(todo).do = "subtree_convert"
        /\ Rule(k, Head(todo), z, v) /\ Grammar(k.g, Trees)
    BY <1>1, HereNode
  <1>3. OpTasks(Node) \in Seq(Tasks)
    BY <1>2, OpMade DEF Makes, GoodList
  <1>4. CASE Node.data = "ASSIG"
    <2>0. StatementAt(k, Node, z, v)
      BY <1>2, <1>4, StatementRule
    <2>1. PICK m \in BOOLEAN, c \in Seq(Nat) :
             z = Between(m, 1, c) /\ v = z /\ (Node.type = "OP" => InExpr(k, m, Node.right))
      BY <2>0 DEF StatementAt
    <2>2. Leads(k, OpTasks(Node), Between(m, 1, c), Between(m, 1, c))
      BY <1>2, <1>4, <2>1, AssignLeads
    <2>3. Leads(k, OpTasks(Node), z, v)
      BY <2>1, <2>2
    <2> QED
      BY <1>1, <1>3, <2>3, StaysOn
  <1>5. CASE Node.data # "ASSIG"
    <2>0. ExpressionAt(k, Node, z, v)
      BY <1>2, <1>5, ExpressionRule
    <2>1. PICK m \in BOOLEAN, h \in Heights, c \in Seq(Nat) :
             /\ z = Between(m, h, c) /\ v = Between(m, h + 1, c)
             /\ Node.type = "OP" =>
                   /\ Node.data # "INPUT" => InExpr(k, m, Node.right)
                   /\ Node.data \in BinaryOps \cup Comparators \cup {"AND", "OR"} => InExpr(k, m, Node.left)
      BY <2>0 DEF ExpressionAt
    <2>2. Leads(k, OpTasks(Node), Between(m, h, c), Between(m, h + 1, c))
      BY <1>2, <1>5, <2>1, OpLeads
    <2>3. Leads(k, OpTasks(Node), z, v)
      BY <2>1, <2>2
    <2> QED
      BY <1>1, <1>3, <2>3, StaysOn
  <1> QED
    BY <1>4, <1>5

LEMMA SimpleAdvances ==
    ASSUME NEW k, NEW z, NEW v, Here(k, z, v), NEW type \in {"FICTIOUS", "VAL", "VAR", "RETURN"},
           AtNode(type), GoOn(SimpleTasks(Node))
    PROVE  Advances(k, z)
  <1>1. Continue(SimpleTasks(Node)) /\ UNCHANGED << transl, cur_label_index, args_counters >>
    BY DEF GoOn
  <1>2. /\ Node \in Nodes /\ Node.type = type /\ Node = Head(todo).node /\ Head(todo).do = "subtree_convert"
        /\ Rule(k, Head(todo), z, v) /\ Grammar(k.g, Trees)
    BY HereNode
  <1>3. SimpleTasks(Node) \in Seq(Tasks)
    BY <1>2, SimpleMade DEF Makes, GoodList
  <1>4. CASE type = "FICTIOUS"
    <2>0. StatementAt(k, Node, z, v)
      BY <1>2, <1>4, StatementRule
    <2>1. PICK m \in BOOLEAN, c \in Seq(Nat) :
             /\ z = Between(m, 1, c) /\ v = z
             /\ Node.type = "FICTIOUS" => InBody(k, m, Node.left, FALSE) /\ InBody(k, m, Node.right, FALSE)
      BY <2>0 DEF StatementAt
    <2>2. Leads(k, SimpleTasks(Node), Between(m, 1, c), Between(m, 1, c))
      BY <1>2, <1>4, <2>1, FictiousLeads
    <2>3. Leads(k, SimpleTasks(Node), z, v)
      BY <2>1, <2>2
    <2> QED
      BY <1>1, <1>3, <2>3, StaysOn
  <1>5. CASE type \in {"VAL", "VAR"}
    <2>0. ExpressionAt(k, Node, z, v)
      BY <1>2, <1>5, ExpressionRule
    <2>1. PICK m \in BOOLEAN, h \in Heights, c \in Seq(Nat) : z = Between(m, h, c) /\ v = Between(m, h + 1, c)
      BY <2>0 DEF ExpressionAt
    <2>2. Leads(k, SimpleTasks(Node), Between(m, h, c), Between(m, h + 1, c))
      BY <1>2, <1>5, <2>1, LeafLeads
    <2>3. Leads(k, SimpleTasks(Node), z, v)
      BY <2>1, <2>2
    <2> QED
      BY <1>1, <1>3, <2>3, StaysOn
  <1>6. CASE type = "RETURN"
    <2>0. ReturnAt(k, Node, z, v)
      BY <1>2, <1>6, OtherRules
    <2>1. PICK c \in Seq(Nat) : z = Between(FALSE, 1, c) /\ v = z /\ InExpr(k, FALSE, Node.right)
      BY <2>0 DEF ReturnAt
    <2>2. Leads(k, SimpleTasks(Node), Between(FALSE, 1, c), Between(FALSE, 1, c))
      BY <1>2, <1>6, <2>1, ReturnNodeLeads
    <2>3. Leads(k, SimpleTasks(Node), z, v)
      BY <2>1, <2>2
    <2> QED
      BY <1>1, <1>3, <2>3, StaysOn
  <1> QED
    BY <1>4, <1>5, <1>6

\* A task that has nothing to do.
LEMMA SkipAdvances ==
    ASSUME NEW k, NEW z, NEW v, Here(k, z, v), v = z, Continue(<< >>),
           UNCHANGED << transl, cur_label_index, args_counters >>
    PROVE  Advances(k, z)
  <1>1. << >> \in Seq(Tasks)
    OBVIOUS
  <1>2. Leads(k, << >>, z, v)
    BY LeadsNil DEF Here
  <1> QED
    BY <1>1, <1>2, StaysOn

LEMMA NullAdvances == ASSUME NEW k, NEW z, NEW v, Here(k, z, v), ConvertNull PROVE Advances(k, z)
  <1>1. /\ At_("subtree_convert") /\ Node = nullptr /\ Continue(<< >>)
        /\ UNCHANGED << transl, cur_label_index, args_counters >>
    BY DEF ConvertNull, GoOn
  <1>2. Head(todo).do = "subtree_convert" /\ Head(todo).node = nullptr
    BY <1>1 DEF At_, Node
  <1>3. Converts(k, Head(todo), z, v)
    BY <1>2, ConvertRule DEF Here
  <1>4. nullptr \notin k.g.expr
    BY DEF Here, Ahead, Grammar, Expressions
  <1>5. v = z
    BY <1>2, <1>3, <1>4 DEF Converts
  <1> QED
    BY <1>1, <1>5, SkipAdvances

LEMMA VarDefAdvances == ASSUME NEW k, NEW z, NEW v, Here(k, z, v), ConvertVarDef PROVE Advances(k, z)
  <1>1. AtNode("VAR_DEF") /\ Continue(<< >>) /\ UNCHANGED << transl, cur_label_index, args_counters >>
    BY DEF ConvertVarDef
  <1>2. /\ Node \in Nodes /\ Node.type = "VAR_DEF" /\ Node = Head(todo).node
        /\ Head(todo).do = "subtree_convert" /\ Rule(k, Head(todo), z, v) /\ Grammar(k.g, Trees)
    BY <1>1, HereNode
  <1>0. StatementAt(k, Node, z, v)
    BY <1>2, StatementRule
  <1>3. v = z
    BY <1>0 DEF StatementAt
  <1> QED
    BY <1>1, <1>3, SkipAdvances

LEMMA DoneAdvances ==
    ASSUME NEW k, NEW z, NEW v, Here(k, z, v), status' = "running",
           Catch \/ OperandsDone \/ LeaveFunc
    PROVE  Advances(k, z)
  <1>1. /\ Head(todo).do \in {"catch", "operands_done", "leave_func", "def_args"} /\ Continue(<< >>)
        /\ UNCHANGED << transl, cur_label_index, args_counters >>
    <2>1. CASE Catch
      BY <2>1 DEF Catch, GoOn, At_
    <2>2. CASE OperandsDone
      BY <2>2 DEF OperandsDone, At_
    <2>3. CASE LeaveFunc
      BY <2>3 DEF LeaveFunc, At_
    <2> QED
      BY <2>1, <2>2, <2>3
  <1>2. Rule(k, Head(todo), z, v)
    BY DEF Here
  <1>3. v = z
    BY <1>1, <1>2, SkipRule
  <1> QED
    BY <1>1, <1>3, SkipAdvances

LEMMA DefArgsAdvances ==
    ASSUME NEW k, NEW z, NEW v, Here(k, z, v), status' = "running", convert_func_def_args
    PROVE  Advances(k, z)
  <1>1. /\ Head(todo).do = "def_args" /\ UNCHANGED << transl, cur_label_index, args_counters >>
        /\ status = "running"
    BY DEF convert_func_def_args, At_
  <1>2. Rule(k, Head(todo), z, v)
    BY DEF Here
  <1>3. v = z
    BY <1>1, <1>2, SkipRule
  <1>4. CASE Continue(<< >>)
    BY <1>1, <1>3, <1>4, SkipAdvances
  <1>5. CASE /\ Node # nullptr
             /\ Continue(<< Rest("def_args", Node.left), Rest("def_args", Node.right) >>)
    <2> DEFINE a == Rest("def_args", Node.left)
               b == Rest("def_args", Node.right)
    <2>1. Head(todo) \in Tasks /\ z \in Points
      BY HereFields
    <2>2. Node \in Nodes
      BY <1>1, <1>5, <2>1, TaskFields DEF Node, MaybeNodes
    <2>3. Node.left \in MaybeNodes /\ Node.right \in MaybeNodes
      BY <2>2, NodeFacts
    <2>4. a \in Tasks /\ b \in Tasks /\ a.do = "def_args" /\ b.do = "def_args"
      BY <2>3, TaskMade
    <2>5. Continue(<< a, b >>)
      BY <1>5
    <2> HIDE DEF a, b
    <2>6. Rule(k, a, z, z) /\ Rule(k, b, z, z)
      BY <2>4 DEF Rule
    <2>7. Leads(k, << a, b >>, z, v)
      BY <1>3, <2>1, <2>4, <2>6, LeadsTwo
    <2>8. << a, b >> \in Seq(Tasks)
      BY <2>4
    <2> QED
      BY <1>1, <2>5, <2>7, <2>8, StaysOn
  <1> QED
    BY <1>1, <1>4, <1>5 DEF convert_func_def_args

LEMMA AssigAdvances == ASSUME NEW k, NEW z, NEW v, Here(k, z, v), emit_assig PROVE Advances(k, z)
  <1>1. /\ At_("emit_assig") /\ Continue(<< Emit(Plain("POP")), GetVarCode(Node.data), Mark("catch") >>)
        /\ UNCHANGED << transl, cur_label_index, args_counters >>
    BY DEF emit_assig, GoOn
  <1>2. Rule(k, Head(todo), z, v) /\ Head(todo).do = "emit_assig" /\ TaskOK(Head(todo))
    BY <1>1, HeadTask DEF Here, At_
  <1>3. Node \in Nodes /\ Node.type = "VAR" 
    BY <1>2 DEF TaskOK, Node
  <1>4. Node.data \in Int
    BY <1>3, NodeFacts
  <1>0. AssigAt(z, v)
    BY <1>2, AssigRule
  <1>5. PICK m \in BOOLEAN, h \in Heights, c \in Seq(Nat) : z = Between(m, h + 1, c) /\ v = Between(m, h, c)
    BY <1>0 DEF AssigAt
  <1> DEFINE L == << Emit(Plain("POP")), GetVarCode(Node.data), Mark("catch") >>
  <1>6. Leads(k, L, Between(m, h + 1, c), Between(m, h, c))
    BY <1>4, AssigTaskLeads
  <1>7. L \in Seq(Tasks)
    BY <1>4, AssigMade DEF Makes, GoodList
  <1>8. Leads(k, L, z, v) /\ Continue(L)
    BY <1>1, <1>5, <1>6
  <1> HIDE DEF L
  <1> QED
    BY <1>1, <1>7, <1>8, StaysOn

LEMMA IfAdvances == ASSUME NEW k, NEW z, NEW v, Here(k, z, v), convert_if PROVE Advances(k, z)
  <1> DEFINE L == << Convert(Node.left, TRUE), Emit(WithImm("PUSH", 0)), Rest("if", Node.right) >>
  <1>1. AtNode("IF") /\ Continue(L) /\ UNCHANGED << transl, cur_label_index, args_counters >>
    BY DEF convert_if, GoOn
  <1>2. /\ Node \in Nodes /\ Node.type = "IF" /\ Node = Head(todo).node
        /\ Head(todo).do = "subtree_convert" /\ Rule(k, Head(todo), z, v) /\ Grammar(k.g, Trees)
    BY <1>1, HereNode
  <1>0. StatementAt(k, Node, z, v)
    BY <1>2, StatementRule
  <1>3. PICK m \in BOOLEAN, c \in Seq(Nat) :
           /\ z = Between(m, 1, c) /\ v = z
           /\ Node.type = "IF" => /\ InExpr(k, m, Node.left) /\ InBody(k, m, Node.right.left, TRUE)
                                  /\ InBody(k, m, Node.right.right, TRUE)
    BY <1>0 DEF StatementAt
  <1>4. Leads(k, L, Between(m, 1, c), Between(m, 1, c))
    BY <1>2, <1>3, IfLeads
  <1>5. L \in Seq(Tasks)
    BY <1>2, IfMade DEF Makes, GoodList
  <1>6. Leads(k, L, z, v)
    BY <1>3, <1>4
  <1> HIDE DEF L
  <1> QED
    BY <1>1, <1>5, <1>6, StaysOn

\* A handler takes labels: what it needs.
LEMMA TakeFacts ==
    ASSUME NEW k, NEW z, NEW v, Here(k, z, v), NEW l, Extends(k, l)
    PROVE  /\ cur_label_index \in Nat /\ Numbered(k, cur_label_index)
           /\ \A i : addr_transl_translate(l.labels, i) = Target(i) /\ Target(i) \in Int
           /\ l.g = k.g
           /\ \E r \in Seq(Nat) : args_counters = z.counts \o r
  <1>1. l.labels = indexed_label_transl /\ l.g = k.g
    BY DEF Here, Ahead, Extends
  <1>2. \A i : Target(i) \in Int
    BY TargetTypes DEF Here
  <1> QED
    BY <1>1, <1>2 DEF Here, Ahead, Target, TypeInv, TypeOK

LEMMA WhileAdvances == ASSUME NEW k, NEW z, NEW v, Here(k, z, v), convert_while PROVE Advances(k, z)
  <1> DEFINE q == cur_label_index
             e == q + 1
             L == << Label(q), Convert(Node.left, TRUE), Emit(WithImm("PUSH", 0)),
                     Emit(WithImm("JE", Target(e))), Convert(Node.right, TRUE),
                     Emit(WithImm("JMP", Target(q))), Label(e) >>
  <1>1. /\ AtNode("WHILE") /\ Continue(L) /\ cur_label_index' = q + 2
        /\ UNCHANGED << transl, args_counters >>
    BY DEF convert_while, GetLabels
  <1>2. /\ Node \in Nodes /\ Node.type = "WHILE" /\ Node = Head(todo).node
        /\ Head(todo).do = "subtree_convert" /\ Rule(k, Head(todo), z, v) /\ Grammar(k.g, Trees)
    BY <1>1, HereNode
  <1>0. StatementAt(k, Node, z, v)
    BY <1>2, StatementRule
  <1>3. PICK m \in BOOLEAN, c \in Seq(Nat) :
           /\ z = Between(m, 1, c) /\ v = z
           /\ InExpr(k, m, Node.left) /\ InBody(k, m, Node.right, TRUE)
    BY <1>0, <1>2 DEF StatementAt
  <1> DEFINE x == Between(m, 1, c).type
  <1>4. x \in Types /\ x.at = "rest"
    BY BetweenFields DEF Heights
  <1>5. q \in Nat /\ Numbered(k, q)
    BY ExtendsSelf, TakeFacts
  <1>6. Target(q) \in Int /\ Target(e) \in Int
    BY TargetTypes DEF Here
  <1>7. L \in Seq(Tasks)
    <2> DEFINE J == Int
               s == Target(q)
               t == Target(e)
    <2>1. s \in J /\ t \in J
      BY <1>6
    <2> HIDE DEF s, t, J, q
    <2>2. Makes(<< Label(q), Convert(Node.left, TRUE), Emit(WithImm("PUSH", 0)), Emit(WithImm("JE", t)),
                   Convert(Node.right, TRUE), Emit(WithImm("JMP", s)), Label(q + 1) >>, {q, q + 1}, J, 0)
      BY <1>2, <1>5, <1>6, <2>1, WhileMade DEF s, t
    <2> QED
      BY <2>2 DEF Makes, GoodList, s, t
  <1> HIDE DEF x, q
  <1>8. PICK l : /\ Extends(k, l) /\ Numbered(l, q + 2) /\ q \in DOMAIN l.lab /\ q + 1 \in DOMAIN l.lab
                 /\ l.lab[q] = x /\ l.lab[q + 1] = x
    BY <1>4, <1>5, LabelsTaken
  <1>9. /\ addr_transl_translate(l.labels, q) = Target(q) /\ addr_transl_translate(l.labels, e) = Target(e)
        /\ l.g = k.g
    BY <1>8, TakeFacts
  <1>10. /\ e \in DOMAIN l.lab /\ e \in Nat /\ l.lab[q] = Between(m, 1, c).type
         /\ l.lab[e] = Between(m, 1, c).type
    BY <1>5, <1>8 DEF x
  <1>11. InExpr(l, m, Node.left) /\ InBody(l, m, Node.right, TRUE)
    BY <1>3, <1>9 DEF InExpr, InBody
  <1> HIDE DEF e
  <1>12. Leads(l, << Label(q), Convert(Node.left, TRUE), Emit(WithImm("PUSH", 0)), JumpTo(l, "JE", e),
                     Convert(Node.right, TRUE), JumpTo(l, "JMP", q), Label(e) >>,
               Between(m, 1, c), Between(m, 1, c))
    BY <1>2, <1>5, <1>6, <1>8, <1>9, <1>10, <1>11, WhileLeads
  <1>13. Leads(l, L, z, v)
    BY <1>3, <1>9, <1>12 DEF JumpTo
  <1>14. PICK r \in Seq(Nat) : args_counters = z.counts \o r
    BY <1>8, TakeFacts
  <1>15. args_counters' = z.counts \o r /\ Numbered(l, cur_label_index') /\ z \in Points
    BY <1>1, <1>8, <1>14 DEF Here, Ahead
  <1> HIDE DEF L
  <1> QED
    BY <1>1, <1>7, <1>8, <1>13, <1>15, GoesOn

LEMMA PushAdvances ==
    ASSUME NEW k, NEW z, NEW v, Here(k, z, v), emit_push_true_false PROVE Advances(k, z)
  <1> DEFINE q == cur_label_index
             e == q + 1
             j == Head(todo).jmp_type
             L == << Emit(WithImm(j, Target(q))), Emit(WithImm("PUSH", 0)), Emit(WithImm("JMP", Target(e))),
                     Label(q), Emit(WithImm("PUSH", 1)), Label(e) >>
  <1>1. /\ At_("push_true_false") /\ Continue(L) /\ cur_label_index' = q + 2
        /\ UNCHANGED << transl, args_counters >>
    BY DEF emit_push_true_false, GetLabels
  <1>2. Head(todo).do = "push_true_false" /\ Head(todo) \in Tasks /\ Rule(k, Head(todo), z, v)
    BY <1>1, HereFields DEF At_
  <1>0. PushAt(z, v) /\ j \in Jumps
    BY <1>2, PushRule, TaskFields
  <1>3. PICK m \in BOOLEAN, h \in Heights, c \in Seq(Nat) : z = Between(m, h + 2, c) /\ v = Between(m, h + 1, c)
    BY <1>0 DEF PushAt
  <1> DEFINE x == Between(m, h, c).type
             y == Between(m, h + 1, c).type
  <1>4. x \in Types /\ x.at = "rest" /\ y \in Types /\ y.at = "rest"
    <2>1. h + 1 \in Heights
      BY HeightsUp
    <2> QED
      BY <2>1, BetweenFields
  <1>5. q \in Nat /\ Numbered(k, q)
    BY ExtendsSelf, TakeFacts
  <1>6. Target(q) \in Int /\ Target(e) \in Int
    BY TargetTypes DEF Here
  <1>7. L \in Seq(Tasks)
    <2> DEFINE J == Int
               s == Target(q)
               t == Target(e)
    <2>1. s \in J /\ t \in J
      BY <1>6
    <2> HIDE DEF s, t, J, q, j
    <2>2. Makes(<< Emit(WithImm(j, s)), Emit(WithImm("PUSH", 0)), Emit(WithImm("JMP", t)),
                   Label(q), Emit(WithImm("PUSH", 1)), Label(q + 1) >>, {q, q + 1}, J, 0)
      BY <1>0, <1>5, <1>6, <2>1, TrueFalseMade DEF s, t
    <2> QED
      BY <2>2 DEF Makes, GoodList, s, t
  <1> HIDE DEF x, y, q, j
  <1>8. PICK l : /\ Extends(k, l) /\ Numbered(l, q + 2) /\ q \in DOMAIN l.lab /\ q + 1 \in DOMAIN l.lab
                 /\ l.lab[q] = x /\ l.lab[q + 1] = y
    BY <1>4, <1>5, LabelsTaken
  <1>9. /\ addr_transl_translate(l.labels, q) = Target(q) /\ addr_transl_translate(l.labels, e) = Target(e)
        /\ l.g = k.g
    BY <1>8, TakeFacts
  <1>10. /\ e \in DOMAIN l.lab /\ e \in Nat /\ l.lab[q] = Between(m, h, c).type
         /\ l.lab[e] = Between(m, h + 1, c).type
    BY <1>5, <1>8 DEF x, y
  <1> HIDE DEF e
  <1>12. Leads(l, << JumpTo(l, j, q), Emit(WithImm("PUSH", 0)), JumpTo(l, "JMP", e), Label(q),
                     Emit(WithImm("PUSH", 1)), Label(e) >>,
               Between(m, h + 2, c), Between(m, h + 1, c))
    BY <1>0, <1>5, <1>6, <1>8, <1>9, <1>10, TrueFalseLeads
  <1>13. Leads(l, L, z, v)
    BY <1>3, <1>9, <1>12 DEF JumpTo
  <1>14. PICK r \in Seq(Nat) : args_counters = z.counts \o r
    BY <1>8, TakeFacts
  <1>15. args_counters' = z.counts \o r /\ Numbered(l, cur_label_index') /\ z \in Points
    BY <1>1, <1>8, <1>14 DEF Here, Ahead
  <1> HIDE DEF L
  <1> QED
    BY <1>1, <1>7, <1>8, <1>13, <1>15, GoesOn

LEMMA BranchesAdvances ==
    ASSUME NEW k, NEW z, NEW v, Here(k, z, v), ConvertBranches PROVE Advances(k, z)
  <1> DEFINE q == cur_label_index
             e == q + 1
             K == << Emit(WithImm("JE", Target(e))), Convert(Node.left, TRUE), Emit(WithImm("JMP", Target(q))),
                     Label(e), Convert(Node.right, TRUE), Label(q) >>
             L == << Emit(WithImm("JE", Target(q))), Convert(Node.right, TRUE), Label(q) >>
  <1>1. /\ At_("if") /\ UNCHANGED << transl, args_counters >>
        /\ \/ Continue(K) /\ cur_label_index' = q + 2
           \/ Continue(L) /\ cur_label_index' = q + 1
    BY DEF ConvertBranches, GetLabels
  <1>2. Head(todo).do = "if" /\ TaskOK(Head(todo)) /\ Rule(k, Head(todo), z, v) /\ z \in Points
    BY <1>1, HereFields DEF At_
  <1>0. BranchAt(k, Head(todo).node, z, v) /\ Head(todo).node \in Nodes
    BY <1>2, BranchRule DEF TaskOK
  <1>3. Node \in Nodes /\ BranchAt(k, Node, z, v) /\ Node.left \in MaybeNodes /\ Node.right \in MaybeNodes
    BY <1>0, NodeFacts DEF Node
  <1>4. PICK m \in BOOLEAN, c \in Seq(Nat) :
           /\ z = Between(m, 3, c) /\ v = Between(m, 1, c)
           /\ InBody(k, m, Node.left, TRUE) /\ InBody(k, m, Node.right, TRUE)
    BY <1>3 DEF BranchAt
  <1> DEFINE x == Between(m, 1, c).type
  <1>5. x \in Types /\ x.at = "rest"
    BY BetweenFields DEF Heights
  <1>6. q \in Nat /\ Numbered(k, q)
    BY ExtendsSelf, TakeFacts
  <1>7. Target(q) \in Int /\ Target(e) \in Int
    BY TargetTypes DEF Here
  <1>8. PICK r \in Seq(Nat) : args_counters = z.counts \o r
    BY ExtendsSelf, TakeFacts
  <1>9. CASE Continue(K) /\ cur_label_index' = q + 2
    <2>1. K \in Seq(Tasks)
      <3> DEFINE J == Int
                 s == Target(e)
                 t == Target(q)
      <3>1. s \in J /\ t \in J
        BY <1>7
      <3> HIDE DEF s, t, J, q
      <3>2. Makes(<< Emit(WithImm("JE", s)), Convert(Node.left, TRUE), Emit(WithImm("JMP", t)),
                     Label(q + 1), Convert(Node.right, TRUE), Label(q) >>, {q, q + 1}, J, 0)
        BY <1>3, <1>6, <1>7, <3>1, BothBranchesMade DEF s, t
      <3> QED
        BY <3>2 DEF Makes, GoodList, s, t
    <2> HIDE DEF x, q
    <2>2. PICK l : /\ Extends(k, l) /\ Numbered(l, q + 2) /\ q \in DOMAIN l.lab /\ q + 1 \in DOMAIN l.lab
                   /\ l.lab[q] = x /\ l.lab[q + 1] = x
      BY <1>5, <1>6, LabelsTaken
    <2>3. /\ addr_transl_translate(l.labels, q) = Target(q) /\ addr_transl_translate(l.labels, e) = Target(e)
          /\ l.g = k.g
      BY <2>2, TakeFacts
    <2>4. /\ e \in DOMAIN l.lab /\ e \in Nat /\ l.lab[q] = Between(m, 1, c).type
          /\ l.lab[e] = Between(m, 1, c).type
      BY <1>6, <2>2 DEF x
    <2>5. InBody(l, m, Node.left, TRUE) /\ InBody(l, m, Node.right, TRUE)
      BY <1>4, <2>3 DEF InBody
    <2> HIDE DEF e
    <2>6. Leads(l, << JumpTo(l, "JE", e), Convert(Node.left, TRUE), JumpTo(l, "JMP", q), Label(e),
                      Convert(Node.right, TRUE), Label(q) >>, Between(m, 3, c), Between(m, 1, c))
      BY <1>3, <1>6, <1>7, <2>2, <2>3, <2>4, <2>5, BranchLeads
    <2>7. Leads(l, K, z, v)
      BY <1>4, <2>3, <2>6 DEF JumpTo
    <2>8. args_counters' = z.counts \o r /\ Numbered(l, cur_label_index')
      BY <1>1, <1>8, <1>9, <2>2
    <2> HIDE DEF K
    <2> QED
      BY <1>1, <1>2, <1>9, <2>1, <2>2, <2>7, <2>8, GoesOn
  <1>10. CASE Continue(L) /\ cur_label_index' = q + 1
    <2>1. L \in Seq(Tasks)
      <3> DEFINE J == Int
                 s == Target(q)
      <3>1. s \in J
        BY <1>7
      <3> HIDE DEF s, J, q
      <3>2. Makes(<< Emit(WithImm("JE", s)), Convert(Node.right, TRUE), Label(q) >>, {q, q}, J, 0)
        BY <1>3, <1>6, <1>7, <3>1, OneBranchMade DEF s
      <3> QED
        BY <3>2 DEF Makes, GoodList, s
    <2> HIDE DEF x, q
    <2>2. PICK l : Extends(k, l) /\ Numbered(l, q + 1) /\ q \in DOMAIN l.lab /\ l.lab[q] = x
      BY <1>5, <1>6, LabelTaken
    <2>3. addr_transl_translate(l.labels, q) = Target(q) /\ l.g = k.g
      BY <2>2, TakeFacts
    <2>4. l.lab[q] = Between(m, 1, c).type
      BY <2>2 DEF x
    <2>5. InBody(l, m, Node.right, TRUE)
      BY <1>4, <2>3 DEF InBody
    <2>6. Leads(l, << JumpTo(l, "JE", q), Convert(Node.right, TRUE), Label(q) >>,
                Between(m, 3, c), Between(m, 1, c))
      BY <1>3, <1>6, <1>7, <2>2, <2>3, <2>4, <2>5, BranchLeads
    <2>7. Leads(l, L, z, v)
      BY <1>4, <2>3, <2>6 DEF JumpTo
    <2>8. args_counters' = z.counts \o r /\ Numbered(l, cur_label_index')
      BY <1>1, <1>8, <1>10, <2>2
    <2> HIDE DEF L
    <2> QED
      BY <1>1, <1>2, <1>10, <2>1, <2>2, <2>7, <2>8, GoesOn
  <1> QED
    BY <1>1, <1>9, <1>10

LEMMA FuncDefAdvances ==
    ASSUME NEW k, NEW z, NEW v, Here(k, z, v), convert_func_def PROVE Advances(k, z)
  <1> DEFINE q == cur_label_index
             L == << Emit(WithImm("JMP", Target(q))), FunctionLabel(Node.data), Rest("def_args", Node.left),
                     Convert(Node.right, TRUE), Label(q), Mark("leave_func") >>
  <1>1. /\ AtNode("FUNC_DEF") /\ Continue(L) /\ cur_label_index' = q + 1
        /\ UNCHANGED << transl, args_counters >>
    BY DEF convert_func_def, GetLabels
  <1>2. /\ Node \in Nodes /\ Node.type = "FUNC_DEF" /\ Node = Head(todo).node
        /\ Head(todo).do = "subtree_convert" /\ Rule(k, Head(todo), z, v) /\ Grammar(k.g, Trees)
    BY <1>1, HereNode
  <1>0. DefAt(k, Node, z, v)
    BY <1>2, OtherRules
  <1>3. z = End /\ v = End /\ InBody(k, FALSE, Node.right, TRUE)
    BY <1>0 DEF DefAt
  <1>4. Main \in Types /\ Main.at = "rest"
    BY EndIs DEF Points
  <1>5. q \in Nat /\ Numbered(k, q)
    BY ExtendsSelf, TakeFacts
  <1>6. Target(q) \in Int
    BY TargetTypes DEF Here
  <1>7. L \in Seq(Tasks)
    <2> DEFINE J == Int
               s == Target(q)
    <2>1. s \in J
      BY <1>6
    <2> HIDE DEF s, J, q
    <2>2. Makes(<< Emit(WithImm("JMP", s)), FunctionLabel(Node.data), Rest("def_args", Node.left),
                   Convert(Node.right, TRUE), Label(q), Mark("leave_func") >>, {q, -1}, J, 0)
      BY <1>2, <1>5, <1>6, <2>1, FuncDefMade DEF s
    <2> QED
      BY <2>2 DEF Makes, GoodList, s
  <1> HIDE DEF q
  <1>8. PICK l : Extends(k, l) /\ Numbered(l, q + 1) /\ q \in DOMAIN l.lab /\ l.lab[q] = Main
    BY <1>4, <1>5, LabelTaken
  <1>9. addr_transl_translate(l.labels, q) = Target(q) /\ l.g = k.g
    BY <1>8, TakeFacts
  <1>10. InBody(l, FALSE, Node.right, TRUE)
    BY <1>3, <1>9 DEF InBody
  <1>12. Leads(l, << JumpTo(l, "JMP", q), FunctionLabel(Node.data), Rest("def_args", Node.left),
                     Convert(Node.right, TRUE), Label(q), Mark("leave_func") >>,
               Point(Main, << >>), Point(Main, << >>))
    BY <1>2, <1>5, <1>6, <1>8, <1>9, <1>10, FuncDefLeads
  <1>13. Leads(l, L, z, v)
    BY <1>3, <1>9, <1>12 DEF JumpTo, End
  <1>14. PICK r \in Seq(Nat) : args_counters = z.counts \o r
    BY <1>8, TakeFacts
  <1>15. args_counters' = z.counts \o r /\ Numbered(l, cur_label_index') /\ z \in Points
    BY <1>1, <1>8, <1>14 DEF Here, Ahead
  <1> HIDE DEF L
  <1> QED
    BY <1>1, <1>7, <1>8, <1>13, <1>15, GoesOn

\* The counters of the calls in progress, of a function's own and of others.
LEMMA CountersOn ==
    ASSUME NEW c \in Seq(Nat), NEW r \in Seq(Nat)
    PROVE  /\ << 0 >> \o (c \o r) = (<< 0 >> \o c) \o r /\ << 0 >> \o c \in Seq(Nat)
           /\ c # << >> => /\ Head(c \o r) = c[1] /\ Tail(c \o r) = Tail(c) \o r /\ Tail(c) \in Seq(Nat)
                           /\ c \o r # << >>
           /\ << >> \o r = r
  <1>1. << 0 >> \in Seq(Nat)
    OBVIOUS
  <1>2. << 0 >> \o (c \o r) = (<< 0 >> \o c) \o r /\ << 0 >> \o c \in Seq(Nat)
    BY <1>1
  <1>3. << >> \o r = r
    OBVIOUS
  <1>4. ASSUME c # << >>
        PROVE  /\ Head(c \o r) = c[1] /\ Tail(c \o r) = Tail(c) \o r /\ Tail(c) \in Seq(Nat)
               /\ c \o r # << >>
    BY <1>4
  <1> QED
    BY <1>2, <1>3, <1>4

LEMMA FirstMore ==
    ASSUME NEW s \in Seq(Nat), s # << >>
    PROVE  [s EXCEPT ![1] = @ + 1] = << s[1] + 1 >> \o Tail(s)
  <1> DEFINE b == [s EXCEPT ![1] = @ + 1]
             t == Tail(s)
             n == Len(s)
             v == s[1] + 1
             e == << v >> \o t
  <1>1. n \in Nat \ {0} /\ s = [i \in 1 .. n |-> s[i]] /\ s[1] \in Nat
    OBVIOUS
  <1>2. t \in Seq(Nat) /\ Len(t) = n - 1 /\ \A i \in 1 .. n - 1 : t[i] = s[i + 1]
    OBVIOUS
  <1> HIDE DEF n, t
  <1>3. v \in Nat
    BY <1>1
  <1>4. b = [i \in 1 .. n |-> IF i = 1 THEN v ELSE s[i]]
    <2>1. DOMAIN s = 1 .. n
      BY <1>1
    <2>2. b = [i \in DOMAIN s |-> IF i = 1 THEN s[1] + 1 ELSE s[i]]
      OBVIOUS
    <2> QED
      BY <2>1, <2>2
  <1> HIDE DEF b, v
  <1>5. /\ << v >> \in Seq(Nat) /\ Len(<< v >>) = 1 /\ << v >>[1] = v
    BY <1>3
  <1> DEFINE f == << v >>
  <1> HIDE DEF f
  <1>6. f \in Seq(Nat) /\ Len(f) = 1 /\ f[1] = v
    BY <1>5 DEF f
  <1>7. /\ f \o t \in Seq(Nat) /\ Len(f \o t) = Len(f) + Len(t)
        /\ \A i \in 1 .. Len(f) + Len(t) : (f \o t)[i] = IF i <= Len(f) THEN f[i] ELSE t[i - Len(f)]
    <2>1. f \in Seq(Nat) /\ t \in Seq(Nat)
      BY <1>2, <1>6
    <2>2. f \o t \in Seq(Nat) /\ Len(f \o t) = Len(f) + Len(t)
      BY <2>1
    <2> QED
      BY <2>1, <2>2
  <1>8. Len(f) + Len(t) = n
    BY <1>1, <1>2, <1>6
  <1>9. \A i \in 1 .. n : b[i] = (f \o t)[i]
    <2> TAKE i \in 1 .. n
    <2>1. CASE i = 1
      BY <1>4, <1>6, <1>7, <1>8, <2>1
    <2>2. CASE i # 1
      <3>1. i - 1 \in 1 .. n - 1 /\ (i - 1) + 1 = i /\ ~(i <= 1)
        BY <1>1, <2>2
      <3>2. t[i - 1] = s[i]
        BY <1>2, <3>1
      <3>3. (f \o t)[i] = t[i - 1]
        BY <1>6, <1>7, <1>8, <3>1
      <3> QED
        BY <1>4, <2>2, <3>2, <3>3
    <2> QED
      BY <2>1, <2>2
  <1>10. b \in Seq(Nat) /\ Len(b) = n
    <2>1. \A i \in 1 .. n : s[i] \in Nat
      BY DEF n
    <2> DEFINE F(i) == IF i = 1 THEN v ELSE s[i]
    <2>2. \A i \in 1 .. n : F(i) \in Nat
      BY <1>3, <2>1
    <2>3. b = [i \in 1 .. n |-> F(i)]
      BY <1>4
    <2> HIDE DEF F
    <2>4. b \in [1 .. n -> Nat] /\ n \in Nat
      BY <1>1, <2>2, <2>3
    <2>5. b \in Seq(Nat)
      BY <2>4
    <2>6. DOMAIN b = 1 .. n
      BY <2>4
    <2> QED
      BY <1>1, <2>4, <2>5, <2>6
  <1>11. b = f \o t
    BY <1>7, <1>8, <1>9, <1>10, SeqEqual
  <1> QED
    BY <1>11 DEF b, f, t, v

LEMMA Associative ==
    ASSUME NEW a \in Seq(Nat), NEW b \in Seq(Nat), NEW c \in Seq(Nat)
    PROVE  (a \o b) \o c = a \o (b \o c)
  BY ConcatAssociative

LEMMA CountedOn ==
    ASSUME NEW c \in Seq(Nat), NEW r \in Seq(Nat), c # << >>
    PROVE  [(c \o r) EXCEPT ![1] = @ + 1] = Counted(c, 1) \o r
  <1> DEFINE t == Tail(c)
             f == << c[1] + 1 >>
  <1>1. c \o r \in Seq(Nat) /\ c \o r # << >> /\ (c \o r)[1] = c[1] /\ Tail(c \o r) = t \o r
    OBVIOUS
  <1>2. [(c \o r) EXCEPT ![1] = @ + 1] = f \o (t \o r)
    BY <1>1, FirstMore
  <1>3. t \in Seq(Nat) /\ c[1] \in Nat
    OBVIOUS
  <1>4. f \in Seq(Nat)
    BY <1>3
  <1> HIDE DEF f, t
  <1>5. (f \o t) \o r = f \o (t \o r)
    <2>1. r \in Seq(Nat)
      OBVIOUS
    <2> QED
      BY <1>3, <1>4, <2>1, Associative
  <1>6. Counted(c, 1) = f \o t
    BY DEF Counted, f, t
  <1> QED
    BY <1>2, <1>5, <1>6

\* Outside functions every place is the same.
LEMMA EndSpots ==
    /\ End \in Points /\ End.counts = << >> /\ << >> \in Seq(Nat) /\ 1 \in Heights
    /\ \A h : Between(TRUE, h, << >>) = End
  <1>1. << >> \in Seq(Nat) /\ 1 \in Heights
    BY DEF Heights
  <1> QED
    BY <1>1, EndIs

LEMMA FuncSpots ==
    ASSUME NEW h \in Heights, NEW c \in Seq(Nat)
    PROVE  /\ Between(FALSE, h, c) \in Points /\ Between(FALSE, h, c).type = InFunc(h, "rest", 0)
           /\ Between(FALSE, h, c).counts = c
  <1> DEFINE m == FALSE
  <1>1. m \in BOOLEAN /\ ~m
    OBVIOUS
  <1> HIDE DEF m
  <1>2. /\ Between(m, h, c) \in Points /\ Between(m, h, c).type = InFunc(h, "rest", 0)
        /\ Between(m, h, c).counts = c
    BY <1>1, BetweenFields
  <1> QED
    BY <1>2 DEF m

LEMMA FuncCallAdvances == ASSUME NEW k, NEW z, NEW v, Here(k, z, v), ConvertFuncCall PROVE Advances(k, z)
  <1> DEFINE used == Head(todo).result_used
             A == << Rest("call_args", Node.right), Rest("call", Node) >>
             D == << Emit(WithReg("POP", REG_RAX)) >>
             L == A \o (IF used THEN << >> ELSE D)
  <1>1. /\ AtNode("FUNC_CALL") /\ Continue(L) /\ args_counters' = << 0 >> \o args_counters
        /\ UNCHANGED << transl, cur_label_index >>
    BY DEF ConvertFuncCall
  <1>2. /\ Node \in Nodes /\ Node.type = "FUNC_CALL" /\ Node = Head(todo).node
        /\ Head(todo).do = "subtree_convert" /\ Rule(k, Head(todo), z, v) /\ Grammar(k.g, Trees)
        /\ used \in BOOLEAN
    BY <1>1, HereNode
  <1>3. CallAt(k, Node, z, v, used)
    BY <1>2, OtherRules
  <1>4. L \in Seq(Tasks) /\ A \in Seq(Tasks)
    <2> DEFINE J == Int
    <2>1. Makes(L, {}, J, 1)
      BY <1>2, FuncCallMade
    <2>2. Node \in MaybeNodes /\ Node.right \in MaybeNodes
      BY <1>2, NodeFacts
    <2>3. Rest("call_args", Node.right) \in Tasks /\ Rest("call", Node) \in Tasks
      BY <2>2, TaskMade
    <2>4. A \in Seq(Tasks)
      BY <2>3
    <2> HIDE DEF L, A
    <2> QED
      BY <2>1, <2>4 DEF Makes, GoodList
  <1>5. used => L = A
    BY <1>4
  <1>6. ~used => L = A \o D
    OBVIOUS
  <1>7. PICK r \in Seq(Nat) : args_counters = z.counts \o r
    BY ExtendsSelf, TakeFacts
  <1>8. Numbered(k, cur_label_index') /\ Extends(k, k) /\ args_counters' \in Seq(Nat) /\ UNCHANGED transl
    BY <1>1, ExtendsSelf DEF Here, Ahead, TypeInv, TypeOK
  <1> HIDE DEF L
  <1>9. CASE z = End /\ v = End /\ Node.right \in k.g.main
    <2>1. Leads(k, A, End, End)
      BY <1>2, <1>9, MainFuncCallLeads, EndSpots
    <2>2. Leads(k, A \o D, End, End)
      <3> DEFINE m == TRUE
                 h == 1
                 e == Between(m, h, << >>)
      <3>1. m \in BOOLEAN /\ h \in Heights /\ << >> \in Seq(Nat) /\ e = End /\ Between(m, h + 1, << >>) = End
        BY EndSpots
      <3> HIDE DEF m, h, A
      <3>2. Leads(k, A \o D, End, Between(m, h, << >>))
        BY <1>4, <2>1, <3>1, DropLeads
      <3> QED
        BY <3>1, <3>2
    <2>3. Leads(k, L, End, v)
      BY <1>2, <1>5, <1>6, <1>9, <2>1, <2>2
    <2>4. args_counters' = End.counts \o args_counters'
      BY <1>8, EndSpots, CountersOn
    <2>5. End \in Points /\ End.type = z.type
      BY <1>9, EndSpots
    <2> QED
      BY <1>1, <1>4, <1>8, <2>3, <2>4, <2>5, GoesOn
  <1>10. CASE /\ Node.right \in k.g.args /\ k.g.count[Node.right] \in Nat
              /\ \E h \in Heights, c \in Seq(Nat) :
                    z = Between(FALSE, h, c) /\ v = Between(FALSE, IF used THEN h + 1 ELSE h, c)
    <2>1. PICK h \in Heights, c \in Seq(Nat) :
             z = Between(FALSE, h, c) /\ v = Between(FALSE, IF used THEN h + 1 ELSE h, c)
      BY <1>10
    <2> DEFINE d == << 0 >> \o c
               x == Between(FALSE, h, d)
    <2>2. Leads(k, A, x, Between(FALSE, h + 1, c))
      BY <1>2, <1>10, FuncCallLeads
    <2>3. Leads(k, A \o D, x, Between(FALSE, h, c))
      <3> DEFINE m == FALSE
      <3>1. m \in BOOLEAN /\ Leads(k, A, x, Between(m, h + 1, c))
        BY <2>2
      <3> HIDE DEF m, A, x
      <3>2. Leads(k, A \o D, x, Between(m, h, c))
        BY <1>4, <3>1, DropLeads
      <3> QED
        BY <3>2 DEF m
    <2>4. Leads(k, L, x, v)
      BY <1>2, <1>5, <1>6, <2>1, <2>2, <2>3
    <2>5. d \in Seq(Nat) /\ x \in Points /\ x.counts = d /\ x.type = z.type /\ z.counts = c
      <3>1. d \in Seq(Nat)
        BY CountersOn
      <3> HIDE DEF d
      <3> QED
        BY <2>1, <3>1, FuncSpots
    <2>6. args_counters' = << 0 >> \o (c \o r)
      BY <1>1, <1>7, <2>5
    <2>7. args_counters' = d \o r
      BY <2>6, CountersOn
    <2> HIDE DEF x
    <2>8. args_counters' = x.counts \o r
      BY <2>5, <2>7
    <2> QED
      BY <1>1, <1>4, <1>8, <2>4, <2>5, <2>8, GoesOn
  <1> QED
    BY <1>3, <1>9, <1>10 DEF CallAt

LEMMA CountedTwice ==
    ASSUME NEW c \in Seq(Nat), c # << >>, NEW a \in Nat, NEW b \in Nat
    PROVE  Counted(Counted(c, a), b) = Counted(c, a + b)
  <1> DEFINE d == Counted(c, a)
  <1>1. d[1] = c[1] + a /\ Tail(d) = Tail(c) /\ c[1] \in Nat
    BY CountedFields
  <1> HIDE DEF d
  <1>2. (c[1] + a) + b = c[1] + (a + b)
    BY <1>1
  <1>3. Counted(d, b) = << (c[1] + a) + b >> \o Tail(c)
    BY <1>1 DEF Counted
  <1>4. Counted(d, b) = << c[1] + (a + b) >> \o Tail(c)
    BY <1>2, <1>3
  <1>5. Counted(c, a + b) = << c[1] + (a + b) >> \o Tail(c)
    BY DEF Counted
  <1> QED
    BY <1>4, <1>5 DEF d

\* A list of arguments, one after the other.
LEMMA ArgumentListLeads ==
    ASSUME NEW k, NEW h \in Heights, NEW c \in Seq(Nat), c # << >>,
           NEW p \in MaybeNodes, p \in k.g.args, k.g.count[p] \in Nat,
           NEW q \in MaybeNodes, q \in k.g.args, k.g.count[q] \in Nat,
           NEW s \in Nat, s = k.g.count[p] + k.g.count[q]
    PROVE  Leads(k, << Rest("call_args", p), Rest("call_args", q) >>,
                 Between(FALSE, h, c), Between(FALSE, h + s, Counted(c, s)))
  <1> DEFINE a == k.g.count[p]
             b == k.g.count[q]
             d == Counted(c, a)
             i == h + a
             m == FALSE
             K == Rest("call_args", p)
             L == Rest("call_args", q)
  <1>1. Rule(k, K, Between(m, h, c), Between(m, i, d)) /\ i \in Heights
    BY CallArgsLeads
  <1>2. d \in Seq(Nat) /\ d # << >>
    BY CountedFields
  <1>3. K \in Tasks /\ L \in Tasks
    BY TaskMade
  <1>4. Counted(d, b) = Counted(c, s)
    BY CountedTwice
  <1>5. i + b = h + s
    BY DEF Heights
  <1> HIDE DEF d, i
  <1>6. Rule(k, L, Between(FALSE, i, d), Between(FALSE, i + b, Counted(d, b))) /\ i + b \in Heights
    BY <1>1, <1>2, CallArgsLeads
  <1>7. Rule(k, L, Between(FALSE, i, d), Between(FALSE, h + s, Counted(c, s)))
    BY <1>4, <1>5, <1>6
  <1>8. Counted(c, s) \in Seq(Nat) /\ h + s \in Heights
    BY <1>5, <1>6, CountedFields
  <1>9. Between(FALSE, h, c) \in Points /\ Between(FALSE, i, d) \in Points
    BY <1>1, <1>2, FuncSpots
  <1>10. Between(FALSE, h + s, Counted(c, s)) \in Points
    BY <1>8, FuncSpots
  <1> HIDE DEF K, L
  <1>11. Leads(k, << K, L >>, Between(FALSE, h, c), Between(FALSE, h + s, Counted(c, s)))
    BY <1>1, <1>3, <1>7, <1>9, <1>10, LeadsTwo
  <1> QED
    BY <1>11 DEF K, L

LEMMA CallArgsAdvances ==
    ASSUME NEW k, NEW z, NEW v, Here(k, z, v), convert_func_call_args PROVE Advances(k, z)
  <1> DEFINE n == Node
             A == << Rest("call_args", n.left), Rest("call_args", n.right) >>
             B == << Convert(n, TRUE), Mark("catch") >>
  <1>1. /\ Head(todo).do = "call_args" /\ UNCHANGED << transl, cur_label_index >>
        /\ \/ n = nullptr /\ Continue(<< >>) /\ UNCHANGED args_counters
           \/ n # nullptr /\ n.type = "FICTIOUS" /\ Continue(A) /\ UNCHANGED args_counters
           \/ /\ n # nullptr /\ n.type # "FICTIOUS" /\ Continue(B)
              /\ args_counters' = [args_counters EXCEPT ![1] = @ + 1]
    BY DEF convert_func_call_args, At_
  <1>2. Head(todo) \in Tasks /\ Rule(k, Head(todo), z, v) /\ Grammar(k.g, Trees) /\ z \in Points
    BY HereFields
  <1>3. ArgsAt(k, n, z, v) /\ n \in MaybeNodes
    BY <1>1, <1>2, ArgsRule, TaskFields DEF Node
  <1>4. n # nullptr => n \in Nodes /\ n.left \in MaybeNodes /\ n.right \in MaybeNodes
    BY <1>3, NodeFacts DEF MaybeNodes
  <1>5. PICK r \in Seq(Nat) : args_counters = z.counts \o r
    BY ExtendsSelf, TakeFacts
  <1>6. Numbered(k, cur_label_index') /\ Extends(k, k) /\ args_counters' \in Seq(Nat) /\ UNCHANGED transl
    BY <1>1, ExtendsSelf DEF Here, Ahead, TypeInv, TypeOK
  <1>7. n # nullptr => A \in Seq(Tasks)
    <2> SUFFICES ASSUME n # nullptr PROVE A \in Seq(Tasks)
      OBVIOUS
    <2>1. Rest("call_args", n.left) \in Tasks /\ Rest("call_args", n.right) \in Tasks
      BY <1>4, TaskMade
    <2> QED
      BY <2>1
  <1>8. B \in Seq(Tasks)
    <2> DEFINE a == Convert(n, TRUE)
               b == Mark("catch")
    <2>1. a \in Tasks
      BY <1>3, TaskMade
    <2>2. b \in Tasks
      BY TaskMade
    <2> HIDE DEF a, b
    <2>3. << a, b >> \in Seq(Tasks)
      BY <2>1, <2>2
    <2> QED
      BY <2>3 DEF a, b
  <1> HIDE DEF n
  <1>9. CASE n \in k.g.main /\ z = End /\ v = End
    <2>1. CASE n = nullptr
      BY <1>1, <1>9, <2>1, SkipAdvances
    <2>2. CASE n # nullptr /\ n.type = "FICTIOUS"
      <3> DEFINE p == Rest("call_args", n.left)
                 q == Rest("call_args", n.right)
      <3>1. n.left \in k.g.main /\ n.right \in k.g.main
        BY <1>2, <1>9, <2>2 DEF Grammar, OutsideFunctions
      <3>2. Rule(k, p, End, End) /\ Rule(k, q, End, End)
        <4> DEFINE h == 1
        <4>1. h \in Heights /\ Between(TRUE, h, << >>) = End
          BY EndSpots
        <4> HIDE DEF h
        <4>2. Rule(k, p, Between(TRUE, h, << >>), Between(TRUE, h, << >>))
          BY <1>4, <2>2, <3>1, <4>1, MainCallArgsLeads
        <4>3. Rule(k, q, Between(TRUE, h, << >>), Between(TRUE, h, << >>))
          BY <1>4, <2>2, <3>1, <4>1, MainCallArgsLeads
        <4> QED
          BY <4>1, <4>2, <4>3
      <3>3. p \in Tasks /\ q \in Tasks
        BY <1>4, <2>2, TaskMade
      <3> HIDE DEF p, q
      <3>4. Leads(k, << p, q >>, End, End)
        BY <3>2, <3>3, LeadsTwo, EndSpots
      <3>5. Leads(k, A, z, v)
        BY <1>9, <3>4 DEF p, q
      <3> HIDE DEF A
      <3> QED
        BY <1>1, <1>7, <2>2, <3>5, StaysOn
    <2>3. CASE n # nullptr /\ n.type # "FICTIOUS"
      <3>1. Leads(k, B, End, End)
        <4> DEFINE m == TRUE
                   h == 1
                   d == << >>
        <4>1. m \in BOOLEAN /\ h \in Heights /\ d \in Seq(Nat) /\ InExpr(k, m, n)
              /\ Between(m, h, d) = End /\ Between(m, h + 1, d) = End
          BY <1>9, EndSpots DEF InExpr
        <4> HIDE DEF m, h, d
        <4>2. Leads(k, B, Between(m, h, d), Between(m, h + 1, d))
          BY <1>3, <4>1, ArgumentNodeLeads
        <4> QED
          BY <4>1, <4>2
      <3>2. Leads(k, B, z, v)
        BY <1>9, <3>1
      <3>3. args_counters' = z.counts \o args_counters'
        BY <1>6, <1>9, EndSpots, CountersOn
      <3> HIDE DEF B
      <3> QED
        BY <1>1, <1>2, <1>6, <1>8, <2>3, <3>2, <3>3, GoesOn
    <2> QED
      BY <2>1, <2>2, <2>3
  <1>10. CASE /\ n \in k.g.args
              /\ \E h \in Heights, c \in Seq(Nat) :
                    /\ c # << >> /\ z = Between(FALSE, h, c)
                    /\ v = Between(FALSE, h + k.g.count[n], Counted(c, k.g.count[n]))
    <2>1. PICK h \in Heights, c \in Seq(Nat) :
                    /\ c # << >> /\ z = Between(FALSE, h, c)
                    /\ v = Between(FALSE, h + k.g.count[n], Counted(c, k.g.count[n]))
      BY <1>10
    <2>2. /\ \A a \in k.g.args : k.g.count[a] \in Nat
          /\ n = nullptr => k.g.count[n] = 0
          /\ n # nullptr /\ n.type = "FICTIOUS" =>
                /\ n.left \in k.g.args /\ n.right \in k.g.args
                /\ k.g.count[n] = k.g.count[n.left] + k.g.count[n.right]
          /\ n # nullptr /\ n.type # "FICTIOUS" => n \in k.g.expr /\ k.g.count[n] = 1
      BY <1>2, <1>10 DEF Grammar, ArgumentLists
    <2>3. CASE n = nullptr
      <3>1. h + 0 = h /\ Counted(c, 0) = c
        BY <2>1, CountedFields DEF Heights
      <3>2. v = z
        BY <2>1, <2>2, <2>3, <3>1
      <3> QED
        BY <1>1, <2>3, <3>2, SkipAdvances
    <2>4. CASE n # nullptr /\ n.type = "FICTIOUS"
      <3> DEFINE s == k.g.count[n]
      <3>1. s \in Nat /\ s = k.g.count[n.left] + k.g.count[n.right]
        BY <1>10, <2>2, <2>4
      <3> HIDE DEF s
      <3>2. Leads(k, A, Between(FALSE, h, c), Between(FALSE, h + s, Counted(c, s)))
        BY <1>4, <2>1, <2>2, <2>4, <3>1, ArgumentListLeads
      <3>3. Leads(k, A, z, v)
        BY <2>1, <3>2 DEF s
      <3> HIDE DEF A
      <3> QED
        BY <1>1, <1>7, <2>4, <3>3, StaysOn
    <2>5. CASE n # nullptr /\ n.type # "FICTIOUS"
      <3> DEFINE d == Counted(c, 1)
                 x == Between(FALSE, h, d)
      <3>1. d \in Seq(Nat)
        BY <2>1, CountedFields
      <3> HIDE DEF d
      <3>2. x \in Points /\ x.counts = d /\ x.type = z.type /\ z.counts = c
        BY <2>1, <3>1, FuncSpots
      <3>3. v = Between(FALSE, h + 1, d)
        BY <2>1, <2>2, <2>5 DEF d
      <3>4. Leads(k, B, x, v)
        <4> DEFINE m == FALSE
        <4>1. m \in BOOLEAN /\ InExpr(k, m, n)
          BY <2>2, <2>5 DEF InExpr
        <4> HIDE DEF m, x
        <4>2. Leads(k, B, Between(m, h, d), Between(m, h + 1, d))
          BY <1>3, <3>1, <4>1, ArgumentNodeLeads
        <4> QED
          BY <3>3, <4>2 DEF m, x
      <3>5. args_counters' = [(c \o r) EXCEPT ![1] = @ + 1]
        BY <1>1, <1>5, <2>5, <3>2
      <3>6. args_counters' = d \o r
        BY <2>1, <3>5, CountedOn DEF d
      <3> HIDE DEF x
      <3>7. args_counters' = x.counts \o r
        BY <3>2, <3>6
      <3> HIDE DEF B
      <3> QED
        BY <1>1, <1>6, <1>8, <2>5, <3>2, <3>4, <3>7, GoesOn
    <2> QED
      BY <2>3, <2>4, <2>5
  <1> QED
    BY <1>3, <1>9, <1>10 DEF ArgsAt

LEMMA CallAdvances == ASSUME NEW k, NEW z, NEW v, Here(k, z, v), convert_func_call PROVE Advances(k, z)
  <1> DEFINE n == Head(args_counters)
             f == Node.data
             w == addr_transl_translate(func_label_transl, f)
             L == MoveFrame("ADD") \o [i \in 1 .. n |-> Emit(WithMem("POP", REG_RDX, n - i))]
                    \o << Emit(WithImm("CALL", w)) >> \o MoveFrame("SUB")
  <1>1. /\ At_("call") /\ Continue(L) /\ args_counters' = Tail(args_counters)
        /\ UNCHANGED << transl, cur_label_index >>
    BY DEF convert_func_call
  <1>2. /\ Head(todo).do = "call" /\ Rule(k, Head(todo), z, v) /\ z \in Points
        /\ todo \in Seq(Tasks) /\ todo # << >>
    BY <1>1, HereFields, HeadTask DEF At_, Here
  <1>3. CallTaskAt(z, v)
    BY <1>2, CallRule
  <1>4. frame_size \in Nat /\ args_counters \in Seq(Nat) /\ \E j : CallsIn(todo, j) /\ j <= Len(args_counters)
    BY DEF Here, TypeInv, TypeOK
  <1>5. args_counters # << >>
    <2>1. PICK j : CallsIn(todo, j) /\ j <= Len(args_counters)
      BY <1>4
    <2>2. j \in Nat /\ j >= 1
      BY <1>2, <2>1, TailCalls
    <2>3. Len(args_counters) \in Nat
      BY <1>4
    <2>4. Len(args_counters) # 0
      BY <2>1, <2>2, <2>3
    <2> QED
      BY <2>4
  <1>6. n \in Nat /\ args_counters' \in Seq(Nat)
    BY <1>1, <1>4, <1>5
  <1>7. w \in Int /\ k.funcs = func_label_transl
    BY TargetTypes DEF Here, Ahead
  <1>8. L \in Seq(Tasks)
    <2> DEFINE J == Int
    <2>1. w \in J
      BY <1>7
    <2> HIDE DEF J, n, w
    <2>2. Makes(L, {}, J, 0)
      BY <1>4, <1>6, <1>7, <2>1, CallMade
    <2> QED
      BY <2>2 DEF Makes, GoodList
  <1>9. PICK r \in Seq(Nat) : args_counters = z.counts \o r
    BY ExtendsSelf, TakeFacts
  <1>10. Numbered(k, cur_label_index') /\ Extends(k, k) /\ UNCHANGED transl
    BY <1>1, ExtendsSelf DEF Here, Ahead
  <1> DEFINE A == MoveFrame("ADD")
             D == MoveFrame("SUB")
  <1>11. /\ A = << Emit(WithReg("PUSH", REG_RDX)), Emit(WithImm("PUSH", frame_size)), Emit(Plain("ADD")),
                   Emit(WithReg("POP", REG_RDX)) >>
         /\ D = << Emit(WithReg("PUSH", REG_RDX)), Emit(WithImm("PUSH", frame_size)), Emit(Plain("SUB")),
                   Emit(WithReg("POP", REG_RDX)) >>
    BY DEF MoveFrame
  <1> HIDE DEF A, D, f
  <1>12. ASSUME NEW m \in BOOLEAN, NEW h \in Heights, NEW c \in Seq(Nat)
         PROVE  Leads(k, L, Between(m, h + n, c), Between(m, h + 1, c))
    <2>1. addr_transl_translate(k.funcs, f) = w
      BY <1>7
    <2> HIDE DEF n
    <2>2. Leads(k, A \o [i \in 1 .. n |-> Emit(WithMem("POP", REG_RDX, n - i))]
                     \o << Emit(WithImm("CALL", addr_transl_translate(k.funcs, f))) >> \o D,
                Between(m, h + n, c), Between(m, h + 1, c))
      BY <1>4, <1>6, <1>7, <1>11, <2>1, CallsLead
    <2> QED
      BY <2>1, <2>2 DEF A, D
  <1> HIDE DEF L
  <1>13. CASE z = End /\ v = End
    <2> DEFINE m == TRUE
               h == 1
               c == << >>
    <2>1. /\ m \in BOOLEAN /\ h \in Heights /\ c \in Seq(Nat) /\ Between(m, h + n, c) = End
          /\ Between(m, h + 1, c) = End
      BY EndSpots
    <2> HIDE DEF m, h, c
    <2>2. Leads(k, L, z, v)
      BY <1>12, <1>13, <2>1
    <2>3. args_counters' = z.counts \o args_counters'
      BY <1>6, <1>13, EndSpots, CountersOn
    <2> QED
      BY <1>1, <1>2, <1>6, <1>8, <1>10, <2>2, <2>3, GoesOn
  <1>14. CASE \E g \in Heights, c \in Seq(Nat), q \in Nat :
                 /\ c # << >> /\ q = c[1] /\ Tail(c) \in Seq(Nat)
                 /\ z = Between(FALSE, g + q, c) /\ v = Between(FALSE, g + 1, Tail(c))
    <2>1. PICK g \in Heights, c \in Seq(Nat), q \in Nat :
                 /\ c # << >> /\ q = c[1] /\ Tail(c) \in Seq(Nat)
                 /\ z = Between(FALSE, g + q, c) /\ v = Between(FALSE, g + 1, Tail(c))
      BY <1>14
    <2>2. g + q \in Heights
      BY DEF Heights
    <2> DEFINE i == g + q
    <2>3. i \in Heights /\ z = Between(FALSE, i, c)
      BY <2>1, <2>2
    <2> HIDE DEF i
    <2>4. z.counts = c
      BY <2>3, FuncSpots
    <2>5. n = q /\ args_counters' = Tail(c) \o r
      <3>1. args_counters = c \o r
        BY <1>9, <2>4
      <3>2. Head(c \o r) = c[1] /\ Tail(c \o r) = Tail(c) \o r
        BY <2>1, CountersOn
      <3>3. n = Head(c \o r)
        BY <3>1
      <3> HIDE DEF n
      <3> QED
        BY <1>1, <2>1, <3>1, <3>2, <3>3
    <2> DEFINE d == Tail(c)
               x == Between(FALSE, i, d)
    <2>6. d \in Seq(Nat)
      BY <2>1
    <2> HIDE DEF d
    <2>7. x \in Points /\ x.counts = d /\ x.type = z.type
      BY <2>3, <2>6, FuncSpots
    <2>8. Leads(k, L, x, v)
      <3> DEFINE m == FALSE
      <3>1. m \in BOOLEAN
        OBVIOUS
      <3> HIDE DEF m, x
      <3>2. Leads(k, L, Between(m, g + n, d), Between(m, g + 1, d))
        BY <1>12, <2>6, <3>1
      <3>3. g + n = i
        BY <2>5 DEF i
      <3>4. v = Between(FALSE, g + 1, d)
        BY <2>1 DEF d
      <3> QED
        BY <3>2, <3>3, <3>4 DEF m, x
    <2>9. args_counters' = d \o r
      BY <2>5 DEF d
    <2> HIDE DEF x
    <2>10. args_counters' = x.counts \o r
      BY <2>7, <2>9
    <2> QED
      BY <1>1, <1>8, <1>10, <2>7, <2>8, <2>10, GoesOn
  <1> QED
    BY <1>3, <1>13, <1>14 DEF CallTaskAt

\* Every handler that emits nothing.
Emitters == {"emit", "numeric_label", "function_label", "get_var_code", "start_new_pass"}

LEMMA HandlersAdvance ==
    ASSUME NEW k, NEW z, NEW v, Here(k, z, v), Next, status = "running", status' = "running",
           Head(todo).do \notin Emitters
    PROVE  Advances(k, z)
  <1>1. ASSUME At_("emit") \/ At_("numeric_label") \/ At_("function_label") \/ At_("get_var_code")
               \/ At_("start_new_pass") PROVE FALSE
    BY <1>1 DEF At_, Emitters
  <1>2. /\ ~emit_instruction /\ ~register_numeric_label /\ ~register_function_label
        /\ ~start_new_pass /\ ~get_var_code
    BY <1>1 DEF emit_instruction, register_numeric_label, register_function_label, start_new_pass, get_var_code
  <1>3. ~ConvertElse /\ ~Terminated
    BY DEF ConvertElse, Terminated
  <1>4. CASE ConvertSimple
    <2>1. PICK type \in {"FICTIOUS", "VAL", "VAR", "RETURN"} : AtNode(type)
      BY <1>4 DEF ConvertSimple
    <2>2. GoOn(SimpleTasks(Node))
      BY <1>4 DEF ConvertSimple
    <2> QED
      BY <2>1, <2>2, SimpleAdvances
  <1>5. CASE convert_op \/ ConvertNull \/ ConvertVarDef \/ emit_assig \/ Catch \/ OperandsDone \/ LeaveFunc
    BY <1>5, OpAdvances, NullAdvances, VarDefAdvances, AssigAdvances, DoneAdvances
  <1>6. CASE emit_push_true_false \/ convert_if \/ ConvertBranches \/ convert_while
    BY <1>6, PushAdvances, IfAdvances, BranchesAdvances, WhileAdvances
  <1>7. CASE convert_func_def \/ convert_func_def_args \/ ConvertFuncCall \/ convert_func_call_args
             \/ convert_func_call
    BY <1>7, FuncDefAdvances, DefArgsAdvances, FuncCallAdvances, CallArgsAdvances, CallAdvances
  <1> QED
    BY <1>2, <1>3, <1>4, <1>5, <1>6, <1>7 DEF Next

-----------------------------------------------------------------------------
(* The types of the code that the second pass has emitted.                 *)

\* ty has the types of the instructions of code, and y of the one to come.
TypedCode(code, ty, k, y) ==
    /\ ty \in Seq(Types) /\ Len(ty) = Len(code) + 1 /\ ty[1] = Main /\ ty[Len(ty)] = y
    /\ \A j \in 1 .. Len(code) :
          \E e \in Types : Emitting(k, code[j], ty[j], e) /\ Weaker(e, ty[j + 1])

\* x holds at the instruction with the number a, which has been emitted or is to
\* come next.
PlacedAt(ty, a, x) == a + 1 \in 1 .. Len(ty) /\ Weaker(x, ty[a + 1])

\* The second pass is on its way to the function f.
IsFunction(t, f) == t.do = "function_label" /\ t.num = f
Comes(f) ==
    \E tr, n, b :
       /\ n \in Nat \ {0} /\ Match(tr[1], b)
       /\ \A i \in 1 .. n - 1 : tr[i + 1] = Succ(tr[i]) /\ Head(tr[i].todo).do # "start_new_pass"
       /\ IsFunction(Head(tr[n].todo), f)

\* A label that has been taken is on the list, or where its jumps lead it has its
\* type; the same of functions.
LabelsPlaced(k, ty) ==
    \A l \in DOMAIN k.lab :
       \/ \E i \in 1 .. Len(todo) : todo[i].do = "numeric_label" /\ todo[i].num = l
       \/ PlacedAt(ty, Target(l), k.lab[l])
FunctionsPlaced(ty) ==
    \A f : HasOld(func_label_transl, f) =>
       Comes(f) \/ PlacedAt(ty, addr_transl_translate(func_label_transl, f), Entry)

StackAt(k, z, ty) ==
    /\ Ahead(k, z) /\ TypedCode(ir_code, ty, k, z.type)
    /\ LabelsPlaced(k, ty) /\ FunctionsPlaced(ty)

StackInv == status = "running" /\ pass_index = PASS_INDEX_TO_WRITE => \E k, z, ty : StackAt(k, z, ty)

\* What holds between two instructions of ty still holds in sy.
Later(ty, sy) ==
    \A i \in 1 .. Len(ty) : /\ i \in 1 .. Len(sy)
                            /\ \A x : x.at = "rest" /\ Weaker(x, ty[i]) => Weaker(x, sy[i])

LEMMA LaterSelf == ASSUME NEW ty PROVE Later(ty, ty)
  BY DEF Later

LEMMA PlacedLater ==
    ASSUME NEW ty, NEW sy, Later(ty, sy), NEW a, NEW x, x.at = "rest", PlacedAt(ty, a, x)
    PROVE  PlacedAt(sy, a, x)
  BY DEF PlacedAt, Later

LEMMA RestTypes == Main.at = "rest" /\ Entry.at = "rest" /\ Main \in Types /\ Entry \in Types
  BY DEF Main, Entry, InMain, InFunc, Types, Stages

\* The second pass is on its way to a function until it has come there.
LEMMA ComesStep ==
    ASSUME TypeInv, OnPath, todo # << >>, NEW f, Comes(f), ~IsFunction(Head(todo), f)
    PROVE  Comes(f)'
  <1>1. PICK tr, n, b :
           /\ n \in Nat \ {0} /\ Match(tr[1], b)
           /\ \A i \in 1 .. n - 1 : tr[i + 1] = Succ(tr[i]) /\ Head(tr[i].todo).do # "start_new_pass"
           /\ IsFunction(Head(tr[n].todo), f)
    BY DEF Comes
  <1>2. n # 1
    <2>1. n = 1 => IsFunction(Head(tr[1].todo), f)
      BY <1>1
    <2> QED
      BY <1>1, <2>1, HeadMatch DEF IsFunction
  <1> DEFINE m == n - 1
             h == [i \in 1 .. m |-> tr[i + 1]]
  <1>3. m \in Nat \ {0} /\ 1 \in 1 .. m /\ m \in 1 .. m /\ m + 1 = n /\ 1 \in 1 .. n - 1
    BY <1>1, <1>2
  <1>4. \A i \in 1 .. m : h[i] = tr[i + 1]
    OBVIOUS
  <1>5. \A i \in 1 .. m - 1 : i \in 1 .. m /\ i + 1 \in 1 .. m /\ i + 1 \in 1 .. n - 1
    BY <1>1, <1>2
  <1> HIDE DEF m, h
  <1>6. h[1] = Succ(tr[1])
    BY <1>1, <1>3, <1>4
  <1>7. Match(h[1], b)'
    <2>1. Match(Succ(tr[1]), b)'
      BY <1>1, StepMatch DEF OnPath
    <2> QED
      BY <1>6, <2>1
  <1>8. \A i \in 1 .. m - 1 : h[i + 1] = Succ(h[i]) /\ Head(h[i].todo).do # "start_new_pass"
    BY <1>1, <1>4, <1>5
  <1>9. IsFunction(Head(h[m].todo), f)
    BY <1>1, <1>3, <1>4
  <1> QED
    BY <1>3, <1>7, <1>8, <1>9 DEF Comes

\* A function or a label at the head is where the instruction to come is.
HeadPlaced(k, sy) ==
    /\ Head(todo).do = "numeric_label" =>
          PlacedAt(sy, Target(Head(todo).num), k.lab[Head(todo).num])
    /\ Head(todo).do = "function_label" =>
          PlacedAt(sy, addr_transl_translate(func_label_transl, Head(todo).num), Entry)

LEMMA FunctionsOn ==
    ASSUME TypeInv, OnPath, todo # << >>, UNCHANGED transl, NEW k, NEW ty, NEW sy,
           FunctionsPlaced(ty), Later(ty, sy), HeadPlaced(k, sy)
    PROVE  FunctionsPlaced(sy)'
  <1> SUFFICES ASSUME NEW f, HasOld(func_label_transl', f)
               PROVE  Comes(f)' \/ PlacedAt(sy, addr_transl_translate(func_label_transl', f), Entry)
    BY DEF FunctionsPlaced
  <1>1. func_label_transl' = func_label_transl
    BY DEF transl
  <1>2. CASE PlacedAt(ty, addr_transl_translate(func_label_transl, f), Entry)
    BY <1>1, <1>2, PlacedLater, RestTypes
  <1>3. CASE Comes(f) /\ ~IsFunction(Head(todo), f)
    BY <1>3, ComesStep
  <1>4. CASE IsFunction(Head(todo), f)
    BY <1>1, <1>4 DEF HeadPlaced, IsFunction
  <1> QED
    BY <1>1, <1>2, <1>3, <1>4 DEF FunctionsPlaced

LEMMA LabelsOn ==
    ASSUME TypeInv, TypeInv', UNCHANGED transl, NEW L, NEW j, Expands(L, j),
           NEW k, NEW l, Extends(k, l), Numbered(k, cur_label_index), Numbered(l, cur_label_index'),
           NEW ty, NEW sy, LabelsPlaced(k, ty), Later(ty, sy), HeadPlaced(k, sy)
    PROVE  LabelsPlaced(l, sy)'
  <1>1. \A q : Target(q)' = Target(q)
    BY DEF transl, Target
  <1> DEFINE Pending(q) == \E i \in 1 .. Len(todo') : todo'[i].do = "numeric_label" /\ todo'[i].num = q
  <1> SUFFICES ASSUME NEW q \in DOMAIN l.lab, ~PlacedAt(sy, Target(q), l.lab[q])
               PROVE  Pending(q)
    BY <1>1 DEF LabelsPlaced
  <1>2. q \in 0 .. cur_label_index' - 1 /\ cur_label_index \in Nat /\ cur_label_index' \in Nat
    BY DEF Numbered, TypeInv, TypeOK
  <1>3. CASE q \in cur_label_index .. cur_label_index' - 1
    BY <1>3, PendingStep
  <1>4. CASE q \in DOMAIN k.lab
    <2>1. l.lab[q] = k.lab[q] /\ k.lab[q].at = "rest"
      BY <1>4 DEF Extends, Numbered
    <2>2. ~PlacedAt(ty, Target(q), k.lab[q])
      BY <2>1, PlacedLater
    <2>3. PICK i \in 1 .. Len(todo) : todo[i].do = "numeric_label" /\ todo[i].num = q
      BY <1>4, <2>2 DEF LabelsPlaced
    <2>4. i # 1
      <3>1. Head(todo) = todo[1]
        BY HeadTask DEF Expands
      <3> QED
        BY <2>1, <2>3, <3>1 DEF HeadPlaced
    <2>5. i \in 2 .. Len(todo)
      BY <2>4 DEF TypeInv, TypeOK
    <2> QED
      BY <2>3, <2>5, PendingStep
  <1>5. q \in DOMAIN k.lab \/ q \in cur_label_index .. cur_label_index' - 1
    BY <1>2 DEF Numbered
  <1> QED
    BY <1>3, <1>4, <1>5

LEMMA TypesOn ==
    ASSUME NEW code, NEW ty, NEW k, NEW l, NEW y, Extends(k, l), TypedCode(code, ty, k, y)
    PROVE  TypedCode(code, ty, l, y)
  BY EmittingKept DEF TypedCode

\* A step of the second pass.
LEMMA StackOn ==
    ASSUME TypeInv, TypeInv', OnPath, UNCHANGED transl, NEW L, NEW j, Expands(L, j),
           NEW k, NEW z, NEW ty, StackAt(k, z, ty),
           NEW l, NEW x, NEW sy, Extends(k, l), Ahead(l, x)', TypedCode(ir_code', sy, l, x.type),
           Later(ty, sy), HeadPlaced(k, sy)
    PROVE  StackInv'
  <1>1. todo # << >> /\ Numbered(k, cur_label_index) /\ Numbered(l, cur_label_index')
    BY DEF Expands, StackAt, Ahead
  <1>2. FunctionsPlaced(sy)'
    BY <1>1, FunctionsOn DEF StackAt
  <1>3. LabelsPlaced(l, sy)'
    BY <1>1, LabelsOn DEF StackAt
  <1>4. StackAt(l, x, sy)'
    BY <1>2, <1>3 DEF StackAt
  <1> QED
    BY <1>4 DEF StackInv

-----------------------------------------------------------------------------
(* The steps that emit, and those at labels.                               *)

LEMMA LastType ==
    ASSUME NEW code, code \in Seq(Instr), NEW ty, NEW k, NEW y, TypedCode(code, ty, k, y)
    PROVE  /\ Len(code) \in Nat /\ Len(ty) = Len(code) + 1 /\ ty[Len(code) + 1] = y /\ y \in Types
           /\ \A j \in 1 .. Len(code) + 1 : ty[j] \in Types
  <1>1. Len(code) \in Nat /\ ty \in Seq(Types) /\ Len(ty) = Len(code) + 1 /\ ty[Len(ty)] = y
    BY DEF TypedCode
  <1>2. \A j \in 1 .. Len(ty) : ty[j] \in Types
    BY <1>1
  <1>3. Len(code) + 1 \in 1 .. Len(ty)
    BY <1>1
  <1> QED
    BY <1>1, <1>2, <1>3

\* One instruction more.
LEMMA TypedMore ==
    ASSUME NEW code, code \in Seq(Instr), NEW ty, NEW k, NEW y, TypedCode(code, ty, k, y),
           NEW i \in Instr, NEW e \in Types, Emitting(k, i, y, e)
    PROVE  \E sy : TypedCode(Append(code, i), sy, k, e) /\ Later(ty, sy)
  <1> DEFINE n == Len(code)
             C == Append(code, i)
             sy == Append(ty, e)
  <1>1. n \in Nat /\ ty \in Seq(Types) /\ Len(ty) = n + 1 /\ ty[n + 1] = y /\ ty[1] = Main
    BY LastType DEF TypedCode
  <1>2. /\ Len(C) = n + 1 /\ C[n + 1] = i /\ \A j \in 1 .. n : C[j] = code[j]
    OBVIOUS
  <1>3. /\ sy \in Seq(Types) /\ Len(sy) = Len(ty) + 1 /\ sy[Len(ty) + 1] = e
        /\ \A j \in 1 .. Len(ty) : sy[j] = ty[j]
    BY <1>1
  <1>9. \A j \in 1 .. n : \E u \in Types : Emitting(k, code[j], ty[j], u) /\ Weaker(u, ty[j + 1])
    BY DEF TypedCode
  <1> HIDE DEF n, C, sy
  <1>4. \A j \in 1 .. n + 1 : sy[j] = ty[j]
    BY <1>1, <1>3
  <1>5. sy[1] = Main /\ sy[n + 2] = e /\ Len(sy) = n + 2 /\ sy[n + 1] = y
    <2>1. 1 \in 1 .. n + 1 /\ n + 1 \in 1 .. n + 1 /\ (n + 1) + 1 = n + 2
      BY <1>1
    <2>2. Len(sy) = (n + 1) + 1 /\ sy[(n + 1) + 1] = e
      BY <1>1, <1>3
    <2> QED
      BY <1>1, <1>4, <2>1, <2>2
  <1>6. ASSUME NEW j \in 1 .. n + 1
        PROVE  \E u \in Types : Emitting(k, C[j], sy[j], u) /\ Weaker(u, sy[j + 1])
    <2>1. CASE j = n + 1
      <3>1. C[j] = i /\ sy[j] = y /\ sy[j + 1] = e
        <4>1. j + 1 = n + 2
          BY <1>1, <2>1
        <4> QED
          BY <1>2, <1>5, <2>1, <4>1
      <3>2. Weaker(e, e)
        BY WeakerSelf
      <3> QED
        BY <3>1, <3>2
    <2>2. CASE j # n + 1
      <3>1. j \in 1 .. n /\ j + 1 \in 1 .. n + 1
        BY <1>1, <2>2
      <3>2. C[j] = code[j] /\ sy[j] = ty[j] /\ sy[j + 1] = ty[j + 1]
        BY <1>2, <1>4, <3>1
      <3> QED
        BY <1>9, <3>1, <3>2
    <2> QED
      BY <2>1, <2>2
  <1>7. TypedCode(C, sy, k, e)
    <2>1. Len(sy) = (n + 1) + 1
      BY <1>1, <1>5
    <2> QED
      BY <1>2, <1>3, <1>5, <1>6, <2>1 DEF TypedCode
  <1>8. Later(ty, sy)
    <2>1. Len(ty) = n + 1 /\ \A j \in 1 .. Len(ty) : j \in 1 .. Len(sy)
      BY <1>1, <1>5
    <2> QED
      BY <1>4, <2>1 DEF Later
  <1> QED
    BY <1>7, <1>8 DEF C

\* Less is known of the instruction to come.
LEMMA TypedLess ==
    ASSUME NEW code, code \in Seq(Instr), NEW ty, NEW k, NEW y, TypedCode(code, ty, k, y),
           NEW x \in Types, Weaker(y, x)
    PROVE  \E sy : TypedCode(code, sy, k, x) /\ Later(ty, sy) /\ sy[Len(code) + 1] = x /\ Len(sy) = Len(code) + 1
  <1> DEFINE n == Len(code)
             m == n + 1
             sy == [j \in 1 .. m |-> IF j = m THEN x ELSE ty[j]]
  <1>1. /\ n \in Nat /\ Len(ty) = m /\ ty[m] = y /\ ty[1] = Main
        /\ \A j \in 1 .. m : ty[j] \in Types
    BY LastType DEF TypedCode
  <1>9. \A j \in 1 .. n : \E u \in Types : Emitting(k, code[j], ty[j], u) /\ Weaker(u, ty[j + 1])
    BY DEF TypedCode
  <1>2. m \in Nat \ {0} /\ m - 1 = n /\ 1 \in 1 .. m /\ m \in 1 .. m
    BY <1>1
  <1>8. n + 1 = m
    OBVIOUS
  <1> HIDE DEF n, m
  <1>3. sy \in Seq(Types) /\ Len(sy) = m /\ \A j \in 1 .. m : sy[j] = IF j = m THEN x ELSE ty[j]
    <2>1. sy \in [1 .. m -> Types]
      BY <1>1
    <2> QED
      BY <1>2, <2>1
  <1> HIDE DEF sy
  <1>4. sy[m] = x
    BY <1>2, <1>3
  <1>5. sy[1] = Main
    <2>1. CASE m = 1
      <3>1. y = Main
        BY <1>1, <2>1
      <3> QED
        BY <1>4, <2>1, <3>1 DEF Weaker
    <2>2. CASE m # 1
      BY <1>1, <1>2, <1>3, <2>2
    <2> QED
      BY <2>1, <2>2
  <1>6. ASSUME NEW j \in 1 .. n
        PROVE  \E u \in Types : Emitting(k, code[j], sy[j], u) /\ Weaker(u, sy[j + 1])
    <2>1. j \in 1 .. m /\ j # m /\ j + 1 \in 1 .. m
      BY <1>1, <1>8
    <2>2. sy[j] = ty[j]
      BY <1>3, <2>1
    <2>3. PICK u \in Types : Emitting(k, code[j], ty[j], u) /\ Weaker(u, ty[j + 1])
      BY <1>9
    <2>4. Weaker(u, sy[j + 1])
      <3>1. CASE j + 1 = m
        <4>1. Weaker(u, y)
          BY <1>1, <2>3, <3>1
        <4>2. Weaker(u, x)
          BY <4>1, WeakerOn
        <4> QED
          BY <1>4, <3>1, <4>2
      <3>2. CASE j + 1 # m
        BY <1>3, <2>1, <2>3, <3>2
      <3> QED
        BY <3>1, <3>2
    <2> QED
      BY <2>2, <2>3, <2>4
  <1>7. TypedCode(code, sy, k, x)
    BY <1>3, <1>4, <1>5, <1>6, <1>8 DEF TypedCode, n
  <1>10. Later(ty, sy)
    <2> SUFFICES ASSUME NEW j \in 1 .. m
                 PROVE  j \in 1 .. Len(sy) /\ \A a : a.at = "rest" /\ Weaker(a, ty[j]) => Weaker(a, sy[j])
      BY <1>1 DEF Later
    <2>1. CASE j = m
      BY <1>1, <1>3, <1>4, <2>1, WeakerOn
    <2>2. CASE j # m
      BY <1>3, <2>2
    <2> QED
      BY <2>1, <2>2
  <1> QED
    BY <1>3, <1>4, <1>7, <1>8, <1>10 DEF n

\* A step of the second pass, where the code is typed.
InSecond(k, z, v, ty) ==
    /\ TypeInv /\ TypeInv' /\ OnPath /\ pass_index = PASS_INDEX_TO_WRITE
    /\ Here(k, z, v) /\ StackAt(k, z, ty)

LEMMA SecondFields ==
    ASSUME NEW k, NEW z, NEW v, NEW ty, InSecond(k, z, v, ty)
    PROVE  /\ Next /\ status = "running" /\ todo # << >> /\ ~start_new_pass /\ z \in Points /\ v \in Points
           /\ Rule(k, Head(todo), z, v) /\ Head(todo) \in Tasks /\ Numbered(k, cur_label_index)
           /\ ir_code \in Seq(Instr) /\ args_counters \in Seq(Nat) /\ TypedCode(ir_code, ty, k, z.type)
           /\ UNCHANGED transl /\ pass_index # PASS_INDEX_TO_CALC_OFFSETS
  <1>1. Next /\ status = "running" /\ ~start_new_pass /\ pass_index # PASS_INDEX_TO_CALC_OFFSETS
    BY DEF InSecond, OnPath, PASS_INDEX_TO_CALC_OFFSETS, PASS_INDEX_TO_WRITE
  <1>2. UNCHANGED transl
    BY <1>1, TranslStep DEF vars, transl, register_numeric_label, register_function_label
  <1>3. /\ todo # << >> /\ z \in Points /\ v \in Points /\ Rule(k, Head(todo), z, v) /\ Head(todo) \in Tasks
    BY HereFields DEF InSecond
  <1> QED
    BY <1>1, <1>2, <1>3 DEF InSecond, StackAt, Ahead, TypeInv, TypeOK

\* The first task is done.
LEMMA AheadNext ==
    ASSUME NEW k, NEW z, NEW v, Here(k, z, v), Continue(<< >>), v.counts \in {z.counts, << >>},
           UNCHANGED << transl, cur_label_index, args_counters >>
    PROVE  Ahead(k, v)'
  <1>1. Tail(todo) \in Seq(Tasks) /\ todo' = << >> \o Tail(todo)
    BY HereFields DEF Continue
  <1>2. todo' = Tail(todo)
    BY <1>1
  <1>3. \E r \in Seq(Nat) : args_counters' = v.counts \o r
    <2>1. PICK r \in Seq(Nat) : args_counters = z.counts \o r
      BY DEF Here, Ahead
    <2>2. args_counters \in Seq(Nat)
      BY DEF Here, TypeInv, TypeOK
    <2>3. args_counters = << >> \o args_counters
      BY <2>2
    <2> QED
      BY <2>1, <2>2, <2>3
  <1>4. Leads(k, todo', v, End) /\ v \in Points
    BY <1>2 DEF Here
  <1>5. k.labels = indexed_label_transl' /\ k.funcs = func_label_transl' /\ Numbered(k, cur_label_index')
    BY DEF Here, Ahead, transl
  <1> QED
    BY <1>3, <1>4, <1>5 DEF Ahead, Here

LEMMA NotNodes ==
    ASSUME NEW k, NEW t, t.do \in Emitters, NEW z, NEW v, Rule(k, t, z, v)
    PROVE  /\ t.do = "emit" => EmitRule(k, t, z, v)
           /\ t.do = "numeric_label" => LabelRule(k, t, z, v)
           /\ t.do = "function_label" => z = Point(Entry, << >>) /\ v = z
           /\ t.do = "get_var_code" => /\ z.type.at = "operand" /\ Above(z.type, 0)
                                       /\ v = Point(By(z.type, 0, "rest", 0), z.counts)
  <1>1. ~MainTask(k, t) /\ \A h, c, j, d : ~FuncTask(k, t, h, c, j, d)
    BY DEF MainTask, FuncTask, Emitters
  <1>2. ~NodeRule(k, t, z, v)
    BY <1>1 DEF NodeRule
  <1> QED
    BY <1>2 DEF Rule, Emitters

LEMMA EmitStack ==
    ASSUME NEW k, NEW z, NEW v, NEW ty, InSecond(k, z, v, ty), Head(todo).do = "emit"
    PROVE  StackInv'
  <1>1. /\ Next /\ status = "running" /\ todo # << >> /\ z \in Points /\ v \in Points
        /\ Rule(k, Head(todo), z, v) /\ Head(todo) \in Tasks
        /\ ir_code \in Seq(Instr) /\ TypedCode(ir_code, ty, k, z.type)
        /\ UNCHANGED transl /\ pass_index # PASS_INDEX_TO_CALC_OFFSETS
    BY SecondFields
  <1>2. emit_instruction
    BY <1>1, EmitDrops DEF At_
  <1> DEFINE i == Head(todo).ins
  <1>3. i \in Instr
    BY <1>1, TaskFields
  <1>4. EmitRule(k, Head(todo), z, v)
    BY <1>1, NotNodes DEF Emitters
  <1>5. Emitting(k, i, z.type, v.type) /\ v.counts = z.counts /\ v.type \in Types
    BY <1>1, <1>4 DEF EmitRule, Points
  <1>6. ir_code' = Append(ir_code, i)
    BY <1>1, <1>2 DEF emit_instruction, code_insert
  <1> HIDE DEF i
  <1>7. PICK sy : TypedCode(Append(ir_code, i), sy, k, v.type) /\ Later(ty, sy)
    BY <1>1, <1>3, <1>5, TypedMore
  <1>8. Continue(<< >>) /\ UNCHANGED << transl, cur_label_index, args_counters >>
    BY <1>2 DEF emit_instruction
  <1>9. Ahead(k, v)'
    BY <1>5, <1>8, AheadNext DEF InSecond
  <1>10. HeadPlaced(k, sy)
    BY DEF HeadPlaced
  <1>11. Expands(<< >>, 0)
    BY <1>2, NothingStep DEF InSecond
  <1>12. TypedCode(ir_code', sy, k, v.type)
    BY <1>6, <1>7
  <1> QED
    BY <1>1, <1>7, <1>9, <1>10, <1>11, <1>12, ExtendsSelf, StackOn DEF InSecond

LEMMA PlacedHere ==
    ASSUME NEW n \in Nat, NEW sy, Len(sy) = n + 1, NEW x, Weaker(x, sy[n + 1]) PROVE PlacedAt(sy, n, x)
  <1>1. n + 1 \in 1 .. n + 1
    OBVIOUS
  <1> QED
    BY <1>1 DEF PlacedAt

LEMMA LabelStack ==
    ASSUME NEW k, NEW z, NEW v, NEW ty, InSecond(k, z, v, ty), Head(todo).do = "numeric_label", LabelsAgree
    PROVE  StackInv'
  <1>1. /\ Next /\ status = "running" /\ todo # << >> /\ z \in Points /\ v \in Points /\ ~start_new_pass
        /\ Rule(k, Head(todo), z, v) /\ Head(todo) \in Tasks
        /\ ir_code \in Seq(Instr) /\ TypedCode(ir_code, ty, k, z.type) /\ UNCHANGED transl
    BY SecondFields
  <1>2. register_numeric_label
    BY <1>1, TranslStep DEF At_, register_function_label
  <1>3. LabelRule(k, Head(todo), z, v)
    BY <1>1, NotNodes DEF Emitters
  <1>4. Weaker(z.type, v.type) /\ v.counts \in {z.counts, << >>} /\ v.type \in Types
    BY <1>1, <1>3, WeakerSelf DEF LabelRule, Points, Point, Weaker
  <1>5. ir_code' = ir_code /\ Continue(<< >>) /\ UNCHANGED << transl, cur_label_index, args_counters >>
    BY <1>1, <1>2 DEF register_numeric_label, output
  <1> DEFINE n == Len(ir_code)
  <1>6. PICK sy : /\ TypedCode(ir_code, sy, k, v.type) /\ Later(ty, sy)
                  /\ sy[n + 1] = v.type /\ Len(sy) = n + 1
    BY <1>1, <1>4, TypedLess
  <1>7. Ahead(k, v)'
    BY <1>4, <1>5, AheadNext DEF InSecond
  <1>8. HeadPlaced(k, sy)
    <2>1. Target(Head(todo).num) = n /\ n \in Nat
      BY <1>1 DEF LabelsAgree, InSecond
    <2>2. Weaker(k.lab[Head(todo).num], sy[n + 1])
      BY <1>3, <1>6 DEF LabelRule
    <2> HIDE DEF n
    <2>3. PlacedAt(sy, n, k.lab[Head(todo).num])
      BY <1>6, <2>1, <2>2, PlacedHere
    <2> QED
      BY <2>1, <2>3 DEF HeadPlaced
  <1>9. Expands(<< >>, 0)
    BY <1>2, NothingStep DEF InSecond
  <1>10. TypedCode(ir_code', sy, k, v.type)
    BY <1>5, <1>6
  <1> QED
    BY <1>1, <1>6, <1>7, <1>8, <1>9, <1>10, ExtendsSelf, StackOn DEF InSecond

LEMMA FunctionStack ==
    ASSUME NEW k, NEW z, NEW v, NEW ty, InSecond(k, z, v, ty), Head(todo).do = "function_label", LabelsAgree
    PROVE  StackInv'
  <1>1. /\ Next /\ status = "running" /\ todo # << >> /\ z \in Points /\ v \in Points /\ ~start_new_pass
        /\ Rule(k, Head(todo), z, v) /\ Head(todo) \in Tasks
        /\ ir_code \in Seq(Instr) /\ TypedCode(ir_code, ty, k, z.type) /\ UNCHANGED transl
    BY SecondFields
  <1>2. register_function_label
    BY <1>1, TranslStep DEF At_, register_numeric_label
  <1>3. z = Point(Entry, << >>) /\ v = z
    BY <1>1, NotNodes DEF Emitters
  <1>4. z.type = Entry /\ v.counts = z.counts /\ v.type = z.type
    BY <1>3 DEF Point
  <1>5. ir_code' = ir_code /\ Continue(<< >>) /\ UNCHANGED << transl, cur_label_index, args_counters >>
    BY <1>1, <1>2 DEF register_function_label, output
  <1> DEFINE n == Len(ir_code)
  <1>6. n \in Nat /\ Len(ty) = n + 1 /\ ty[n + 1] = Entry
    BY <1>1, <1>4, LastType
  <1>7. Ahead(k, v)'
    BY <1>4, <1>5, AheadNext DEF InSecond
  <1>8. HeadPlaced(k, ty)
    <2>1. addr_transl_translate(func_label_transl, Head(todo).num) = n
      BY <1>1 DEF LabelsAgree, InSecond
    <2> HIDE DEF n
    <2>2. PlacedAt(ty, n, Entry)
      BY <1>6, WeakerSelf, PlacedHere
    <2> QED
      BY <2>1, <2>2 DEF HeadPlaced
  <1>9. Expands(<< >>, 0)
    BY <1>2, NothingStep DEF InSecond
  <1>10. TypedCode(ir_code', ty, k, v.type)
    BY <1>1, <1>4, <1>5
  <1> QED
    BY <1>1, <1>7, <1>8, <1>9, <1>10, ExtendsSelf, LaterSelf, StackOn DEF InSecond

LEMMA StackUnmoved == ASSUME UNCHANGED vars, StackInv PROVE StackInv'
  <1>1. \A a, b : Match(a, b) => Match(a, b)'
    BY DEF vars, scopes, output, Match, Emitted
  <1>2. \A f : Comes(f) => Comes(f)'
    BY <1>1 DEF Comes
  <1>3. \A l : Target(l)' = Target(l)
    BY DEF vars, transl, Target
  <1>4. ASSUME NEW k, NEW z, NEW ty, StackAt(k, z, ty) PROVE StackAt(k, z, ty)'
    <2>1. Ahead(k, z)'
      BY <1>4 DEF StackAt, Ahead, vars, transl
    <2>2. LabelsPlaced(k, ty)'
      BY <1>3, <1>4 DEF StackAt, LabelsPlaced, vars
    <2>3. FunctionsPlaced(ty)'
      BY <1>2, <1>4 DEF StackAt, FunctionsPlaced, vars, transl
    <2> QED
      BY <1>4, <2>1, <2>2, <2>3 DEF StackAt, vars, output
  <1>5. CASE status' = "running" /\ pass_index' = PASS_INDEX_TO_WRITE
    <2>1. PICK k, z, ty : StackAt(k, z, ty)
      BY <1>5 DEF StackInv, vars
    <2> QED
      BY <1>4, <2>1 DEF StackInv
  <1> QED
    BY <1>5 DEF StackInv

\* The steps that emit nothing leave the types as they are.
LEMMA HandlerStack ==
    ASSUME NEW k, NEW z, NEW v, NEW ty, InSecond(k, z, v, ty), Head(todo).do \notin Emitters
    PROVE  StackInv'
  <1>1. /\ Next /\ status = "running" /\ todo # << >> /\ z \in Points /\ v \in Points /\ ~start_new_pass
        /\ ir_code \in Seq(Instr) /\ TypedCode(ir_code, ty, k, z.type) /\ UNCHANGED transl
    BY SecondFields
  <1>2. status' = "running" /\ ~(get_var_code /\ Undeclared)
    BY DEF InSecond, OnPath
  <1>3. Advances(k, z)
    BY <1>1, <1>2, HandlersAdvance DEF InSecond
  <1>4. PICK l, x : Extends(k, l) /\ Ahead(l, x)' /\ x.type = z.type
    BY <1>3 DEF Advances
  <1>5. ir_code' = ir_code
    BY <1>1, CodeStep DEF emit_instruction, get_var_code, At_, Emitters
  <1>6. UNCHANGED vars \/ \E L, j : Expands(L, j)
    BY <1>1, <1>2, Steps DEF Aborts, InSecond
  <1>7. HeadPlaced(k, ty)
    BY DEF HeadPlaced, Emitters
  <1>8. TypedCode(ir_code', ty, l, x.type)
    BY <1>1, <1>4, <1>5, TypesOn
  <1>9. CASE UNCHANGED vars
    BY <1>9, StackUnmoved DEF InSecond, StackInv
  <1>10. ASSUME NEW L, NEW j, Expands(L, j) PROVE StackInv'
    BY <1>1, <1>4, <1>7, <1>8, <1>10, LaterSelf, StackOn DEF InSecond
  <1> QED
    BY <1>6, <1>9, <1>10

-----------------------------------------------------------------------------
(* An operand that is filled in.                                           *)

\* Only a PUSH or a POP without an operand leaves an operand to be filled in.
LEMMA BareEffect ==
    ASSUME NEW i, NEW x, NEW y, Effect(i, x, y), y.at = "operand"
    PROVE  Ordinary(i, x, y) /\ ~HasOperand(i)
  <1>1. \A q : InMain(q).at = q
    BY DEF InMain
  <1>2. \A h, q, n : InFunc(h, q, n).at = q
    BY DEF InFunc
  <1>3. \A e, q, n, h : By(e, h, q, n).at = q
    BY <1>1, <1>2 DEF By
  <1>4. ~ZeroesRdx(i, x, y)
    BY <1>1 DEF ZeroesRdx, Main
  <1>5. ~Moves(i, x, y)
    BY <1>3 DEF Moves
  <1>6. ~PassesOn(i, x, y)
    BY <1>3 DEF PassesOn
  <1>7. ~Returns(i, x, y)
    BY <1>2 DEF Returns
  <1>8. Ordinary(i, x, y)
    BY <1>4, <1>5, <1>6, <1>7 DEF Effect
  <1> QED
    BY <1>3, <1>8 DEF Ordinary

\* By twice.
LEMMA ByBy ==
    ASSUME NEW x \in Types, NEW d \in Int
    PROVE  By(By(x, d, "operand", 0), 0, "rest", 0) = By(x, d, "rest", 0)
  <1>1. x.height \in Nat /\ x.func \in BOOLEAN
    BY DEF Types
  <1>2. (x.height + d) + 0 = x.height + d
    BY <1>1
  <1>3. InFunc(x.height + d, "operand", 0).func = TRUE /\ InFunc(x.height + d, "operand", 0).height = x.height + d
    BY DEF InFunc
  <1>4. InMain("operand").func = FALSE
    BY DEF InMain
  <1>5. CASE x.func
    BY <1>2, <1>3, <1>5 DEF By
  <1>6. CASE ~x.func
    BY <1>4, <1>6 DEF By
  <1> QED
    BY <1>5, <1>6

LEMMA TakenLeft == \A i : Taken(i) \in {0, 1, 2} /\ Left(i) \in {0, 1}
  BY DEF Taken, Left

LEMMA OperandEmitting ==
    ASSUME NEW k, NEW i, NEW o, NEW x \in Types, NEW y, Emitting(k, i, x, y), y.at = "operand",
           i.type \in {"PUSH", "POP"}, o.type = i.type, o.need_imm_arg, o.need_mem_arg
    PROVE  Emitting(k, o, x, By(y, 0, "rest", 0))
  <1>1. i.type \notin NoNext /\ i.type \notin {"JMP"} \cup Jumps /\ i.type # "CALL" /\ i.type # "RET"
    BY DEF NoNext, Jumps
  <1>2. Effect(i, x, y)
    BY <1>1 DEF Emitting
  <1>3. Ordinary(i, x, y) /\ ~HasOperand(i)
    BY <1>2, BareEffect
  <1> DEFINE d == Left(i) - Taken(i)
  <1>4. d \in Int
    BY TakenLeft
  <1>5. Taken(o) = Taken(i) /\ Left(o) = Left(i) /\ HasOperand(o) /\ ~IntoRdx(o)
    BY DEF Taken, Left, HasOperand, IntoRdx
  <1>6. Left(o) - Taken(o) = d
    BY <1>5
  <1>7. x.at = "rest" /\ Above(x, Taken(o)) /\ y = By(x, d, "operand", 0)
    BY <1>3, <1>5 DEF Ordinary
  <1> HIDE DEF d
  <1>8. By(y, 0, "rest", 0) = By(x, d, "rest", 0)
    BY <1>4, <1>7, ByBy
  <1>9. Ordinary(o, x, By(y, 0, "rest", 0))
    BY <1>5, <1>6, <1>7, <1>8 DEF Ordinary
  <1> QED
    BY <1>1, <1>9 DEF Emitting, Effect

\* The last instruction of the code gets its operand.
LEMMA TypedOperand ==
    ASSUME NEW code, code \in Seq(Instr), NEW ty, NEW k, NEW y, TypedCode(code, ty, k, y), y.at = "operand",
           NEW o, NEW C, C \in Seq(Instr), Len(C) = Len(code), Len(code) # 0, C[Len(code)] = o,
           \A j \in 1 .. Len(code) - 1 : C[j] = code[j],
           code[Len(code)].type \in {"PUSH", "POP"}, o.type = code[Len(code)].type,
           o.need_imm_arg, o.need_mem_arg, By(y, 0, "rest", 0) \in Types
    PROVE  \E sy : TypedCode(C, sy, k, By(y, 0, "rest", 0)) /\ Later(ty, sy)
  <1> DEFINE n == Len(code)
             m == n + 1
             x == By(y, 0, "rest", 0)
             sy == [j \in 1 .. m |-> IF j = m THEN x ELSE ty[j]]
  <1>1. /\ n \in Nat \ {0} /\ Len(ty) = m /\ ty[m] = y /\ ty[1] = Main /\ y \in Types
        /\ \A j \in 1 .. m : ty[j] \in Types
    BY LastType DEF TypedCode
  <1>2. \A j \in 1 .. n : \E u \in Types : Emitting(k, code[j], ty[j], u) /\ Weaker(u, ty[j + 1])
    BY DEF TypedCode
  <1>3. m \in Nat \ {0} /\ m - 1 = n /\ 1 \in 1 .. m /\ m \in 1 .. m /\ m # 1 /\ n \in 1 .. n /\ n \in 1 .. m
        /\ n + 1 = m /\ n # m
    BY <1>1
  <1>4. x \in Types /\ Len(C) = n /\ C[n] = o /\ \A j \in 1 .. n - 1 : C[j] = code[j]
    OBVIOUS
  <1>5. o.type = code[n].type /\ code[n].type \in {"PUSH", "POP"}
    OBVIOUS
  <1> HIDE DEF n, m, x
  <1>6. sy \in Seq(Types) /\ Len(sy) = m /\ \A j \in 1 .. m : sy[j] = IF j = m THEN x ELSE ty[j]
    <2>1. sy \in [1 .. m -> Types]
      BY <1>1, <1>4
    <2> QED
      BY <1>3, <2>1
  <1> HIDE DEF sy
  <1>7. sy[m] = x /\ sy[1] = Main /\ sy[n] = ty[n]
    BY <1>1, <1>3, <1>6
  <1>8. ASSUME NEW j \in 1 .. n
        PROVE  \E u \in Types : Emitting(k, C[j], sy[j], u) /\ Weaker(u, sy[j + 1])
    <2>1. PICK u \in Types : Emitting(k, code[j], ty[j], u) /\ Weaker(u, ty[j + 1])
      BY <1>2
    <2>2. CASE j = n
      <3>1. u = y
        <4>1. Weaker(u, y)
          BY <1>1, <1>3, <2>1, <2>2
        <4> QED
          BY <4>1, RestTypes DEF Weaker
      <3>2. Emitting(k, code[n], ty[n], y) /\ ty[n] \in Types
        BY <1>1, <1>3, <2>1, <2>2, <3>1
      <3>3. Emitting(k, o, ty[n], x)
        BY <1>5, <3>2, OperandEmitting DEF x
      <3>4. Weaker(x, sy[j + 1])
        BY <1>3, <1>7, <2>2, WeakerSelf
      <3>5. C[j] = o /\ sy[j] = ty[n]
        BY <1>4, <1>7, <2>2
      <3> QED
        BY <1>4, <3>3, <3>4, <3>5
    <2>3. CASE j # n
      <3>1. j \in 1 .. n - 1 /\ j \in 1 .. m /\ j + 1 \in 1 .. m /\ j # m /\ j + 1 # m
        BY <1>3, <2>3
      <3>2. C[j] = code[j] /\ sy[j] = ty[j] /\ sy[j + 1] = ty[j + 1]
        BY <1>4, <1>6, <3>1
      <3> QED
        BY <2>1, <3>2
    <2> QED
      BY <2>2, <2>3
  <1>9. TypedCode(C, sy, k, x)
    BY <1>3, <1>4, <1>6, <1>7, <1>8 DEF TypedCode
  <1>10. Later(ty, sy)
    <2> SUFFICES ASSUME NEW j \in 1 .. m
                 PROVE  j \in 1 .. Len(sy) /\ \A a : a.at = "rest" /\ Weaker(a, ty[j]) => Weaker(a, sy[j])
      BY <1>1 DEF Later
    <2>1. CASE j = m
      <3>1. ASSUME NEW a, a.at = "rest", Weaker(a, ty[j]) PROVE FALSE
        <4>1. Weaker(a, y)
          BY <1>1, <2>1, <3>1
        <4> QED
          BY <3>1, <4>1, RestTypes DEF Weaker
      <3> QED
        BY <1>6, <3>1
    <2>2. CASE j # m
      BY <1>6, <2>2
    <2> QED
      BY <2>1, <2>2
  <1> QED
    BY <1>9, <1>10 DEF x

LEMMA OperandMem ==
    ASSUME NEW i \in Instr, NEW q
    PROVE  Operand(i, q).need_imm_arg /\ Operand(i, q).need_mem_arg /\ Operand(i, q).type = i.type
  <1>1. CASE Slots(local_vars, q) # {}
    BY <1>1 DEF Operand, WithMem, WithImm, Plain
  <1>2. CASE Slots(local_vars, q) = {}
    BY <1>2 DEF Operand, WithImm, Plain
  <1> QED
    BY <1>1, <1>2

LEMMA OperandStack ==
    ASSUME NEW k, NEW z, NEW v, NEW ty, InSecond(k, z, v, ty), Head(todo).do = "get_var_code", LookUpInv
    PROVE  StackInv'
  <1>1. /\ Next /\ status = "running" /\ todo # << >> /\ z \in Points /\ v \in Points /\ ~start_new_pass
        /\ Rule(k, Head(todo), z, v) /\ Head(todo) \in Tasks
        /\ ir_code \in Seq(Instr) /\ TypedCode(ir_code, ty, k, z.type) /\ UNCHANGED transl
        /\ pass_index = PASS_INDEX_TO_WRITE
    BY SecondFields DEF InSecond
  <1>2. get_var_code /\ At_("get_var_code") /\ ~Undeclared
    <2>1. get_var_code
      BY <1>1, LookUpsAct DEF At_
    <2> QED
      BY <1>1, <2>1 DEF InSecond, OnPath, At_
  <1>3. z.type.at = "operand" /\ v = Point(By(z.type, 0, "rest", 0), z.counts)
    BY <1>1, NotNodes DEF Emitters
  <1>4. v.type = By(z.type, 0, "rest", 0) /\ v.counts = z.counts /\ v.type \in Types
    <2>1. v.type \in Types
      BY <1>1 DEF Points
    <2> QED
      BY <1>3, <2>1 DEF Point
  <1> DEFINE n == Len(ir_code)
             q == Head(todo).num
             o == Operand(ir_code[n], q)
  <1>5. n \in Nat \ {0} /\ ir_code[n].type \in {"PUSH", "POP"} /\ ir_code[n] \in Instr
    <2>1. Len(ir_code) # 0 /\ ir_code[Len(ir_code)].type \in {"PUSH", "POP"}
      BY <1>1, <1>2 DEF LookUpInv
    <2> QED
      BY <1>1, <2>1
  <1>6. o.need_imm_arg /\ o.need_mem_arg /\ o.type = ir_code[n].type
    BY <1>5, OperandMem
  <1>7. /\ ir_code' = [ir_code EXCEPT ![n] = o] /\ Continue(<< >>)
        /\ UNCHANGED << transl, cur_label_index, args_counters >>
    BY <1>1, <1>2 DEF get_var_code, Undeclared
  <1>8. ir_code' \in Seq(Instr) /\ Len(ir_code') = n
    BY <1>2, LookUpCode DEF InSecond
  <1> HIDE DEF o, n
  <1>9. ir_code'[n] = o /\ \A j \in 1 .. n - 1 : ir_code'[j] = ir_code[j]
    <2>1. DOMAIN ir_code = 1 .. n
      BY <1>1 DEF n
    <2> QED
      BY <1>5, <1>7, <2>1
  <1>10. PICK sy : TypedCode(ir_code', sy, k, v.type) /\ Later(ty, sy)
    <2>1. Len(ir_code) = n
      BY DEF n
    <2> QED
      BY <1>1, <1>3, <1>4, <1>5, <1>6, <1>8, <1>9, <2>1, TypedOperand
  <1>11. Ahead(k, v)'
    BY <1>4, <1>7, AheadNext DEF InSecond
  <1>12. HeadPlaced(k, sy)
    BY DEF HeadPlaced
  <1>13. Expands(<< >>, 0)
    BY <1>2, LookUpStep DEF InSecond
  <1> QED
    BY <1>1, <1>10, <1>11, <1>12, <1>13, ExtendsSelf, StackOn DEF InSecond

-----------------------------------------------------------------------------
(* From one pass to the other.                                             *)

\* Every function that has been registered is on the path of the first pass.
FuncInv ==
    status = "running" /\ pass_index = PASS_INDEX_TO_CALC_OFFSETS =>
        \E tr, n : /\ Path(tr, n) /\ Match(tr[n], 0)
                   /\ \A f : HasOld(func_label_transl, f) =>
                        \E i \in 1 .. n - 1 : IsFunction(Head(tr[i].todo), f)

LEMMA FuncInit == ASSUME Init PROVE FuncInv
  <1>1. Same(PassTasks, todo)
    BY PassList, SameSelf DEF Init
  <1>2. Emitted = 0 /\ Len(global_vars) = 0 + 0
    BY DEF Init, Emitted, PASS_INDEX_TO_CALC_OFFSETS
  <1>3. Match(Start, 0)
    <2> HIDE DEF PassTasks
    <2> QED
      BY <1>1, <1>2, StartFields DEF Init, Match
  <1> DEFINE tr == [i \in 1 .. 1 |-> Start]
  <1>4. tr[1] = Start
    OBVIOUS
  <1> HIDE DEF tr
  <1>5. Path(tr, 1)
    BY <1>4, StartFields DEF Path
  <1>6. \A f : ~HasOld(func_label_transl, f)
    BY DEF Init, addr_transl_new, HasOld
  <1> QED
    BY <1>3, <1>4, <1>5, <1>6 DEF FuncInv

LEMMA FunctionsStep ==
    ASSUME TypeInv, OnPath, ~AllocMayFail, pass_index = PASS_INDEX_TO_CALC_OFFSETS,
           NEW f, HasOld(func_label_transl', f)
    PROVE  HasOld(func_label_transl, f) \/ IsFunction(Head(todo), f)
  <1>1. CASE register_function_label
    BY <1>1, RegisterFunctionStep DEF At_, IsFunction
  <1>2. CASE ~register_function_label
    <2>1. func_label_transl' = func_label_transl
      BY <1>2, TranslStep DEF OnPath, register_numeric_label, transl
    <2> QED
      BY <2>1
  <1> QED
    BY <1>1, <1>2

LEMMA FuncStep ==
    ASSUME TypeInv, WalkInv, FuncInv, NoErrorDropped, ~AllocMayFail, [Next]_vars PROVE FuncInv'
  <1> SUFFICES ASSUME status' = "running", pass_index' = PASS_INDEX_TO_CALC_OFFSETS PROVE FuncInv'
    BY DEF FuncInv
  <1>1. CASE UNCHANGED vars
    <2>1. PICK tr, n : /\ Path(tr, n) /\ Match(tr[n], 0)
                       /\ \A f : HasOld(func_label_transl, f) =>
                             \E i \in 1 .. n - 1 : IsFunction(Head(tr[i].todo), f)
      BY <1>1 DEF FuncInv, vars
    <2>2. Path(tr, n)'
      BY <1>1, <2>1 DEF Path, Start, PassTasks, vars
    <2>3. Match(tr[n], 0)'
      BY <1>1, <2>1 DEF vars, scopes, output, Match, Emitted
    <2> QED
      BY <1>1, <2>1, <2>2, <2>3 DEF FuncInv, vars, transl
  <1>2. CASE Next
    <2>1. status = "running" /\ todo # << >>
      BY <1>2, RunningStep, TasksLeft
    <2>2. ~start_new_pass
      <3>1. start_new_pass => pass_index' = PASS_INDEX_TO_WRITE
        BY NewPass
      <3> QED
        BY <3>1 DEF PASS_INDEX_TO_WRITE, PASS_INDEX_TO_CALC_OFFSETS
    <2>3. pass_index = PASS_INDEX_TO_CALC_OFFSETS /\ tree' = tree
      BY <1>2, <2>2, PassIndexStep
    <2>4. OnPath
      <3>1. ~(get_var_code /\ Undeclared)
        BY Fails
      <3> QED
        BY <1>2, <2>1, <2>2, <3>1 DEF OnPath
    <2>5. PICK tr, n : /\ Path(tr, n) /\ Match(tr[n], 0)
                       /\ \A f : HasOld(func_label_transl, f) =>
                             \E i \in 1 .. n - 1 : IsFunction(Head(tr[i].todo), f)
      BY <2>1, <2>3 DEF FuncInv
    <2>6. /\ Head(tr[n].todo).do = Head(todo).do
          /\ Head(todo).do # "emit" => Head(tr[n].todo) = Head(todo)
      BY <2>1, <2>5, HeadMatch
    <2>7. Head(tr[n].todo).do # "start_new_pass"
      BY <1>2, <2>1, <2>2, <2>6, StartStep DEF At_
    <2>8. PICK h : Path(h, n + 1) /\ h[n + 1] = Succ(tr[n]) /\ \A i \in 1 .. n : h[i] = tr[i]
      BY <2>5, <2>7, PathGrows
    <2>9. Match(h[n + 1], 0)'
      <3>1. Match(Succ(tr[n]), 0)'
        BY <2>4, <2>5, StepMatch DEF OnPath
      <3> QED
        BY <2>8, <3>1
    <2>10. n \in Nat \ {0} /\ (n + 1) - 1 = n /\ n \in 1 .. n /\ \A i \in 1 .. n - 1 : i \in 1 .. n
      BY <2>5 DEF Path
    <2>11. ASSUME NEW f, HasOld(func_label_transl', f)
           PROVE  \E i \in 1 .. n : IsFunction(Head(h[i].todo), f)
      <3>1. CASE HasOld(func_label_transl, f)
        BY <2>5, <2>8, <2>10, <3>1
      <3>2. CASE IsFunction(Head(todo), f)
        <4>1. IsFunction(Head(tr[n].todo), f)
          BY <2>6, <3>2 DEF IsFunction
        <4> QED
          BY <2>8, <2>10, <4>1
      <3> QED
        BY <2>3, <2>4, <2>11, <3>1, <3>2, FunctionsStep
    <2>12. Path(h, n + 1)'
      BY <2>3, <2>8 DEF Path, Start, PassTasks
    <2> QED
      BY <2>9, <2>10, <2>11, <2>12 DEF FuncInv
  <1> QED
    BY <1>1, <1>2

\* The second pass begins.
LEMMA StackBegins ==
    ASSUME TypeInv, WalkInv, OperandInv, FuncInv, start_new_pass, status' = "running", WellFormed(Trees)
    PROVE  StackInv'
  <1>1. /\ pass_index = PASS_INDEX_TO_CALC_OFFSETS /\ cur_label_index' = 0 /\ todo' = PassTasks
        /\ args_counters' = << >> /\ UNCHANGED << transl, ir_code, tree >> /\ status = "running"
    BY NewPass DEF start_new_pass, At_
  <1>2. ir_code' = << >> /\ tree \in Trees
    BY <1>1 DEF OperandInv, TypeInv, TypeOK
  <1>3. PICK g : Grammar(g, Trees)
    BY DEF WellFormed
  <1> DEFINE e == [l \in {} |-> Main]
             ty == << Main >>
  <1>4. PICK k : /\ DOMAIN k.lab = {} /\ k.g = g
                 /\ k.labels = indexed_label_transl' /\ k.funcs = func_label_transl'
    <2>1. DOMAIN e = {}
      OBVIOUS
    <2> HIDE DEF e
    <2> DEFINE w == [g |-> g, lab |-> e, labels |-> indexed_label_transl', funcs |-> func_label_transl']
    <2>2. DOMAIN w.lab = {} /\ w.g = g /\ w.labels = indexed_label_transl' /\ w.funcs = func_label_transl'
      BY <2>1
    <2> QED
      BY <2>2
  <1>5. ty \in Seq(Types) /\ Len(ty) = 1 /\ ty[1] = Main
    BY RestTypes
  <1> HIDE DEF e, ty
  <1>6. Ahead(k, End)'
    <2>1. Leads(k, PassTasks, End, End)
      <3>1. Trees \subseteq k.g.main
        BY <1>3, <1>4 DEF Grammar
      <3> QED
        BY <1>2, <3>1, PassLeads DEF End
    <2>2. Numbered(k, cur_label_index')
      <3>1. 0 .. 0 - 1 = {}
        OBVIOUS
      <3> QED
        BY <1>1, <1>4, <3>1 DEF Numbered
    <2>3. End.counts = << >> /\ End \in Points
      BY EndIs
    <2>4. << >> \in Seq(Nat) /\ << >> = << >> \o << >>
      OBVIOUS
    <2> HIDE DEF PassTasks
    <2>5. \E r \in Seq(Nat) : args_counters' = End.counts \o r
      BY <1>1, <2>3, <2>4
    <2> QED
      BY <1>1, <1>3, <1>4, <2>1, <2>2, <2>3, <2>5 DEF Ahead
  <1>7. TypedCode(ir_code', ty, k, End.type)
    <2>1. Len(<< >>) = 0 /\ 1 .. 0 = {}
      OBVIOUS
    <2>2. Len(ir_code') = 0 /\ 0 + 1 = 1
      BY <1>2, <2>1
    <2> QED
      BY <1>5, <2>1, <2>2, EndIs DEF TypedCode
  <1>8. LabelsPlaced(k, ty)'
    BY <1>4 DEF LabelsPlaced
  <1>9. ASSUME NEW f, HasOld(func_label_transl', f) PROVE Comes(f)'
    <2>1. func_label_transl' = func_label_transl
      BY <1>1 DEF transl
    <2>2. PICK tr, n : /\ Path(tr, n) /\ Match(tr[n], 0)
                       /\ \A q : HasOld(func_label_transl, q) =>
                             \E i \in 1 .. n - 1 : IsFunction(Head(tr[i].todo), q)
      BY <1>1 DEF FuncInv
    <2>3. PICK i \in 1 .. n - 1 : IsFunction(Head(tr[i].todo), f)
      BY <1>9, <2>1, <2>2
    <2>4. /\ n \in Nat \ {0} /\ tr[1] = Start
          /\ \A j \in 1 .. n - 1 : tr[j + 1] = Succ(tr[j]) /\ Head(tr[j].todo).do # "start_new_pass"
      BY <2>2 DEF Path
    <2>5. Match(tr[1], tr[n].globals)'
      <3>1. Match(Start, tr[n].globals)'
        BY <2>2, StartMatch
      <3>2. Start' = Start
        BY <1>1 DEF Start, PassTasks
      <3> QED
        BY <2>4, <3>1, <3>2
    <2>6. i \in Nat \ {0} /\ \A j \in 1 .. i - 1 : j \in 1 .. n - 1
      BY <2>4
    <2> QED
      BY <2>3, <2>4, <2>5, <2>6 DEF Comes
  <1>10. FunctionsPlaced(ty)'
    BY <1>9 DEF FunctionsPlaced
  <1>11. StackAt(k, End, ty)'
    BY <1>6, <1>7, <1>8, <1>10 DEF StackAt
  <1> QED
    BY <1>11 DEF StackInv

-----------------------------------------------------------------------------
(* The code that the compiler is done with.                                *)

\* The code has types: a verifier of byte code would accept it.
Disciplined == \E T : WellTyped(ir_code, T)

LEMMA ComesNoMore ==
    ASSUME TypeInv, At_("start_new_pass"), NEW f PROVE ~Comes(f)
  <1> SUFFICES ASSUME Comes(f) PROVE FALSE
    OBVIOUS
  <1>1. PICK tr, n, b :
           /\ n \in Nat \ {0} /\ Match(tr[1], b)
           /\ \A i \in 1 .. n - 1 : tr[i + 1] = Succ(tr[i]) /\ Head(tr[i].todo).do # "start_new_pass"
           /\ IsFunction(Head(tr[n].todo), f)
    BY DEF Comes
  <1>2. Head(tr[1].todo).do = "start_new_pass"
    BY <1>1, HeadMatch DEF At_
  <1>3. CASE n = 1
    BY <1>1, <1>2, <1>3 DEF IsFunction
  <1>4. CASE n # 1
    <2>1. 1 \in 1 .. n - 1
      BY <1>1, <1>4
    <2> QED
      BY <1>1, <1>2, <2>1
  <1> QED
    BY <1>3, <1>4

LEMMA StackEnds ==
    ASSUME TypeInv, WalkInv, StackInv, pass_index = PASS_INDEX_TO_WRITE, At_("start_new_pass")
    PROVE  Disciplined
  <1>1. status = "running" /\ Len(todo) = 1 /\ Head(todo).do = "start_new_pass" /\ Head(todo) = todo[1]
    BY PassEnds, HeadTask DEF At_
  <1>2. PICK k, z, ty : StackAt(k, z, ty)
    BY <1>1 DEF StackInv
  <1>3. \A l \in DOMAIN k.lab : PlacedAt(ty, Target(l), k.lab[l])
    <2>1. \A i \in 1 .. Len(todo) : todo[i].do # "numeric_label"
      BY <1>1
    <2> QED
      BY <1>2, <2>1 DEF StackAt, LabelsPlaced
  <1>4. \A f : HasOld(func_label_transl, f) => PlacedAt(ty, addr_transl_translate(func_label_transl, f), Entry)
    BY <1>2, ComesNoMore DEF StackAt, FunctionsPlaced
  <1>5. /\ TypedCode(ir_code, ty, k, z.type)
        /\ k.labels = indexed_label_transl /\ k.funcs = func_label_transl
        /\ \A l \in DOMAIN k.lab : k.lab[l] \in Types
    BY <1>2 DEF StackAt, Ahead, Numbered
  <1>6. func_label_transl \in Translators
    BY DEF TypeInv, TypeOK
  <1>7. ASSUME NEW j \in 1 .. Len(ir_code), NEW i, i = ir_code[j]
        PROVE  /\ i.type \notin NoNext => \E y \in Types : Effect(i, ty[j], y) /\ Weaker(y, ty[j + 1])
               /\ i.type = "RET" => ty[j] = InFunc(2, "return", 0)
               /\ i.type \in {"JMP"} \cup Jumps => ty[j].at = "rest"
               /\ i.type \in {"JMP"} \cup Jumps /\ Inside(ir_code, i.imm_arg) =>
                     Weaker(AtTarget(i, ty[j]), ty[i.imm_arg + 1])
               /\ i.type = "CALL" /\ Inside(ir_code, i.imm_arg) => Weaker(Entry, ty[i.imm_arg + 1])
    <2>1. PICK e \in Types : Emitting(k, i, ty[j], e) /\ Weaker(e, ty[j + 1])
      BY <1>5, <1>7 DEF TypedCode
    <2>2. i.type \notin NoNext => \E y \in Types : Effect(i, ty[j], y) /\ Weaker(y, ty[j + 1])
      BY <2>1 DEF Emitting
    <2>3. i.type = "RET" => ty[j] = InFunc(2, "return", 0)
      BY <2>1 DEF Emitting
    <2>4. i.type \in {"JMP"} \cup Jumps =>
             ty[j].at = "rest" /\ Weaker(AtTarget(i, ty[j]), ty[i.imm_arg + 1])
      <3> SUFFICES ASSUME i.type \in {"JMP"} \cup Jumps
                   PROVE  ty[j].at = "rest" /\ Weaker(AtTarget(i, ty[j]), ty[i.imm_arg + 1])
        OBVIOUS
      <3>1. ty[j].at = "rest"
        BY <2>1 DEF Emitting
      <3>2. PICK l \in DOMAIN k.lab : /\ i.imm_arg = addr_transl_translate(k.labels, l)
                                      /\ Weaker(AtTarget(i, ty[j]), k.lab[l])
        BY <2>1 DEF Emitting
      <3>3. Target(l) = i.imm_arg
        BY <1>5, <3>2 DEF Target
      <3>4. Weaker(k.lab[l], ty[i.imm_arg + 1])
        BY <1>3, <3>3 DEF PlacedAt
      <3> QED
        BY <3>1, <3>2, <3>4, WeakerOn
    <2>5. i.type = "CALL" /\ Inside(ir_code, i.imm_arg) => Weaker(Entry, ty[i.imm_arg + 1])
      <3> SUFFICES ASSUME i.type = "CALL", Inside(ir_code, i.imm_arg)
                   PROVE  Weaker(Entry, ty[i.imm_arg + 1])
        OBVIOUS
      <3>1. PICK f : i.imm_arg = addr_transl_translate(func_label_transl, f)
        BY <1>5, <2>1 DEF Emitting
      <3>2. i.imm_arg # ERROR
        BY DEF Inside, ERROR
      <3>3. HasOld(func_label_transl, f)
        BY <1>6, <3>1, <3>2, TranslateFinds
      <3> QED
        BY <1>4, <3>1, <3>3 DEF PlacedAt
    <2> QED
      BY <2>2, <2>3, <2>4, <2>5
  <1>8. WellTyped(ir_code, ty)
    BY <1>5, <1>7 DEF WellTyped, TypedCode
  <1> QED
    BY <1>8 DEF Disciplined

-----------------------------------------------------------------------------
(* The invariant of the compiler.                                          *)

LEMMA StackStep ==
    ASSUME TypeInv, TypeInv', WalkInv, OperandInv, LookUpInv, LabelsAgree, FuncInv, StackInv, NoErrorDropped,
           WellFormed(Trees), Next
    PROVE  StackInv'
  <1> SUFFICES ASSUME status' = "running", pass_index' = PASS_INDEX_TO_WRITE PROVE StackInv'
    BY DEF StackInv
  <1>1. status = "running" /\ todo # << >>
    BY RunningStep, TasksLeft
  <1>2. CASE start_new_pass
    BY <1>2, StackBegins
  <1>3. CASE ~start_new_pass
    <2>1. pass_index = PASS_INDEX_TO_WRITE
      BY <1>3, PassIndexStep
    <2>2. OnPath
      <3>1. ~(get_var_code /\ Undeclared)
        BY Fails
      <3> QED
        BY <1>1, <1>3, <3>1 DEF OnPath
    <2>3. PICK k, z, ty : StackAt(k, z, ty)
      BY <1>1, <2>1 DEF StackInv
    <2>4. PICK v \in Points : Rule(k, Head(todo), z, v) /\ Leads(k, Tail(todo), v, End)
      <3>1. Leads(k, todo, z, End) /\ todo \in Seq(Tasks)
        BY <2>3 DEF StackAt, Ahead, TypeInv, TypeOK
      <3> QED
        BY <1>1, <3>1, LeadsApart
    <2>5. Here(k, z, v)
      BY <1>1, <2>3, <2>4 DEF Here, StackAt
    <2>6. InSecond(k, z, v, ty)
      BY <2>1, <2>2, <2>3, <2>5 DEF InSecond
    <2>7. Head(todo).do # "start_new_pass"
      BY <1>1, <1>3, StartStep DEF At_
    <2> QED
      BY <2>6, <2>7, EmitStack, LabelStack, FunctionStack, OperandStack, HandlerStack DEF Emitters
  <1> QED
    BY <1>2, <1>3

LEMMA EndStep ==
    ASSUME TypeInv, WalkInv, StackInv, [Next]_vars, status = "OK" => Disciplined
    PROVE  (status = "OK" => Disciplined)'
  <1> SUFFICES ASSUME status' = "OK" PROVE Disciplined'
    OBVIOUS
  <1>1. CASE status = "OK"
    <2>1. ir_code' = ir_code
      <3>1. CASE UNCHANGED vars
        BY <3>1 DEF vars, output
      <3>2. CASE Next
        BY <1>1, <3>1, <3>2, Steps DEF Aborts, output, start_new_pass, get_var_code, At_, Expands
      <3> QED
        BY <3>1, <3>2
    <2> QED
      BY <1>1, <2>1 DEF Disciplined
  <1>2. CASE status # "OK"
    <2>1. start_new_pass
      <3>1. ~(UNCHANGED vars)
        BY <1>2 DEF vars
      <3>2. get_var_code /\ Undeclared => status' \in {status, "ERROR"}
        BY DEF get_var_code, Undeclared, Unwind
      <3> QED
        BY <1>2, <3>1, <3>2, Steps DEF Aborts, Expands
    <2>2. At_("start_new_pass") /\ ir_code' = ir_code /\ pass_index = PASS_INDEX_TO_WRITE
      BY <2>1 DEF start_new_pass, At_, TypeInv, TypeOK, TOTAL_PASS_COUNT, PASS_INDEX_TO_WRITE,
                  PASS_INDEX_TO_CALC_OFFSETS
    <2>3. Disciplined
      BY <2>2, StackEnds
    <2> QED
      BY <2>2, <2>3 DEF Disciplined
  <1> QED
    BY <1>1, <1>2

CodeInv == /\ TypeInv /\ WalkInv /\ OperandInv /\ LabelInv /\ LookUpInv /\ PassInv("labels")
           /\ FuncInv /\ StackInv
           /\ status = "OK" => Disciplined

LEMMA CodeInit == ASSUME Init PROVE CodeInv
  <1>1. Facts(Start, 0, "labels")
    BY DEF Facts
  <1>2. StackInv
    BY DEF Init, StackInv, PASS_INDEX_TO_WRITE
  <1>3. status # "OK"
    BY DEF Init
  <1> QED
    BY <1>1, <1>2, <1>3, TypeInit, WalkInit, OperandInit, LabelInit, LookUpInit, PassInit, FuncInit DEF CodeInv

LEMMA CodeKept ==
    ASSUME ~AllocMayFail, WellFormed(Trees), CodeInv, NoErrorDropped, FunctionsOnce, [Next]_vars
    PROVE  CodeInv'
  <1>0. TypeInv /\ WalkInv /\ OperandInv /\ LabelInv /\ LookUpInv /\ PassInv("labels") /\ FuncInv /\ StackInv
    BY DEF CodeInv
  <1>1. TypeInv' /\ WalkInv' /\ OperandInv' /\ LabelInv' /\ LookUpInv'
    BY <1>0, TypeStep, WalkStep, OperandStep, LabelStep1, LookUpKept
  <1>2. PassInv("labels")'
    BY <1>0, LabelsStep, Unmoved
  <1>3. FuncInv'
    BY <1>0, FuncStep
  <1>4. StackInv'
    <2>1. LabelsAgree
      BY <1>0, LabelsKnown
    <2> QED
      BY <1>0, <1>1, <2>1, StackStep, StackUnmoved
  <1>5. (status = "OK" => Disciplined)'
    BY <1>0, EndStep DEF CodeInv
  <1> QED
    BY <1>1, <1>2, <1>3, <1>4, <1>5 DEF CodeInv

\* The code of every tree that obeys the grammar has types, whatever its
\* statements nest in what: each path to an instruction agrees on what lies on
\* the stack of the function, and RET finds the return address on the top.
THEOREM CodeTyped ==
    ~AllocMayFail /\ WellFormed(Trees) /\ Spec /\ []NoErrorDropped /\ []FunctionsOnce
       => [](status = "OK" => Disciplined)
  <1> SUFFICES ASSUME ~AllocMayFail, WellFormed(Trees)
               PROVE  Spec /\ []NoErrorDropped /\ []FunctionsOnce => [](status = "OK" => Disciplined)
    OBVIOUS
  <1>1. Init => CodeInv
    BY CodeInit
  <1>2. CodeInv /\ NoErrorDropped /\ FunctionsOnce /\ [Next]_vars => CodeInv'
    BY CodeKept
  <1>3. CodeInv => (status = "OK" => Disciplined)
    BY DEF CodeInv
  <1> QED
    BY <1>1, <1>2, <1>3, PTL DEF Spec
=============================================================================
