------------------------- MODULE AstConverterProofs -------------------------
(***************************************************************************)
(* Theorems about AstConverter: first what needs one state at a time (the  *)
(* types, for every set of trees, and what a step does to the work list),  *)
(* then what needs both passes at once.                                    *)
(***************************************************************************)
EXTENDS AstConverter, AddrTranslProofs

\* What a handler relies on: UNWRAP_ERROR apart, it dereferences its node.
TaskOK(t) ==
    /\ t \in Tasks
    /\ t.do = "if" => t.node \in Nodes
    /\ t.do = "emit_assig" => t.node \in Nodes /\ t.node.type = "VAR"
    /\ t.do = "call" => t.node \in Nodes /\ t.node.type = "FUNC_CALL"
    /\ t.do = "numeric_label" => t.num \in Nat

\* A PUSH or a POP has its operand.
Filled(i) == i.type \in {"PUSH", "POP"} => i.need_imm_arg \/ i.need_reg_arg

\* An instruction that waits for get_var_code to fill in its operand.
Waits(t) == t.do = "emit" /\ ~Filled(t.ins)

\* What a list ends: labels, and, with the number -1, the definition of a function.
Ends     == {"numeric_label", "leave_func"}
EndOf(t) == IF t.do = "leave_func" THEN -1 ELSE t.num

\* A task that ends nothing, looks up no variable and leads nowhere.
Inert == {t \in Tasks : /\ TaskOK(t)
                        /\ t.do \notin Ends \cup {"get_var_code", "call", "start_new_pass"}
                        /\ t.do = "emit" => Filled(t.ins) /\ ~IsTransfer(t.ins)}

\* The tasks of a handler: they end what is in S, each once, jump and call to
\* what is in J, and have a variable looked up right behind the PUSH or POP that
\* it is for.
GoodList(L, S, J) ==
    /\ L \in Seq(Tasks)
    /\ \A i \in 1 .. Len(L) : TaskOK(L[i]) /\ L[i].do # "start_new_pass"
    /\ \A i \in 1 .. Len(L) : L[i].do \in Ends => EndOf(L[i]) \in S
    /\ \A i, j \in 1 .. Len(L) :
          L[i].do \in Ends /\ L[j].do \in Ends /\ EndOf(L[i]) = EndOf(L[j]) => i = j
    /\ \A e \in S : \E i \in 1 .. Len(L) : L[i].do \in Ends /\ EndOf(L[i]) = e
    /\ \A i \in 1 .. Len(L) : L[i].do = "emit" /\ IsTransfer(L[i].ins) => L[i].ins.imm_arg \in J
    /\ \A i \in 1 .. Len(L) :
          Waits(L[i]) => i + 1 \in 1 .. Len(L) /\ L[i + 1].do = "get_var_code"
    /\ \A i \in 1 .. Len(L) :
          L[i].do = "get_var_code" => i - 1 \in 1 .. Len(L) /\ Waits(L[i - 1])

\* There are k calls in a list: d counts those from each place on.
Counts(L, d) ==
    /\ d \in [1 .. Len(L) + 1 -> Nat] /\ d[Len(L) + 1] = 0
    /\ \A i \in 1 .. Len(L) : d[i] = d[i + 1] + (IF L[i].do = "call" THEN 1 ELSE 0)
Falls(d, n)   == \A i, j \in 1 .. n : i <= j => d[j] <= d[i]
CallsIn(L, k) == \E d : Counts(L, d) /\ Falls(d, Len(L) + 1) /\ d[1] = k

\* The conversion of a node whose result is used, or not.
Used(n)   == Convert(n, TRUE)
Unused(n) == Convert(n, FALSE)

\* Tasks that a handler puts in its place.
Makes(L, S, J, k) == GoodList(L, S, J) /\ CallsIn(L, k)
-----------------------------------------------------------------------------
(* Nodes, instructions and tasks.                                          *)

LEMMA NodeFacts ==
    ASSUME NEW n \in Nodes
    PROVE  /\ n # nullptr /\ n \in MaybeNodes
           /\ n.type \in NodeTypes
           /\ n.left \in MaybeNodes /\ n.right \in MaybeNodes
           /\ n.type # "OP" => n.data \in Int
           /\ n.type = "OP" => n.data \in OpNames
           /\ n.type = "OP" /\ n.data = "ASSIG" => n.left \in Nodes /\ n.left.type = "VAR"
           /\ n.type = "IF" => n.right \in Nodes
  BY NodesAssumption DEF MaybeNodes

LEMMA InstrFacts ==
    /\ \A t \in InstrTypes : Plain(t) \in Instr /\ (t \notin {"PUSH", "POP"} => Filled(Plain(t)))
    /\ \A t \in InstrTypes, v \in Int : WithImm(t, v) \in Instr /\ Filled(WithImm(t, v))
    /\ \A t \in InstrTypes, r \in 0 .. 3 : WithReg(t, r) \in Instr /\ Filled(WithReg(t, r))
    /\ \A t \in InstrTypes, r \in 0 .. 3, v \in Int :
          WithMem(t, r, v) \in Instr /\ Filled(WithMem(t, r, v))
    /\ ~Filled(Plain("PUSH")) /\ ~Filled(Plain("POP"))
  <1>1. /\ \A t \in InstrTypes : Plain(t) \in Instr /\ (t \notin {"PUSH", "POP"} => Filled(Plain(t)))
        /\ ~Filled(Plain("PUSH")) /\ ~Filled(Plain("POP"))
    BY DEF Plain, Instr, Filled
  <1>2. \A t \in InstrTypes, v \in Int : WithImm(t, v) \in Instr /\ Filled(WithImm(t, v))
    <2> TAKE t \in InstrTypes, v \in Int
    <2> DEFINE p == Plain(t)
    <2>1. p \in Instr
      BY <1>1
    <2>2. WithImm(t, v) = [p EXCEPT !.need_imm_arg = TRUE, !.imm_arg = v]
      BY DEF WithImm
    <2> HIDE DEF p
    <2>3. WithImm(t, v) \in Instr /\ WithImm(t, v).need_imm_arg
      BY <2>1, <2>2 DEF Instr
    <2> QED
      BY <2>3 DEF Filled
  <1>3. \A t \in InstrTypes, r \in 0 .. 3 : WithReg(t, r) \in Instr /\ Filled(WithReg(t, r))
    <2> TAKE t \in InstrTypes, r \in 0 .. 3
    <2> DEFINE p == Plain(t)
    <2>1. p \in Instr
      BY <1>1
    <2>2. WithReg(t, r) = [p EXCEPT !.need_reg_arg = TRUE, !.reg_num = r]
      BY DEF WithReg
    <2> HIDE DEF p
    <2>3. WithReg(t, r) \in Instr /\ WithReg(t, r).need_reg_arg
      BY <2>1, <2>2 DEF Instr
    <2> QED
      BY <2>3 DEF Filled
  <1>4. \A t \in InstrTypes, r \in 0 .. 3, v \in Int :
          WithMem(t, r, v) \in Instr /\ Filled(WithMem(t, r, v))
    BY DEF Plain, WithImm, WithMem, Instr, Filled
  <1> QED
    BY <1>1, <1>2, <1>3, <1>4

LEMMA TaskFields ==
    ASSUME NEW t \in Tasks
    PROVE  /\ t.do = "emit" => t.ins \in Instr
           /\ t.do \in {"numeric_label", "function_label", "get_var_code"} => t.num \in Int
           /\ t.do = "push_true_false" => t.jmp_type \in Jumps
           /\ t.do \in {"subtree_convert", "if", "emit_assig", "call_args", "call", "def_args"}
                => t.node \in MaybeNodes
           /\ t.do = "subtree_convert" => t.result_used \in BOOLEAN
  BY DEF Tasks

LEMMA InertTasks ==
    /\ \A n \in MaybeNodes : /\ Used(n) \in Inert /\ Unused(n) \in Inert
                             /\ Rest("def_args", n) \in Inert /\ Rest("call_args", n) \in Inert
    /\ \A n \in Nodes : /\ Rest("if", n) \in Inert
                        /\ n.type = "VAR" => Rest("emit_assig", n) \in Inert
                        /\ n.type = "FUNC_CALL" => TaskOK(Rest("call", n))
    /\ \A i \in Instr : Filled(i) /\ ~IsTransfer(i) => Emit(i) \in Inert
    /\ \A f \in Int : FunctionLabel(f) \in Inert
    /\ \A j \in Jumps : PushTrueFalse(j) \in Inert
    /\ \A m \in {"operands_done", "catch"} : Mark(m) \in Inert
  <1>1. Nodes \subseteq MaybeNodes
    BY DEF MaybeNodes
  <1>2. ASSUME NEW n \in MaybeNodes
        PROVE  /\ Used(n) \in Inert /\ Unused(n) \in Inert
               /\ Rest("def_args", n) \in Inert /\ Rest("call_args", n) \in Inert
    <2>1. \A u \in BOOLEAN : Convert(n, u) \in Inert
      <3> TAKE u \in BOOLEAN
      <3> DEFINE c == [do |-> "subtree_convert", node |-> n, result_used |-> u]
      <3>1. c \in [do : {"subtree_convert"}, node : MaybeNodes, result_used : BOOLEAN]
        OBVIOUS
      <3>2. c.do = "subtree_convert" /\ Convert(n, u) = c
        BY DEF Convert
      <3> HIDE DEF c
      <3> QED
        BY <3>1, <3>2 DEF Inert, TaskOK, Tasks, Ends
    <2>2. Rest("def_args", n) \in Inert /\ Rest("call_args", n) \in Inert
      BY DEF Inert, TaskOK, Tasks, Ends, Rest
    <2> QED
      BY <2>1, <2>2, Zenon DEF Used, Unused
  <1>3. /\ \A n \in Nodes : /\ Rest("if", n) \in Inert
                            /\ n.type = "VAR" => Rest("emit_assig", n) \in Inert
                            /\ n.type = "FUNC_CALL" => TaskOK(Rest("call", n))
    BY <1>1 DEF Inert, TaskOK, Tasks, Ends, Rest
  <1>4. \A i \in Instr : Filled(i) /\ ~IsTransfer(i) => Emit(i) \in Inert
    BY DEF Inert, TaskOK, Tasks, Emit, Ends
  <1>5. \A f \in Int : FunctionLabel(f) \in Inert
    BY DEF Inert, TaskOK, Tasks, Ends, FunctionLabel
  <1>6. \A j \in Jumps : PushTrueFalse(j) \in Inert
    BY DEF Inert, TaskOK, Tasks, Ends, PushTrueFalse
  <1>7. \A m \in {"operands_done", "catch"} : Mark(m) \in Inert
    BY DEF Inert, TaskOK, Tasks, Ends, Mark
  <1> QED
    BY <1>2, <1>3, <1>4, <1>5, <1>6, <1>7

LEMMA LabelTask == ASSUME NEW l \in Nat
                   PROVE  TaskOK(Label(l)) /\ Label(l).do = "numeric_label" /\ Label(l).num = l
  BY DEF TaskOK, Tasks, Label

LEMMA LookUpTasks ==
    ASSUME NEW v \in Int, NEW t \in {"PUSH", "POP"}
    PROVE  /\ TaskOK(Emit(Plain(t))) /\ Waits(Emit(Plain(t)))
           /\ TaskOK(GetVarCode(v)) /\ GetVarCode(v).do = "get_var_code"
  <1>1. Plain(t) \in Instr /\ ~Filled(Plain(t))
    BY InstrFacts DEF InstrTypes, Encodable
  <1> QED
    BY <1>1 DEF TaskOK, Tasks, GetVarCode, Emit, Waits
-----------------------------------------------------------------------------
(* Lists of tasks.                                                         *)

LEMMA InertList ==
    ASSUME NEW L \in Seq(Inert), NEW J PROVE GoodList(L, {}, J)
  <1>1. L \in Seq(Tasks) /\ \A i \in 1 .. Len(L) : L[i] \in Inert
    BY DEF Inert
  <1> QED
    BY <1>1 DEF GoodList, Inert, Waits

\* The places of a concatenation.
LEMMA ConcatPlaces ==
    ASSUME NEW A \in Seq(Tasks), NEW B \in Seq(Tasks)
    PROVE  /\ A \o B \in Seq(Tasks) /\ Len(A) \in Nat /\ Len(B) \in Nat
           /\ Len(A \o B) = Len(A) + Len(B)
           /\ \A i \in 1 .. Len(A) : i \in 1 .. Len(A \o B) /\ (A \o B)[i] = A[i]
           /\ \A i \in 1 .. Len(B) :
                 Len(A) + i \in 1 .. Len(A \o B) /\ (A \o B)[Len(A) + i] = B[i]
           /\ \A i \in 1 .. Len(A \o B) :
                 i \in 1 .. Len(A) \/ \E j \in 1 .. Len(B) : i = Len(A) + j
  <1>1. ASSUME NEW i \in 1 .. Len(A \o B), ~(i \in 1 .. Len(A))
        PROVE  \E j \in 1 .. Len(B) : i = Len(A) + j
    <2>1. i - Len(A) \in 1 .. Len(B) /\ i = Len(A) + (i - Len(A))
      BY <1>1
    <2> QED
      BY <2>1
  <1> QED
    BY <1>1

LEMMA ConcatGood ==
    ASSUME NEW S, NEW T, S \cap T = {}, NEW J, NEW A, NEW B, GoodList(A, S, J), GoodList(B, T, J)
    PROVE  GoodList(A \o B, S \cup T, J)
  <1> DEFINE L == A \o B
  <1>0. A \in Seq(Tasks) /\ B \in Seq(Tasks)
    BY DEF GoodList
  <1>1. /\ L \in Seq(Tasks) /\ Len(A) \in Nat /\ Len(B) \in Nat
        /\ Len(L) = Len(A) + Len(B)
        /\ \A i \in 1 .. Len(A) : i \in 1 .. Len(L) /\ L[i] = A[i]
        /\ \A i \in 1 .. Len(B) : Len(A) + i \in 1 .. Len(L) /\ L[Len(A) + i] = B[i]
        /\ \A i \in 1 .. Len(L) : i \in 1 .. Len(A) \/ \E j \in 1 .. Len(B) : i = Len(A) + j
    BY <1>0, ConcatPlaces
  <1> HIDE DEF L
  <1>2. ASSUME NEW i \in 1 .. Len(L)
        PROVE  /\ TaskOK(L[i]) /\ L[i].do # "start_new_pass"
               /\ L[i].do \in Ends => EndOf(L[i]) \in S \cup T
               /\ L[i].do = "emit" /\ IsTransfer(L[i].ins) => L[i].ins.imm_arg \in J
    <2>1. ASSUME i \in 1 .. Len(A)
          PROVE  /\ TaskOK(L[i]) /\ L[i].do # "start_new_pass"
                 /\ L[i].do \in Ends => EndOf(L[i]) \in S \cup T
                 /\ L[i].do = "emit" /\ IsTransfer(L[i].ins) => L[i].ins.imm_arg \in J
      BY <1>1, <2>1 DEF GoodList
    <2>2. ASSUME NEW j \in 1 .. Len(B), i = Len(A) + j
          PROVE  /\ TaskOK(L[i]) /\ L[i].do # "start_new_pass"
                 /\ L[i].do \in Ends => EndOf(L[i]) \in S \cup T
                 /\ L[i].do = "emit" /\ IsTransfer(L[i].ins) => L[i].ins.imm_arg \in J
      BY <1>1, <2>2 DEF GoodList
    <2> QED
      BY <1>1, <2>1, <2>2
  <1>3. ASSUME NEW i \in 1 .. Len(L), NEW j \in 1 .. Len(L), L[i].do \in Ends, L[j].do \in Ends,
               EndOf(L[i]) = EndOf(L[j])
        PROVE  i = j
    <2>1. ASSUME i \in 1 .. Len(A), j \in 1 .. Len(A)
          PROVE  i = j
      BY <1>1, <1>3, <2>1 DEF GoodList
    <2>2. ASSUME i \in 1 .. Len(A), NEW n \in 1 .. Len(B), j = Len(A) + n
          PROVE  FALSE
      <3>1. L[i] = A[i] /\ L[j] = B[n]
        BY <1>1, <2>2
      <3>2. EndOf(A[i]) \in S /\ EndOf(B[n]) \in T
        BY <1>3, <2>2, <3>1 DEF GoodList
      <3> QED
        BY <1>3, <3>1, <3>2
    <2>3. ASSUME j \in 1 .. Len(A), NEW n \in 1 .. Len(B), i = Len(A) + n
          PROVE  FALSE
      <3>1. L[j] = A[j] /\ L[i] = B[n]
        BY <1>1, <2>3
      <3>2. EndOf(A[j]) \in S /\ EndOf(B[n]) \in T
        BY <1>3, <2>3, <3>1 DEF GoodList
      <3> QED
        BY <1>3, <3>1, <3>2
    <2>4. ASSUME NEW m \in 1 .. Len(B), i = Len(A) + m, NEW n \in 1 .. Len(B), j = Len(A) + n
          PROVE  i = j
      <3>1. L[i] = B[m] /\ L[j] = B[n]
        BY <1>1, <2>4
      <3>2. m = n
        BY <1>3, <3>1 DEF GoodList
      <3> QED
        BY <2>4, <3>2
    <2> QED
      BY <1>1, <2>1, <2>2, <2>3, <2>4
  <1>4. ASSUME NEW e \in S \cup T
        PROVE  \E i \in 1 .. Len(L) : L[i].do \in Ends /\ EndOf(L[i]) = e
    <2>1. CASE e \in S
      <3>1. PICK i \in 1 .. Len(A) : A[i].do \in Ends /\ EndOf(A[i]) = e
        BY <2>1 DEF GoodList
      <3> QED
        BY <1>1, <3>1
    <2>2. CASE e \in T
      <3>1. PICK i \in 1 .. Len(B) : B[i].do \in Ends /\ EndOf(B[i]) = e
        BY <2>2 DEF GoodList
      <3>2. Len(A) + i \in 1 .. Len(L) /\ L[Len(A) + i] = B[i]
        BY <1>1
      <3> QED
        BY <3>1, <3>2
    <2> QED
      BY <2>1, <2>2
  <1>5. ASSUME NEW i \in 1 .. Len(L), Waits(L[i])
        PROVE  i + 1 \in 1 .. Len(L) /\ L[i + 1].do = "get_var_code"
    <2>1. CASE i \in 1 .. Len(A)
      BY <1>1, <1>5, <2>1 DEF GoodList
    <2>2. ASSUME NEW j \in 1 .. Len(B), i = Len(A) + j
          PROVE  i + 1 \in 1 .. Len(L) /\ L[i + 1].do = "get_var_code"
      <3>1. Waits(B[j]) /\ i + 1 = Len(A) + (j + 1)
        BY <1>1, <1>5, <2>2
      <3>2. j + 1 \in 1 .. Len(B) /\ B[j + 1].do = "get_var_code"
        BY <3>1 DEF GoodList
      <3> QED
        BY <1>1, <3>1, <3>2
    <2> QED
      BY <1>1, <2>1, <2>2
  <1>6. ASSUME NEW i \in 1 .. Len(L), L[i].do = "get_var_code"
        PROVE  i - 1 \in 1 .. Len(L) /\ Waits(L[i - 1])
    <2>1. CASE i \in 1 .. Len(A)
      BY <1>1, <1>6, <2>1 DEF GoodList
    <2>2. ASSUME NEW j \in 1 .. Len(B), i = Len(A) + j
          PROVE  i - 1 \in 1 .. Len(L) /\ Waits(L[i - 1])
      <3>1. B[j].do = "get_var_code" /\ i - 1 = Len(A) + (j - 1)
        BY <1>1, <1>6, <2>2
      <3>2. j - 1 \in 1 .. Len(B) /\ Waits(B[j - 1])
        BY <3>1 DEF GoodList
      <3> QED
        BY <1>1, <3>1, <3>2
    <2> QED
      BY <1>1, <2>1, <2>2
  <1> QED
    BY <1>1, <1>2, <1>3, <1>4, <1>5, <1>6 DEF GoodList, L

LEMMA NoCalls ==
    ASSUME NEW L \in Seq(Tasks), \A i \in 1 .. Len(L) : L[i].do # "call" PROVE CallsIn(L, 0)
  <1> DEFINE d == [i \in 1 .. Len(L) + 1 |-> 0]
  <1>1. Counts(L, d) /\ Falls(d, Len(L) + 1) /\ d[1] = 0
    BY DEF Counts, Falls
  <1> QED
    BY <1>1 DEF CallsIn

LEMMA ConcatCalls ==
    ASSUME NEW A \in Seq(Tasks), NEW B \in Seq(Tasks), NEW m \in Nat, NEW n \in Nat,
           CallsIn(A, m), CallsIn(B, n)
    PROVE  CallsIn(A \o B, m + n)
  <1> DEFINE L == A \o B
  <1>1. /\ Len(A) \in Nat /\ Len(B) \in Nat /\ Len(L) = Len(A) + Len(B)
        /\ \A i \in 1 .. Len(A) : L[i] = A[i]
        /\ \A i \in Len(A) + 1 .. Len(L) : L[i] = B[i - Len(A)]
    OBVIOUS
  <1> HIDE DEF L
  <1>2. PICK a : Counts(A, a) /\ Falls(a, Len(A) + 1) /\ a[1] = m
    BY DEF CallsIn
  <1>3. PICK b : Counts(B, b) /\ Falls(b, Len(B) + 1) /\ b[1] = n
    BY DEF CallsIn
  <1> DEFINE d == [i \in 1 .. Len(L) + 1 |-> IF i <= Len(A) THEN a[i] + n ELSE b[i - Len(A)]]
  <1>4. d \in [1 .. Len(L) + 1 -> Nat] /\ d[Len(L) + 1] = 0
    BY <1>1, <1>2, <1>3 DEF Counts
  <1>5. d[1] = m + n
    BY <1>1, <1>2, <1>3 DEF Counts
  <1>6. ASSUME NEW i \in 1 .. Len(L)
        PROVE  d[i] = d[i + 1] + (IF L[i].do = "call" THEN 1 ELSE 0)
    <2>1. CASE i < Len(A)
      <3>1. i \in 1 .. Len(A) /\ i + 1 \in 1 .. Len(A) /\ i + 1 \in 1 .. Len(L) + 1
        BY <1>1, <2>1
      <3>2. a[i] = a[i + 1] + (IF A[i].do = "call" THEN 1 ELSE 0)
        BY <1>2, <3>1 DEF Counts
      <3>5. \A h \in 1 .. Len(A) + 1 : a[h] \in Nat
        BY <1>2 DEF Counts
      <3>6. i \in 1 .. Len(A) + 1 /\ i + 1 \in 1 .. Len(A) + 1
        BY <1>1, <3>1
      <3>3. a[i] \in Nat /\ a[i + 1] \in Nat /\ L[i] = A[i]
        BY <1>1, <3>1, <3>5, <3>6
      <3>4. d[i] = a[i] + n /\ d[i + 1] = a[i + 1] + n
        BY <1>1, <3>1
      <3> HIDE DEF d
      <3> QED
        BY <3>2, <3>3, <3>4
    <2>2. CASE i = Len(A)
      BY <1>1, <1>2, <1>3, <2>2 DEF Counts
    <2>3. CASE i > Len(A)
      <3>1. i - Len(A) \in 1 .. Len(B) /\ (i + 1) - Len(A) = (i - Len(A)) + 1
        BY <1>1, <2>3
      <3>2. L[i] = B[i - Len(A)]
        BY <1>1, <2>3
      <3>3. b[i - Len(A)] = b[(i - Len(A)) + 1] + (IF B[i - Len(A)].do = "call" THEN 1 ELSE 0)
        BY <1>3, <3>1 DEF Counts
      <3>4. d[i] = b[i - Len(A)]
        BY <1>1, <2>3
      <3>5. d[i + 1] = b[(i + 1) - Len(A)]
        BY <1>1, <2>3
      <3> HIDE DEF d
      <3> QED
        BY <3>1, <3>2, <3>3, <3>4, <3>5
    <2> QED
      BY <1>1, <2>1, <2>2, <2>3
  <1>7. Counts(L, d)
    BY <1>4, <1>6 DEF Counts
  <1>8. ASSUME NEW i \in 1 .. Len(L) + 1, NEW j \in 1 .. Len(L) + 1, i <= j PROVE d[j] <= d[i]
    <2>0. /\ \A h \in 1 .. Len(A) + 1 : a[h] \in Nat
          /\ \A h \in 1 .. Len(B) + 1 : b[h] \in Nat
          /\ d[i] = IF i <= Len(A) THEN a[i] + n ELSE b[i - Len(A)]
          /\ d[j] = IF j <= Len(A) THEN a[j] + n ELSE b[j - Len(A)]
      BY <1>2, <1>3 DEF Counts
    <2> HIDE DEF d
    <2>1. CASE j <= Len(A)
      <3>1. i \in 1 .. Len(A) + 1 /\ j \in 1 .. Len(A) + 1 /\ i <= Len(A)
        BY <1>1, <1>8, <2>1
      <3>2. a[j] <= a[i] /\ a[i] \in Nat /\ a[j] \in Nat
        BY <1>2, <1>8, <2>0, <3>1 DEF Falls
      <3> QED
        BY <2>0, <2>1, <3>1, <3>2
    <2>2. CASE i > Len(A)
      <3>1. i - Len(A) \in 1 .. Len(B) + 1 /\ j - Len(A) \in 1 .. Len(B) + 1 /\ i - Len(A) <= j - Len(A)
        BY <1>1, <1>8, <2>2
      <3>2. b[j - Len(A)] <= b[i - Len(A)]
        BY <1>3, <3>1 DEF Falls
      <3> QED
        BY <1>1, <1>8, <2>0, <2>2, <3>2
    <2>3. CASE i <= Len(A) /\ j > Len(A)
      <3>1. j - Len(A) \in 1 .. Len(B) + 1 /\ 1 \in 1 .. Len(B) + 1 /\ i \in 1 .. Len(A) + 1 /\ 1 <= j - Len(A)
        BY <1>1, <2>3
      <3>2. b[j - Len(A)] <= b[1] /\ b[j - Len(A)] \in Nat /\ a[i] \in Nat
        BY <1>3, <2>0, <3>1 DEF Falls
      <3> QED
        BY <1>3, <2>0, <2>3, <3>2
    <2> QED
      BY <1>1, <2>1, <2>2, <2>3
  <1>9. Falls(d, Len(L) + 1)
    BY <1>8 DEF Falls
  <1> QED
    BY <1>5, <1>7, <1>9 DEF CallsIn, L

\* What is left of the calls in a list without its first task, or in its end.
LEMMA TailCalls ==
    ASSUME NEW L \in Seq(Tasks), L # << >>, NEW k, CallsIn(L, k)
    PROVE  /\ k \in Nat
           /\ CallsIn(Tail(L), IF Head(L).do = "call" THEN k - 1 ELSE k)
           /\ Head(L).do = "call" => k >= 1
  <1>1. PICK d : Counts(L, d) /\ Falls(d, Len(L) + 1) /\ d[1] = k
    BY DEF CallsIn
  <1> DEFINE T == Tail(L)
             e == [i \in 1 .. Len(T) + 1 |-> d[i + 1]]
  <1>2. T \in Seq(Tasks) /\ Len(L) \in Nat \ {0} /\ Len(T) = Len(L) - 1 /\ Head(L) = L[1]
    OBVIOUS
  <1>3. \A i \in 1 .. Len(T) : T[i] = L[i + 1]
    OBVIOUS
  <1> HIDE DEF T
  <1>9. \A h \in 1 .. Len(L) + 1 : d[h] \in Nat
    BY <1>1 DEF Counts
  <1>10. e \in [1 .. Len(T) + 1 -> Nat] /\ e[Len(T) + 1] = 0
    <2>1. \A i \in 1 .. Len(T) + 1 : i + 1 \in 1 .. Len(L) + 1
      BY <1>2
    <2>2. e[Len(T) + 1] = d[Len(L) + 1]
      BY <1>2
    <2> QED
      BY <1>1, <1>9, <2>1, <2>2 DEF Counts
  <1>11. ASSUME NEW i \in 1 .. Len(T)
         PROVE  e[i] = e[i + 1] + (IF T[i].do = "call" THEN 1 ELSE 0)
    <2>1. i + 1 \in 1 .. Len(L) /\ e[i] = d[i + 1] /\ e[i + 1] = d[(i + 1) + 1]
      BY <1>2
    <2>2. d[i + 1] = d[(i + 1) + 1] + (IF L[i + 1].do = "call" THEN 1 ELSE 0)
      BY <1>1, <2>1 DEF Counts
    <2> HIDE DEF e
    <2> QED
      BY <1>3, <2>1, <2>2
  <1>4. Counts(T, e)
    BY <1>10, <1>11 DEF Counts
  <1>5. e[1] = d[2] /\ d[1] \in Nat /\ d[2] \in Nat
    BY <1>1, <1>2 DEF Counts
  <1>6. d[1] = d[2] + (IF Head(L).do = "call" THEN 1 ELSE 0)
    BY <1>1, <1>2 DEF Counts
  <1>8. Falls(e, Len(T) + 1)
    BY <1>1, <1>2 DEF Falls
  <1>7. CallsIn(T, d[2])
    BY <1>4, <1>5, <1>8 DEF CallsIn
  <1> QED
    BY <1>1, <1>5, <1>6, <1>7 DEF T

\* The end of a list has no more calls than the list.
LEMMA EndCalls ==
    ASSUME NEW L \in Seq(Tasks), NEW k, CallsIn(L, k), NEW p \in 1 .. Len(L)
    PROVE  /\ SubSeq(L, p, Len(L)) \in Seq(Tasks)
           /\ Len(SubSeq(L, p, Len(L))) = Len(L) - p + 1
           /\ \A i \in 1 .. Len(L) - p + 1 : SubSeq(L, p, Len(L))[i] = L[p + i - 1]
           /\ \E m \in Nat : CallsIn(SubSeq(L, p, Len(L)), m) /\ m <= k
  <1> DEFINE S == SubSeq(L, p, Len(L))
  <1>1. PICK d : Counts(L, d) /\ Falls(d, Len(L) + 1) /\ d[1] = k
    BY DEF CallsIn
  <1>2. /\ S \in Seq(Tasks) /\ Len(S) = Len(L) - p + 1 /\ Len(L) \in Nat
        /\ \A i \in 1 .. Len(S) : S[i] = L[p + i - 1]
    OBVIOUS
  <1> DEFINE e == [i \in 1 .. Len(S) + 1 |-> d[p + i - 1]]
  <1> HIDE DEF S
  <1>3. \A i \in 1 .. Len(S) + 1 : p + i - 1 \in 1 .. Len(L) + 1
    BY <1>2
  <1>4. e \in [1 .. Len(S) + 1 -> Nat] /\ e[Len(S) + 1] = 0
    BY <1>1, <1>2, <1>3 DEF Counts
  <1>5. ASSUME NEW i \in 1 .. Len(S)
        PROVE  e[i] = e[i + 1] + (IF S[i].do = "call" THEN 1 ELSE 0)
    <2>1. p + i - 1 \in 1 .. Len(L) /\ (p + i - 1) + 1 = p + (i + 1) - 1
      BY <1>2
    <2>2. d[p + i - 1] = d[(p + i - 1) + 1] + (IF L[p + i - 1].do = "call" THEN 1 ELSE 0)
      BY <1>1, <2>1 DEF Counts
    <2>3. e[i] = d[p + i - 1] /\ e[i + 1] = d[p + (i + 1) - 1] /\ S[i] = L[p + i - 1]
      BY <1>2
    <2> HIDE DEF e
    <2> QED
      BY <2>1, <2>2, <2>3
  <1>6. Falls(e, Len(S) + 1)
    <2>1. ASSUME NEW i \in 1 .. Len(S) + 1, NEW j \in 1 .. Len(S) + 1, i <= j PROVE e[j] <= e[i]
      <3>1. p + i - 1 \in 1 .. Len(L) + 1 /\ p + j - 1 \in 1 .. Len(L) + 1 /\ p + i - 1 <= p + j - 1
        BY <1>2, <1>3, <2>1
      <3>2. d[p + j - 1] <= d[p + i - 1]
        BY <1>1, <3>1 DEF Falls
      <3> QED
        BY <3>2
    <2> QED
      BY <2>1 DEF Falls
  <1>7. Counts(S, e)
    BY <1>4, <1>5 DEF Counts
  <1>8. e[1] = d[p] /\ d[p] <= k /\ e[1] \in Nat
    <2>1. e[1] = d[p + 1 - 1] /\ p + 1 - 1 = p
      BY <1>2
    <2>2. p \in 1 .. Len(L) + 1 /\ 1 \in 1 .. Len(L) + 1 /\ 1 <= p
      BY <1>2
    <2>3. d[p] <= d[1] /\ d[p] \in Nat
      BY <1>1, <2>2 DEF Falls, Counts
    <2> HIDE DEF e
    <2> QED
      BY <1>1, <2>1, <2>3
  <1> HIDE DEF e
  <1>9. CallsIn(S, e[1])
    BY <1>6, <1>7 DEF CallsIn
  <1> QED
    BY <1>2, <1>8, <1>9 DEF S

\* Lists of inert tasks, of a PUSH or POP and its variable, of one label, of the
\* end of a function, and of one jump.
LEMMA InertMade ==
    ASSUME NEW L \in Seq(Inert), NEW J PROVE Makes(L, {}, J, 0)
  <1>1. L \in Seq(Tasks) /\ \A i \in 1 .. Len(L) : L[i].do # "call"
    BY DEF Inert
  <1> QED
    BY <1>1, InertList, NoCalls DEF Makes

LEMMA ConcatMade ==
    ASSUME NEW S, NEW T, S \cap T = {}, NEW J, NEW A, NEW B, NEW m \in Nat, NEW n \in Nat,
           Makes(A, S, J, m), Makes(B, T, J, n)
    PROVE  Makes(A \o B, S \cup T, J, m + n)
  <1>1. A \in Seq(Tasks) /\ B \in Seq(Tasks)
    BY DEF Makes, GoodList
  <1> QED
    BY <1>1, ConcatGood, ConcatCalls DEF Makes

LEMMA LookUpMade ==
    ASSUME NEW v \in Int, NEW t \in {"PUSH", "POP"}, NEW J
    PROVE  Makes(<< Emit(Plain(t)), GetVarCode(v) >>, {}, J, 0)
  <1> DEFINE a == Emit(Plain(t))
             b == GetVarCode(v)
             L == << a, b >>
  <1>1. TaskOK(a) /\ Waits(a) /\ TaskOK(b) /\ b.do = "get_var_code"
    BY LookUpTasks
  <1>2. a.do = "emit" /\ ~IsTransfer(a.ins)
    BY DEF Emit, Plain, IsTransfer, Jumps
  <1> HIDE DEF a, b
  <1>3. ~Waits(b) /\ a \in Tasks /\ b \in Tasks
    BY <1>1, <1>2 DEF Waits, TaskOK
  <1>4. L \in Seq(Tasks) /\ Len(L) = 2 /\ L[1] = a /\ L[2] = b
    BY <1>3
  <1> HIDE DEF L
  <1>5. \A i \in 1 .. Len(L) : i = 1 \/ i = 2
    BY <1>4
  <1>6. GoodList(L, {}, J)
    BY <1>1, <1>2, <1>3, <1>4, <1>5 DEF GoodList, Ends
  <1>7. \A i \in 1 .. Len(L) : L[i].do # "call"
    BY <1>1, <1>2, <1>4, <1>5
  <1> QED
    BY <1>4, <1>6, <1>7, NoCalls DEF Makes, L, a, b

\* A task that can stand anywhere in a list.
Piece(a, J) ==
    /\ a \in Tasks /\ TaskOK(a) /\ a.do \notin {"start_new_pass", "call", "get_var_code"} /\ ~Waits(a)
    /\ a.do = "emit" /\ IsTransfer(a.ins) => a.ins.imm_arg \in J

LEMMA InertPiece == ASSUME NEW a \in Inert, NEW J PROVE Piece(a, J) /\ a.do \notin Ends
  BY DEF Inert, Piece, Waits

LEMMA LabelPiece ==
    ASSUME NEW l \in Nat, NEW J
    PROVE  Piece(Label(l), J) /\ Label(l).do \in Ends /\ EndOf(Label(l)) = l
  <1>1. /\ TaskOK(Label(l)) /\ Label(l).do = "numeric_label" /\ Label(l).num = l
        /\ Label(l) \in Tasks
    BY LabelTask DEF TaskOK
  <1> HIDE DEF Label
  <1> QED
    BY <1>1 DEF Piece, Waits, Ends, EndOf

LEMMA LeavePiece ==
    ASSUME NEW J
    PROVE  /\ Piece(Mark("leave_func"), J) /\ Mark("leave_func").do \in Ends
           /\ EndOf(Mark("leave_func")) = -1
  <1> DEFINE a == Mark("leave_func")
  <1>1. a \in Tasks /\ TaskOK(a) /\ a.do = "leave_func"
    BY DEF Mark, Tasks, TaskOK
  <1> HIDE DEF a
  <1>2. Piece(a, J) /\ a.do \in Ends /\ EndOf(a) = -1
    BY <1>1 DEF Piece, Waits, Ends, EndOf
  <1> QED
    BY <1>2 DEF a

LEMMA JumpPiece ==
    ASSUME NEW t \in Jumps \cup {"JMP", "CALL"}, NEW J, NEW v \in J, v \in Int
    PROVE  Piece(Emit(WithImm(t, v)), J) /\ Emit(WithImm(t, v)).do \notin Ends
  <1> DEFINE i == WithImm(t, v)
             a == Emit(i)
  <1>1. i \in Instr /\ Filled(i)
    BY InstrFacts DEF InstrTypes, Encodable
  <1>2. i.imm_arg = v
    BY DEF WithImm, Plain
  <1>3. a \in Tasks /\ TaskOK(a) /\ a.do = "emit" /\ a.ins = i
    BY <1>1 DEF Emit, Tasks, TaskOK
  <1> HIDE DEF a, i
  <1>4. Piece(a, J) /\ a.do \notin Ends
    BY <1>1, <1>2, <1>3 DEF Piece, Waits, Ends
  <1> QED
    BY <1>4 DEF a, i

\* The pieces of a list, whose ends are at the places p and q.
EndsAt(L, p, q, J) ==
    /\ L \in Seq(Tasks) /\ \A i \in 1 .. Len(L) : Piece(L[i], J)
    /\ p \in 1 .. Len(L) /\ L[p].do \in Ends
    /\ q \in 1 .. Len(L) /\ L[q].do \in Ends
    /\ p = q <=> EndOf(L[p]) = EndOf(L[q])
    /\ \A i \in 1 .. Len(L) : i # p /\ i # q => L[i].do \notin Ends

LEMMA PiecesMade ==
    ASSUME NEW L, NEW p, NEW q, NEW J, EndsAt(L, p, q, J)
    PROVE  Makes(L, {EndOf(L[p]), EndOf(L[q])}, J, 0)
  <1>1. \A i \in 1 .. Len(L) : /\ TaskOK(L[i]) /\ L[i].do \notin {"start_new_pass", "get_var_code"}
                               /\ ~Waits(L[i])
                               /\ L[i].do = "emit" /\ IsTransfer(L[i].ins) => L[i].ins.imm_arg \in J
    BY DEF Piece, EndsAt
  <1>2. \A i \in 1 .. Len(L) : L[i].do \in Ends => i = p \/ i = q
    BY DEF EndsAt
  <1>3. GoodList(L, {EndOf(L[p]), EndOf(L[q])}, J)
    BY <1>1, <1>2 DEF GoodList, EndsAt
  <1>4. \A i \in 1 .. Len(L) : L[i].do # "call"
    BY DEF Piece, EndsAt
  <1>5. L \in Seq(Tasks)
    BY DEF EndsAt
  <1> QED
    BY <1>3, <1>4, <1>5, NoCalls DEF Makes

\* The instructions that are emitted with their operands.
LEMMA InertEmits ==
    /\ \A t \in {"ADD", "SUB", "MUL", "DIV", "SQRT", "SIN", "COS", "RET", "HALT", "INP", "OUT"} :
          Emit(Plain(t)) \in Inert
    /\ \A v \in Int : Emit(WithImm("PUSH", v)) \in Inert
    /\ \A t \in {"PUSH", "POP"}, r \in 0 .. 3 : Emit(WithReg(t, r)) \in Inert
    /\ \A r \in 0 .. 3, v \in Int : Emit(WithMem("POP", r, v)) \in Inert
    /\ REG_RAX \in 0 .. 3 /\ REG_RBX \in 0 .. 3 /\ REG_RDX \in 0 .. 3
  <1>1. \A t \in {"ADD", "SUB", "MUL", "DIV", "SQRT", "SIN", "COS", "RET", "HALT", "INP", "OUT"} :
          Emit(Plain(t)) \in Inert
    <2> TAKE t \in {"ADD", "SUB", "MUL", "DIV", "SQRT", "SIN", "COS", "RET", "HALT", "INP", "OUT"}
    <2>1. ~IsTransfer(Plain(t))
      BY DEF IsTransfer, Plain, Jumps
    <2>2. t \in InstrTypes /\ t \notin {"PUSH", "POP"}
      BY DEF InstrTypes, Encodable, Unsupported
    <2> QED
      BY <2>1, <2>2, InstrFacts, InertTasks
  <1>2. "PUSH" \in InstrTypes /\ "POP" \in InstrTypes
    BY DEF InstrTypes, Encodable
  <1>3. \A v \in Int : Emit(WithImm("PUSH", v)) \in Inert
    <2> TAKE v \in Int
    <2>1. ~IsTransfer(WithImm("PUSH", v))
      BY DEF IsTransfer, Jumps, WithImm, Plain
    <2> QED
      BY <1>2, <2>1, InstrFacts, InertTasks
  <1>4. \A t \in {"PUSH", "POP"}, r \in 0 .. 3 : Emit(WithReg(t, r)) \in Inert
    <2> TAKE t \in {"PUSH", "POP"}, r \in 0 .. 3
    <2>1. ~IsTransfer(WithReg(t, r))
      BY DEF IsTransfer, Jumps, WithReg, Plain
    <2> QED
      BY <1>2, <2>1, InstrFacts, InertTasks
  <1>5. \A r \in 0 .. 3, v \in Int : Emit(WithMem("POP", r, v)) \in Inert
    <2> TAKE r \in 0 .. 3, v \in Int
    <2>1. ~IsTransfer(WithMem("POP", r, v))
      BY DEF IsTransfer, Jumps, WithMem, WithImm, Plain
    <2> QED
      BY <1>2, <2>1, InstrFacts, InertTasks
  <1> QED
    BY <1>1, <1>3, <1>4, <1>5 DEF REG_RAX, REG_RBX, REG_RDX
-----------------------------------------------------------------------------
(* The lists of the handlers.                                              *)

LEMMA SimpleMade ==
    ASSUME NEW n \in Nodes, n.type \in {"FICTIOUS", "VAL", "VAR", "RETURN"}
    PROVE  \A J : Makes(SimpleTasks(n), {}, J, 0)
  <1>0. n.left \in MaybeNodes /\ n.right \in MaybeNodes /\ (n.type # "OP" => n.data \in Int)
    BY NodeFacts
  <1>1. CASE n.type = "FICTIOUS"
    <2>1. SimpleTasks(n) = << Unused(n.left), Unused(n.right) >>
      BY <1>1 DEF SimpleTasks, Unused
    <2>2. Unused(n.left) \in Inert /\ Unused(n.right) \in Inert
      BY <1>0, InertTasks
    <2>3. SimpleTasks(n) \in Seq(Inert)
      BY <2>1, <2>2
    <2> QED
      BY <2>3, InertMade
  <1>2. CASE n.type = "VAL"
    <2>1. SimpleTasks(n) = << Emit(WithImm("PUSH", n.data)) >>
      BY <1>2 DEF SimpleTasks
    <2>2. Emit(WithImm("PUSH", n.data)) \in Inert
      BY <1>0, <1>2, InertEmits
    <2>3. SimpleTasks(n) \in Seq(Inert)
      BY <2>1, <2>2
    <2> QED
      BY <2>3, InertMade
  <1>3. CASE n.type = "VAR"
    BY <1>0, <1>3, LookUpMade DEF SimpleTasks
  <1>4. CASE n.type = "RETURN"
    <2> DEFINE c == Used(n.right)
               p == Emit(WithReg("POP", REG_RAX))
               q == Emit(WithReg("POP", REG_RBX))
               r == Emit(WithReg("PUSH", REG_RAX))
               t == Emit(WithReg("PUSH", REG_RBX))
               u == Emit(Plain("RET"))
    <2>1. SimpleTasks(n) = << c, p, q, r, t, u >>
      BY <1>4 DEF SimpleTasks, Used
    <2>2. /\ c \in Inert /\ p \in Inert /\ q \in Inert /\ r \in Inert /\ t \in Inert
          /\ u \in Inert
      BY <1>0, InertTasks, InertEmits
    <2> HIDE DEF c, p, q, r, t, u
    <2>3. SimpleTasks(n) \in Seq(Inert)
      BY <2>1, <2>2
    <2> QED
      BY <2>3, InertMade
  <1> QED
    BY <1>1, <1>2, <1>3, <1>4

LEMMA OpMade ==
    ASSUME NEW n \in Nodes, n.type = "OP" 
    PROVE  \A J : Makes(OpTasks(n), {}, J, 0)
  <1> DEFINE op == n.data
             a  == Used(n.left)
             b  == Used(n.right)
             zero == Emit(WithImm("PUSH", 0))
             pop  == Emit(WithReg("POP", REG_RAX))
             push == Emit(WithReg("PUSH", REG_RAX))
             je   == PushTrueFalse("JE")
             jne  == PushTrueFalse("JNE")
             done == Mark("operands_done")
             catch == Mark("catch")
             inp  == Emit(Plain("INP"))
             out  == Emit(Plain("OUT"))
             add  == Emit(Plain("ADD"))
  <1>1. op \in OpNames /\ n.left \in MaybeNodes /\ n.right \in MaybeNodes
    BY NodeFacts
  <1>2. /\ a \in Inert /\ b \in Inert /\ zero \in Inert /\ pop \in Inert /\ push \in Inert
        /\ je \in Inert /\ jne \in Inert /\ done \in Inert /\ catch \in Inert
        /\ inp \in Inert /\ out \in Inert /\ add \in Inert
    BY <1>1, InertTasks, InertEmits DEF Jumps
  <1>3. CASE op \in BinaryOps
    <2>1. OpTasks(n) = << a, b >> \o << Emit(Plain(op)) >>
      BY <1>3 DEF OpTasks, BinaryOps, UnaryOps, Comparators, Used
    <2>2. Emit(Plain(op)) \in Inert
      BY <1>3, InertEmits DEF BinaryOps
    <2> HIDE DEF a, b
    <2>3. OpTasks(n) \in Seq(Inert)
      BY <1>2, <2>1, <2>2
    <2> QED
      BY <2>3, InertMade
  <1>4. CASE op \in UnaryOps
    <2>1. OpTasks(n) = << b >> \o << Emit(Plain(op)) >>
      BY <1>4 DEF OpTasks, BinaryOps, UnaryOps, Comparators, Used
    <2>2. Emit(Plain(op)) \in Inert
      BY <1>4, InertEmits DEF UnaryOps
    <2> HIDE DEF b
    <2>3. OpTasks(n) \in Seq(Inert)
      BY <1>2, <2>1, <2>2
    <2> QED
      BY <2>3, InertMade
  <1>5. CASE op \in Comparators
    <2>1. JumpOf(op) \in Jumps
      BY <1>5 DEF Comparators, JumpOf, Jumps
    <2>2. PushTrueFalse(JumpOf(op)) \in Inert
      BY <2>1, InertTasks
    <2>3. OpTasks(n) = << a, b >> \o << PushTrueFalse(JumpOf(op)) >>
      BY <1>5 DEF OpTasks, BinaryOps, UnaryOps, Comparators, Used
    <2> HIDE DEF a, b
    <2>4. OpTasks(n) \in Seq(Inert)
      BY <1>2, <2>2, <2>3
    <2> QED
      BY <2>4, InertMade
  <1>6. CASE op = "INPUT"
    <2>1. OpTasks(n) = << inp >>
      BY <1>6 DEF OpTasks, BinaryOps, UnaryOps, Comparators
    <2> HIDE DEF inp
    <2>2. OpTasks(n) \in Seq(Inert)
      BY <1>2, <2>1
    <2> QED
      BY <2>2, InertMade
  <1>9. CASE op = "OUTPUT"
    <2>1. OpTasks(n) = << b >> \o << pop, push, push, out >>
      BY <1>9 DEF OpTasks, BinaryOps, UnaryOps, Comparators, Used
    <2> HIDE DEF b, pop, push, out
    <2>2. OpTasks(n) \in Seq(Inert)
      BY <1>2, <2>1
    <2> QED
      BY <2>2, InertMade
  <1>10. CASE op = "NOT"
    <2>1. OpTasks(n) = << b >> \o << zero, je >>
      BY <1>10 DEF OpTasks, BinaryOps, UnaryOps, Comparators, Used
    <2> HIDE DEF b, zero, je
    <2>2. OpTasks(n) \in Seq(Inert)
      BY <1>2, <2>1
    <2> QED
      BY <2>2, InertMade
  <1>7. CASE op = "ASSIG"
    <2>1. Rest("emit_assig", n.left) \in Inert
      BY <1>7, NodeFacts, InertTasks
    <2>2. OpTasks(n) = << b >> \o << Rest("emit_assig", n.left) >>
      BY <1>7 DEF OpTasks, BinaryOps, UnaryOps, Comparators, Used
    <2> HIDE DEF b
    <2>3. OpTasks(n) \in Seq(Inert)
      BY <1>2, <2>1, <2>2
    <2> QED
      BY <2>3, InertMade
  <1>8. CASE op \in {"AND", "OR"}
    <2>1. LogicalOperands(n) = << a, zero, jne >> \o << b, zero, jne >> \o << done, catch >>
      BY DEF LogicalOperands, Boolify, Used
    <2> DEFINE o == LogicalOperands(n)
    <2>2. o \in Seq(Inert)
      <3> HIDE DEF a, b, zero, jne, done, catch
      <3> QED
        BY <1>2, <2>1
    <2>3. CASE op = "OR"
      <3>1. OpTasks(n) = o \o << add >>
        BY <2>3 DEF OpTasks, BinaryOps, UnaryOps, Comparators
      <3> HIDE DEF o, add
      <3>2. OpTasks(n) \in Seq(Inert)
        BY <1>2, <2>2, <3>1
      <3> QED
        BY <3>2, InertMade
    <2>4. CASE op = "AND"
      <3>1. OpTasks(n) = o \o << je >>
        BY <2>4 DEF OpTasks, BinaryOps, UnaryOps, Comparators
      <3> HIDE DEF o, je
      <3>2. OpTasks(n) \in Seq(Inert)
        BY <1>2, <2>2, <3>1
      <3> QED
        BY <3>2, InertMade
    <2> QED
      BY <1>8, <2>3, <2>4
  <1> QED
    BY <1>1, <1>3, <1>4, <1>5, <1>6, <1>7, <1>8, <1>9, <1>10 DEF OpNames

\* One or a few inert tasks.
LEMMA InertFew ==
    ASSUME NEW J, NEW a \in Inert
    PROVE  /\ Makes(<< a >>, {}, J, 0)
           /\ \A b \in Inert : Makes(<< a, b >>, {}, J, 0)
           /\ \A b, c \in Inert : Makes(<< a, b, c >>, {}, J, 0)
  <1>1. << a >> \in Seq(Inert)
    OBVIOUS
  <1>2. ASSUME NEW b \in Inert PROVE << a, b >> \in Seq(Inert)
    OBVIOUS
  <1>3. ASSUME NEW b \in Inert, NEW c \in Inert PROVE << a, b, c >> \in Seq(Inert)
    OBVIOUS
  <1> QED
    BY <1>1, <1>2, <1>3, InertMade

LEMMA IfMade ==
    ASSUME NEW n \in Nodes, n.type = "IF", NEW J
    PROVE  Makes(<< Convert(n.left, TRUE), Emit(WithImm("PUSH", 0)), Rest("if", n.right) >>, {}, J, 0)
  <1> DEFINE a == Used(n.left)
             b == Emit(WithImm("PUSH", 0))
             c == Rest("if", n.right)
  <1>1. n.left \in MaybeNodes /\ n.right \in Nodes
    BY NodeFacts
  <1>2. a \in Inert /\ b \in Inert /\ c \in Inert
    BY <1>1, InertTasks, InertEmits
  <1>3. << a, b, c >> = << Convert(n.left, TRUE), b, c >>
    BY DEF Used
  <1> HIDE DEF a, b, c
  <1>4. Makes(<< a, b, c >>, {}, J, 0)
    BY <1>2, InertFew
  <1> QED
    BY <1>3, <1>4 DEF b, c

LEMMA TrueFalseMade ==
    ASSUME NEW j \in Jumps, NEW l \in Nat, NEW J, NEW s \in J, NEW t \in J, s \in Int, t \in Int
    PROVE  Makes(<< Emit(WithImm(j, s)), Emit(WithImm("PUSH", 0)), Emit(WithImm("JMP", t)),
                    Label(l), Emit(WithImm("PUSH", 1)), Label(l + 1) >>,
                 {l, l + 1}, J, 0)
  <1> DEFINE a == Emit(WithImm(j, s))
             b == Emit(WithImm("PUSH", 0))
             c == Emit(WithImm("JMP", t))
             d == Label(l)
             e == Emit(WithImm("PUSH", 1))
             f == Label(l + 1)
             L == << a, b, c, d, e, f >>
  <1>1. L = << Emit(WithImm(j, s)), Emit(WithImm("PUSH", 0)), Emit(WithImm("JMP", t)),
                    Label(l), Emit(WithImm("PUSH", 1)), Label(l + 1) >>
    BY DEF Used
  <1>2. b \in Inert /\ e \in Inert
    BY InertEmits
  <1>3. /\ Piece(a, J) /\ a.do \notin Ends
        /\ Piece(c, J) /\ c.do \notin Ends
    BY JumpPiece DEF Jumps
  <1>4. /\ Piece(d, J) /\ d.do \in Ends /\ EndOf(d) = l
        /\ Piece(f, J) /\ f.do \in Ends /\ EndOf(f) = l + 1
    BY LabelPiece
  <1> HIDE DEF a, b, c, d, e, f
  <1>5. Piece(b, J) /\ b.do \notin Ends /\ Piece(e, J) /\ e.do \notin Ends
    BY <1>2, InertPiece
  <1>6. /\ L \in Seq(Tasks) /\ Len(L) = 6
        /\ L[1] = a /\ L[2] = b /\ L[3] = c /\ L[4] = d /\ L[5] = e /\ L[6] = f
    BY <1>3, <1>4, <1>5 DEF Piece
  <1> HIDE DEF L
  <1>7. \A i \in 1 .. Len(L) : i = 1 \/ i = 2 \/ i = 3 \/ i = 4 \/ i = 5 \/ i = 6
    BY <1>6
  <1>8. \A i \in 1 .. Len(L) : Piece(L[i], J) /\ (i # 4 /\ i # 6 => L[i].do \notin Ends)
    BY <1>3, <1>4, <1>5, <1>6, <1>7
  <1>9. EndsAt(L, 4, 6, J)
    BY <1>4, <1>6, <1>8 DEF EndsAt
  <1>10. Makes(L, {l, l + 1}, J, 0)
    BY <1>4, <1>6, <1>9, PiecesMade
  <1> QED
    BY <1>1, <1>10

LEMMA BothBranchesMade ==
    ASSUME NEW n \in Nodes, NEW l \in Nat, NEW J, NEW s \in J, NEW t \in J, s \in Int, t \in Int
    PROVE  Makes(<< Emit(WithImm("JE", s)), Convert(n.left, TRUE), Emit(WithImm("JMP", t)),
                    Label(l + 1), Convert(n.right, TRUE), Label(l) >>,
                 {l, l + 1}, J, 0)
  <1> DEFINE a == Emit(WithImm("JE", s))
             b == Used(n.left)
             c == Emit(WithImm("JMP", t))
             d == Label(l + 1)
             e == Used(n.right)
             f == Label(l)
             L == << a, b, c, d, e, f >>
  <1>1. L = << Emit(WithImm("JE", s)), Convert(n.left, TRUE), Emit(WithImm("JMP", t)),
                    Label(l + 1), Convert(n.right, TRUE), Label(l) >>
    BY DEF Used
  <1>2. b \in Inert /\ e \in Inert
    BY NodeFacts, InertTasks
  <1>3. /\ Piece(a, J) /\ a.do \notin Ends
        /\ Piece(c, J) /\ c.do \notin Ends
    BY JumpPiece DEF Jumps
  <1>4. /\ Piece(d, J) /\ d.do \in Ends /\ EndOf(d) = l + 1
        /\ Piece(f, J) /\ f.do \in Ends /\ EndOf(f) = l
    BY LabelPiece
  <1> HIDE DEF a, b, c, d, e, f
  <1>5. Piece(b, J) /\ b.do \notin Ends /\ Piece(e, J) /\ e.do \notin Ends
    BY <1>2, InertPiece
  <1>6. /\ L \in Seq(Tasks) /\ Len(L) = 6
        /\ L[1] = a /\ L[2] = b /\ L[3] = c /\ L[4] = d /\ L[5] = e /\ L[6] = f
    BY <1>3, <1>4, <1>5 DEF Piece
  <1> HIDE DEF L
  <1>7. \A i \in 1 .. Len(L) : i = 1 \/ i = 2 \/ i = 3 \/ i = 4 \/ i = 5 \/ i = 6
    BY <1>6
  <1>8. \A i \in 1 .. Len(L) : Piece(L[i], J) /\ (i # 6 /\ i # 4 => L[i].do \notin Ends)
    BY <1>3, <1>4, <1>5, <1>6, <1>7
  <1>9. EndsAt(L, 6, 4, J)
    BY <1>4, <1>6, <1>8 DEF EndsAt
  <1>10. Makes(L, {l, l + 1}, J, 0)
    BY <1>4, <1>6, <1>9, PiecesMade
  <1> QED
    BY <1>1, <1>10

LEMMA OneBranchMade ==
    ASSUME NEW n \in Nodes, NEW l \in Nat, NEW J, NEW s \in J, s \in Int
    PROVE  Makes(<< Emit(WithImm("JE", s)), Convert(n.right, TRUE), Label(l) >>,
                 {l, l}, J, 0)
  <1> DEFINE a == Emit(WithImm("JE", s))
             b == Used(n.right)
             c == Label(l)
             L == << a, b, c >>
  <1>1. L = << Emit(WithImm("JE", s)), Convert(n.right, TRUE), Label(l) >>
    BY DEF Used
  <1>2. b \in Inert
    BY NodeFacts, InertTasks
  <1>3. /\ Piece(a, J) /\ a.do \notin Ends
    BY JumpPiece DEF Jumps
  <1>4. /\ Piece(c, J) /\ c.do \in Ends /\ EndOf(c) = l
    BY LabelPiece
  <1> HIDE DEF a, b, c
  <1>5. Piece(b, J) /\ b.do \notin Ends
    BY <1>2, InertPiece
  <1>6. L \in Seq(Tasks) /\ Len(L) = 3 /\ L[1] = a /\ L[2] = b /\ L[3] = c
    BY <1>3, <1>4, <1>5 DEF Piece
  <1> HIDE DEF L
  <1>7. \A i \in 1 .. Len(L) : i = 1 \/ i = 2 \/ i = 3
    BY <1>6
  <1>8. \A i \in 1 .. Len(L) : Piece(L[i], J) /\ (i # 3 /\ i # 3 => L[i].do \notin Ends)
    BY <1>3, <1>4, <1>5, <1>6, <1>7
  <1>9. EndsAt(L, 3, 3, J)
    BY <1>4, <1>6, <1>8 DEF EndsAt
  <1>10. Makes(L, {l, l}, J, 0)
    BY <1>4, <1>6, <1>9, PiecesMade
  <1> QED
    BY <1>1, <1>10

LEMMA WhileMade ==
    ASSUME NEW n \in Nodes, NEW l \in Nat, NEW J, NEW s \in J, NEW t \in J, s \in Int, t \in Int
    PROVE  Makes(<< Label(l), Convert(n.left, TRUE), Emit(WithImm("PUSH", 0)), Emit(WithImm("JE", t)),
                    Convert(n.right, TRUE), Emit(WithImm("JMP", s)), Label(l + 1) >>,
                 {l, l + 1}, J, 0)
  <1> DEFINE a == Label(l)
             b == Used(n.left)
             c == Emit(WithImm("PUSH", 0))
             d == Emit(WithImm("JE", t))
             e == Used(n.right)
             f == Emit(WithImm("JMP", s))
             g == Label(l + 1)
             L == << a, b, c, d, e, f, g >>
  <1>1. L = << Label(l), Convert(n.left, TRUE), Emit(WithImm("PUSH", 0)), Emit(WithImm("JE", t)),
                    Convert(n.right, TRUE), Emit(WithImm("JMP", s)), Label(l + 1) >>
    BY DEF Used
  <1>2. b \in Inert /\ c \in Inert /\ e \in Inert
    BY NodeFacts, InertTasks, InertEmits
  <1>3. /\ Piece(d, J) /\ d.do \notin Ends
        /\ Piece(f, J) /\ f.do \notin Ends
    BY JumpPiece DEF Jumps
  <1>4. /\ Piece(a, J) /\ a.do \in Ends /\ EndOf(a) = l
        /\ Piece(g, J) /\ g.do \in Ends /\ EndOf(g) = l + 1
    BY LabelPiece
  <1> HIDE DEF a, b, c, d, e, f, g
  <1>5. Piece(b, J) /\ b.do \notin Ends /\ Piece(c, J) /\ c.do \notin Ends /\ Piece(e, J) /\ e.do \notin Ends
    BY <1>2, InertPiece
  <1>6. /\ L \in Seq(Tasks) /\ Len(L) = 7
        /\ L[1] = a /\ L[2] = b /\ L[3] = c /\ L[4] = d /\ L[5] = e /\ L[6] = f /\ L[7] = g
    BY <1>3, <1>4, <1>5 DEF Piece
  <1> HIDE DEF L
  <1>7. \A i \in 1 .. Len(L) : i = 1 \/ i = 2 \/ i = 3 \/ i = 4 \/ i = 5 \/ i = 6 \/ i = 7
    BY <1>6
  <1>8. \A i \in 1 .. Len(L) : Piece(L[i], J) /\ (i # 1 /\ i # 7 => L[i].do \notin Ends)
    BY <1>3, <1>4, <1>5, <1>6, <1>7
  <1>9. EndsAt(L, 1, 7, J)
    BY <1>4, <1>6, <1>8 DEF EndsAt
  <1>10. Makes(L, {l, l + 1}, J, 0)
    BY <1>4, <1>6, <1>9, PiecesMade
  <1> QED
    BY <1>1, <1>10

LEMMA FuncDefMade ==
    ASSUME NEW n \in Nodes, n.type = "FUNC_DEF", NEW l \in Nat, NEW J, NEW s \in J, s \in Int
    PROVE  Makes(<< Emit(WithImm("JMP", s)), FunctionLabel(n.data), Rest("def_args", n.left),
                    Convert(n.right, TRUE), Label(l), Mark("leave_func") >>,
                 {l, -1}, J, 0)
  <1> DEFINE a == Emit(WithImm("JMP", s))
             b == FunctionLabel(n.data)
             c == Rest("def_args", n.left)
             d == Used(n.right)
             e == Label(l)
             f == Mark("leave_func")
             L == << a, b, c, d, e, f >>
  <1>1. L = << Emit(WithImm("JMP", s)), FunctionLabel(n.data), Rest("def_args", n.left),
                    Convert(n.right, TRUE), Label(l), Mark("leave_func") >>
    BY DEF Used
  <1>2. b \in Inert /\ c \in Inert /\ d \in Inert
    BY NodeFacts, InertTasks
  <1>3. /\ Piece(a, J) /\ a.do \notin Ends
    BY JumpPiece DEF Jumps
  <1>4. /\ Piece(e, J) /\ e.do \in Ends /\ EndOf(e) = l
        /\ Piece(f, J) /\ f.do \in Ends /\ EndOf(f) = -1
    BY LabelPiece, LeavePiece
  <1> HIDE DEF a, b, c, d, e, f
  <1>5. Piece(b, J) /\ b.do \notin Ends /\ Piece(c, J) /\ c.do \notin Ends /\ Piece(d, J) /\ d.do \notin Ends
    BY <1>2, InertPiece
  <1>6. /\ L \in Seq(Tasks) /\ Len(L) = 6
        /\ L[1] = a /\ L[2] = b /\ L[3] = c /\ L[4] = d /\ L[5] = e /\ L[6] = f
    BY <1>3, <1>4, <1>5 DEF Piece
  <1> HIDE DEF L
  <1>7. \A i \in 1 .. Len(L) : i = 1 \/ i = 2 \/ i = 3 \/ i = 4 \/ i = 5 \/ i = 6
    BY <1>6
  <1>8. \A i \in 1 .. Len(L) : Piece(L[i], J) /\ (i # 5 /\ i # 6 => L[i].do \notin Ends)
    BY <1>3, <1>4, <1>5, <1>6, <1>7
  <1>9. EndsAt(L, 5, 6, J)
    BY <1>4, <1>6, <1>8 DEF EndsAt
  <1>10. Makes(L, {l, -1}, J, 0)
    BY <1>4, <1>6, <1>9, PiecesMade
  <1> QED
    BY <1>1, <1>10

LEMMA AssigMade ==
    ASSUME NEW v \in Int, NEW J
    PROVE  Makes(<< Emit(Plain("POP")), GetVarCode(v), Mark("catch") >>, {}, J, 0)
  <1> DEFINE a == Emit(Plain("POP"))
             b == GetVarCode(v)
             c == Mark("catch")
             L == << a, b, c >>
  <1>1. /\ TaskOK(a) /\ Waits(a) /\ a.do = "emit" /\ TaskOK(b) /\ b.do = "get_var_code"
        /\ ~IsTransfer(a.ins)
    BY LookUpTasks DEF Emit, Plain, IsTransfer, Jumps
  <1>2. c \in Inert
    BY InertTasks
  <1> HIDE DEF a, b, c
  <1>3. Piece(c, J) /\ c.do \notin Ends
    BY <1>2, InertPiece
  <1>4. a \in Tasks /\ b \in Tasks /\ c \in Tasks
    BY <1>1, <1>3 DEF TaskOK, Piece
  <1>5. L \in Seq(Tasks) /\ Len(L) = 3 /\ L[1] = a /\ L[2] = b /\ L[3] = c
    BY <1>4
  <1> HIDE DEF L
  <1>6. \A i \in 1 .. Len(L) : i = 1 \/ i = 2 \/ i = 3
    BY <1>5
  <1>7. GoodList(L, {}, J)
    BY <1>1, <1>3, <1>5, <1>6 DEF GoodList, Piece, Ends, Waits
  <1>8. \A i \in 1 .. Len(L) : L[i].do # "call"
    BY <1>1, <1>3, <1>5, <1>6 DEF Piece
  <1>9. Makes(L, {}, J, 0)
    BY <1>5, <1>7, <1>8, NoCalls DEF Makes
  <1> QED
    BY <1>9 DEF L, a, b, c

LEMMA FuncCallMade ==
    ASSUME NEW n \in Nodes, n.type = "FUNC_CALL", NEW J, NEW used
    PROVE  Makes(<< Rest("call_args", n.right), Rest("call", n) >>
                   \o (IF used THEN << >> ELSE << Emit(WithReg("POP", REG_RAX)) >>), {}, J, 1)
  <1> DEFINE a == Rest("call_args", n.right)
             b == Rest("call", n)
             L == << a, b >>
             M == IF used THEN << >> ELSE << Emit(WithReg("POP", REG_RAX)) >>
             d == [i \in 1 .. 3 |-> IF i = 3 THEN 0 ELSE 1]
  <1>1. a \in Inert /\ TaskOK(b) /\ b.do = "call"
    BY NodeFacts, InertTasks DEF Rest
  <1>2. Makes(M, {}, J, 0)
    <2>1. << >> \in Seq(Inert)
      OBVIOUS
    <2>2. Emit(WithReg("POP", REG_RAX)) \in Inert
      BY InertEmits
    <2> QED
      BY <2>1, <2>2, InertMade, InertFew
  <1> HIDE DEF a, b, M
  <1>3. Piece(a, J) /\ a.do \notin Ends /\ a \in Tasks /\ b \in Tasks
    BY <1>1, InertPiece DEF Piece, TaskOK
  <1>4. L \in Seq(Tasks) /\ Len(L) = 2 /\ L[1] = a /\ L[2] = b
    BY <1>3
  <1> HIDE DEF L
  <1>5. \A i \in 1 .. Len(L) : i = 1 \/ i = 2
    BY <1>4
  <1>6. GoodList(L, {}, J)
    BY <1>1, <1>3, <1>4, <1>5 DEF GoodList, Piece, Ends, Waits
  <1>7. Counts(L, d) /\ Falls(d, Len(L) + 1) /\ d[1] = 1
    BY <1>1, <1>3, <1>4, <1>5 DEF Counts, Falls, Piece
  <1>8. Makes(L, {}, J, 1)
    BY <1>6, <1>7 DEF Makes, CallsIn
  <1>9. Makes(L \o M, {} \cup {}, J, 1 + 0)
    BY <1>2, <1>8, ConcatMade
  <1> QED
    BY <1>9 DEF L, M, a, b

LEMMA JoinMade ==
    ASSUME NEW S, NEW T, S \cap T = {}, NEW J, NEW A, NEW B, Makes(A, S, J, 0), Makes(B, T, J, 0)
    PROVE  Makes(A \o B, S \cup T, J, 0)
  <1>1. Makes(A \o B, S \cup T, J, 0 + 0)
    BY ConcatMade
  <1> QED
    BY <1>1

LEMMA MoveFrameMade ==
    ASSUME NEW op \in {"ADD", "SUB"}, frame_size \in Nat, NEW J
    PROVE  Makes(MoveFrame(op), {}, J, 0)
  <1> DEFINE a == Emit(WithReg("PUSH", REG_RDX))
             b == Emit(WithImm("PUSH", frame_size))
             c == Emit(Plain(op))
             d == Emit(WithReg("POP", REG_RDX))
  <1>1. a \in Inert /\ b \in Inert /\ c \in Inert /\ d \in Inert
    BY InertEmits
  <1>2. MoveFrame(op) = << a, b, c, d >>
    BY DEF MoveFrame
  <1> HIDE DEF a, b, c, d
  <1>3. MoveFrame(op) \in Seq(Inert)
    BY <1>1, <1>2
  <1> QED
    BY <1>3, InertMade

LEMMA CallMade ==
    ASSUME frame_size \in Nat, NEW n \in Nat, NEW J, NEW v \in J, v \in Int
    PROVE  Makes(MoveFrame("ADD") \o [i \in 1 .. n |-> Emit(WithMem("POP", REG_RDX, n - i))]
                   \o << Emit(WithImm("CALL", v)) >> \o MoveFrame("SUB"), {}, J, 0)
  <1> DEFINE A == MoveFrame("ADD")
             B == [i \in 1 .. n |-> Emit(WithMem("POP", REG_RDX, n - i))]
             c == Emit(WithImm("CALL", v))
             C == << c >>
             D == MoveFrame("SUB")
  <1>1. Makes(A, {}, J, 0) /\ Makes(D, {}, J, 0)
    BY MoveFrameMade
  <1>2. Makes(B, {}, J, 0)
    <2>1. \A i \in 1 .. n : Emit(WithMem("POP", REG_RDX, n - i)) \in Inert
      BY InertEmits
    <2>2. B \in Seq(Inert)
      BY <2>1
    <2> QED
      BY <2>2, InertMade
  <1>3. Piece(c, J) /\ c.do \notin Ends
    BY JumpPiece
  <1> HIDE DEF c
  <1>4. C \in Seq(Tasks) /\ Len(C) = 1 /\ C[1] = c
    BY <1>3 DEF Piece
  <1> HIDE DEF C
  <1>5. \A i \in 1 .. Len(C) : C[i] = c
    BY <1>4
  <1>6. GoodList(C, {}, J)
    BY <1>3, <1>4, <1>5 DEF GoodList, Piece
  <1>7. \A i \in 1 .. Len(C) : C[i].do # "call"
    BY <1>3, <1>5 DEF Piece
  <1>8. Makes(C, {}, J, 0)
    BY <1>4, <1>6, <1>7, NoCalls DEF Makes
  <1> HIDE DEF A, B, D
  <1>9. Makes(A \o B, {}, J, 0)
    BY <1>1, <1>2, JoinMade
  <1>10. Makes(A \o B \o C, {}, J, 0)
    BY <1>8, <1>9, JoinMade
  <1>11. Makes(A \o B \o C \o D, {}, J, 0)
    BY <1>1, <1>10, JoinMade
  <1> QED
    BY <1>11 DEF A, B, C, D, c
-----------------------------------------------------------------------------
(* What a step does.                                                       *)

\* The types, handlers that have the nodes they dereference, and an argument
\* counter for every call that is in progress.
TypeInv ==
    /\ TypeOK
    /\ \A i \in 1 .. Len(todo) : TaskOK(todo[i])
    /\ \E k : CallsIn(todo, k) /\ k <= Len(args_counters)

\* The labels that a step takes and the function that it begins; where its jumps
\* and calls lead.
Begins == (cur_label_index .. cur_label_index' - 1) \cup (IF AtNode("FUNC_DEF") THEN {-1} ELSE {})
LeadsTo ==
    {Target(l) : l \in cur_label_index .. cur_label_index' - 1}
      \cup (IF Head(todo).do = "call"
            THEN {addr_transl_translate(func_label_transl, Node.data)} ELSE {})

\* The current task is replaced by L, with k calls.
Expands(L, k) ==
    /\ status = "running" /\ status' = "running"
    /\ todo # << >> /\ Head(todo).do # "start_new_pass" /\ todo' = L \o Tail(todo)
    /\ cur_label_index' \in Nat /\ cur_label_index <= cur_label_index'
    /\ Makes(L, Begins, LeadsTo, k) /\ k \in Nat
    /\ args_counters' \in Seq(Nat)
    /\ Len(args_counters') + (IF Head(todo).do = "call" THEN 1 ELSE 0) = Len(args_counters) + k

\* The variable of a get_var_code is in no scope.
Undeclared == At_("get_var_code") /\ Slots(local_vars, Head(todo).num)
                                       \cup Slots(global_vars, Head(todo).num) = {}

Aborts == status' = "abort" /\ UNCHANGED << tree, pass_index, cur_label_index, scopes, transl,
                                             output, args_counters, todo >>

LEMMA HeadTask ==
    ASSUME TypeInv, todo # << >>
    PROVE  /\ Head(todo) \in Tasks /\ TaskOK(Head(todo)) /\ todo \in Seq(Tasks)
           /\ Tail(todo) \in Seq(Tasks) /\ Len(Tail(todo)) = Len(todo) - 1 /\ Head(todo) = todo[1]
           /\ \A i \in 1 .. Len(Tail(todo)) : Tail(todo)[i] = todo[i + 1]
           /\ Len(todo) \in Nat \ {0}
  BY DEF TypeInv, TypeOK

LEMMA ListOfOne ==
    ASSUME TypeInv, NEW h, At_(h), h # "start_new_pass", h # "call",
           UNCHANGED << status, cur_label_index, args_counters >>,
           ~AtNode("FUNC_DEF"), NEW L, \A J : Makes(L, {}, J, 0), Continue(L)
    PROVE  Expands(L, 0)
  <1>1. cur_label_index .. cur_label_index' - 1 = {} /\ cur_label_index \in Nat /\ args_counters \in Seq(Nat)
    BY DEF TypeInv, TypeOK
  <1>2. Begins = {}
    BY <1>1 DEF Begins
  <1>3. Makes(L, Begins, LeadsTo, 0)
    BY <1>2
  <1> QED
    BY <1>1, <1>3 DEF Expands, At_, Continue

LEMMA NodeAt ==
    ASSUME TypeInv, NEW type, AtNode(type)
    PROVE  Node \in Nodes /\ Node.type = type /\ At_("subtree_convert")
  <1>1. Head(todo) \in Tasks /\ Head(todo).do = "subtree_convert"
    BY HeadTask DEF AtNode, At_
  <1>2. Node \in MaybeNodes
    BY <1>1, TaskFields DEF Node
  <1> QED
    BY <1>2 DEF AtNode, MaybeNodes

LEMMA TargetTypes ==
    ASSUME TypeInv
    PROVE  /\ \A l : Target(l) \in Int
           /\ \A f : addr_transl_translate(func_label_transl, f) \in Int
  BY TranslateType DEF TypeInv, TypeOK, Target

LEMMA EmptyMade == \A J : Makes(<< >>, {}, J, 0)
  <1>1. << >> \in Seq(Inert)
    OBVIOUS
  <1> QED
    BY <1>1, InertMade

\* The handlers that put nothing in their place.
LEMMA NothingStep ==
    ASSUME TypeInv,
           \/ emit_instruction \/ register_numeric_label \/ register_function_label
           \/ ConvertNull \/ ConvertVarDef \/ Catch \/ LeaveFunc
    PROVE  Expands(<< >>, 0)
  <1>1. ~AtNode("FUNC_DEF")
    BY NodeAt DEF emit_instruction, register_numeric_label, register_function_label, ConvertNull,
                  ConvertVarDef, Catch, LeaveFunc, AtNode, At_
  <1>2. /\ \E h : At_(h) /\ h # "start_new_pass" /\ h # "call"
        /\ UNCHANGED << status, cur_label_index, args_counters >> /\ Continue(<< >>)
    BY DEF emit_instruction, register_numeric_label, register_function_label, ConvertNull,
           ConvertVarDef, Catch, LeaveFunc, AtNode, GoOn
  <1> QED
    BY <1>1, <1>2, EmptyMade, ListOfOne

LEMMA LookUpStep ==
    ASSUME TypeInv, get_var_code PROVE Undeclared \/ Expands(<< >>, 0)
  <1> SUFFICES ASSUME ~Undeclared PROVE Expands(<< >>, 0)
    OBVIOUS
  <1>1. ~AtNode("FUNC_DEF") /\ At_("get_var_code")
    BY DEF get_var_code, AtNode, At_
  <1>2. UNCHANGED << status, cur_label_index, args_counters >> /\ Continue(<< >>)
    BY DEF get_var_code, Undeclared
  <1> QED
    BY <1>1, <1>2, EmptyMade, ListOfOne

LEMMA ListStep ==
    ASSUME TypeInv, ConvertSimple \/ convert_op \/ emit_assig \/ convert_if
    PROVE  \E L : Expands(L, 0)
  <1>1. CASE ConvertSimple
    <2>1. PICK type \in {"FICTIOUS", "VAL", "VAR", "RETURN"} : AtNode(type)
      BY <1>1 DEF ConvertSimple
    <2>2. Node \in Nodes /\ Node.type = type /\ At_("subtree_convert")
      BY <2>1, NodeAt
    <2>3. \A J : Makes(SimpleTasks(Node), {}, J, 0)
      BY <2>2, SimpleMade
    <2>4. ~AtNode("FUNC_DEF")
      BY <2>2 DEF AtNode
    <2>5. UNCHANGED << status, cur_label_index, args_counters >> /\ Continue(SimpleTasks(Node))
      BY <1>1 DEF ConvertSimple, GoOn
    <2> QED
      BY <2>2, <2>3, <2>4, <2>5, ListOfOne
  <1>2. CASE convert_op
    <2>1. Node \in Nodes /\ Node.type = "OP" /\ At_("subtree_convert")
      BY <1>2, NodeAt DEF convert_op
    <2>2. \A J : Makes(OpTasks(Node), {}, J, 0)
      BY <2>1, OpMade
    <2>3. ~AtNode("FUNC_DEF")
      BY <2>1 DEF AtNode
    <2>4. UNCHANGED << status, cur_label_index, args_counters >> /\ Continue(OpTasks(Node))
      BY <1>2 DEF convert_op, GoOn
    <2> QED
      BY <2>1, <2>2, <2>3, <2>4, ListOfOne
  <1>3. CASE emit_assig
    <2> DEFINE L == << Emit(Plain("POP")), GetVarCode(Node.data), Mark("catch") >>
    <2>1. At_("emit_assig") /\ ~AtNode("FUNC_DEF")
      BY <1>3 DEF emit_assig, AtNode, At_
    <2>2. Node \in Nodes /\ Node.type = "VAR"
      BY <2>1, HeadTask DEF TaskOK, At_, Node
    <2>3. Node.data \in Int
      BY <2>2, NodeFacts
    <2>4. \A J : Makes(L, {}, J, 0)
      BY <2>3, AssigMade
    <2>5. UNCHANGED << status, cur_label_index, args_counters >> /\ Continue(L)
      BY <1>3 DEF emit_assig, GoOn
    <2> HIDE DEF L
    <2> QED
      BY <2>1, <2>4, <2>5, ListOfOne
  <1>4. CASE convert_if
    <2> DEFINE L == << Convert(Node.left, TRUE), Emit(WithImm("PUSH", 0)), Rest("if", Node.right) >>
    <2>1. Node \in Nodes /\ Node.type = "IF" /\ At_("subtree_convert")
      BY <1>4, NodeAt DEF convert_if
    <2>2. \A J : Makes(L, {}, J, 0)
      BY <2>1, IfMade
    <2>3. ~AtNode("FUNC_DEF")
      BY <2>1 DEF AtNode
    <2>4. UNCHANGED << status, cur_label_index, args_counters >> /\ Continue(L)
      BY <1>4 DEF convert_if, GoOn
    <2> HIDE DEF L
    <2> QED
      BY <2>1, <2>2, <2>3, <2>4, ListOfOne
  <1> QED
    BY <1>1, <1>2, <1>3, <1>4

\* The handlers that take labels.
LEMMA LabelStep ==
    ASSUME TypeInv, NEW h, At_(h), h # "start_new_pass", h # "call", ~AtNode("FUNC_DEF"),
           UNCHANGED << status, args_counters >>, NEW L, Continue(L), NEW n \in {1, 2}, GetLabels(n),
           \A J : (\A l \in cur_label_index .. cur_label_index + n - 1 : Target(l) \in J)
                   => Makes(L, cur_label_index .. cur_label_index + n - 1, J, 0)
    PROVE  Expands(L, 0)
  <1>1. cur_label_index \in Nat /\ args_counters \in Seq(Nat) /\ cur_label_index' = cur_label_index + n
    BY DEF TypeInv, TypeOK, GetLabels
  <1>2. Begins = cur_label_index .. cur_label_index + n - 1
    BY <1>1 DEF Begins
  <1>3. \A l \in cur_label_index .. cur_label_index + n - 1 : Target(l) \in LeadsTo
    BY <1>1 DEF LeadsTo
  <1>4. Makes(L, Begins, LeadsTo, 0)
    BY <1>2, <1>3
  <1> QED
    BY <1>1, <1>4 DEF Expands, At_, Continue

LEMMA TwoLabels ==
    ASSUME TypeInv
    PROVE  /\ cur_label_index \in Nat
           /\ cur_label_index .. cur_label_index + 2 - 1 = {cur_label_index, cur_label_index + 1}
           /\ cur_label_index .. cur_label_index + 1 - 1 = {cur_label_index, cur_label_index}
  BY DEF TypeInv, TypeOK

LEMMA TrueFalseStep ==
    ASSUME TypeInv, emit_push_true_false PROVE \E L : Expands(L, 0)
  <1> DEFINE l == cur_label_index
             s == Target(l)
             t == Target(l + 1)
             j == Head(todo).jmp_type
             L == << Emit(WithImm(j, s)), Emit(WithImm("PUSH", 0)), Emit(WithImm("JMP", t)), Label(l),
                     Emit(WithImm("PUSH", 1)), Label(l + 1) >>
  <1>1. At_("push_true_false") /\ ~AtNode("FUNC_DEF")
    BY DEF emit_push_true_false, AtNode, At_
  <1>2. j \in Jumps
    BY <1>1, HeadTask, TaskFields DEF At_
  <1>3. s \in Int /\ t \in Int /\ l \in Nat
    BY TargetTypes, TwoLabels
  <1>4. \A J : s \in J /\ t \in J => Makes(L, {l, l + 1}, J, 0)
    BY <1>2, <1>3, TrueFalseMade
  <1>5. UNCHANGED << status, args_counters >> /\ Continue(L) /\ GetLabels(2)
    BY DEF emit_push_true_false
  <1> HIDE DEF L
  <1>6. \A J : (\A k \in l .. l + 2 - 1 : Target(k) \in J) => Makes(L, l .. l + 2 - 1, J, 0)
    BY <1>4, TwoLabels
  <1> QED
    BY <1>1, <1>5, <1>6, LabelStep

LEMMA BranchesStep ==
    ASSUME TypeInv, ConvertBranches PROVE \E L : Expands(L, 0)
  <1> DEFINE l == cur_label_index
             s == Target(l)
             t == Target(l + 1)
  <1>1. At_("if") /\ ~AtNode("FUNC_DEF")
    BY DEF ConvertBranches, AtNode, At_
  <1>2. Node \in Nodes
    BY <1>1, HeadTask DEF TaskOK, At_, Node
  <1>3. s \in Int /\ t \in Int /\ l \in Nat
    BY TargetTypes, TwoLabels
  <1>4. UNCHANGED << status, args_counters >>
    BY DEF ConvertBranches
  <1>5. CASE Node.left # nullptr
    <2> DEFINE L == << Emit(WithImm("JE", t)), Convert(Node.left, TRUE), Emit(WithImm("JMP", s)),
                       Label(l + 1), Convert(Node.right, TRUE), Label(l) >>
    <2>1. \A J : s \in J /\ t \in J => Makes(L, {l, l + 1}, J, 0)
      BY <1>2, <1>3, BothBranchesMade
    <2>2. Continue(L) /\ GetLabels(2)
      BY <1>5 DEF ConvertBranches
    <2> HIDE DEF L
    <2>3. \A J : (\A k \in l .. l + 2 - 1 : Target(k) \in J) => Makes(L, l .. l + 2 - 1, J, 0)
      BY <2>1, TwoLabels
    <2> QED
      BY <1>1, <1>4, <2>2, <2>3, LabelStep
  <1>6. CASE Node.left = nullptr
    <2> DEFINE L == << Emit(WithImm("JE", s)), Convert(Node.right, TRUE), Label(l) >>
    <2>1. \A J : s \in J => Makes(L, {l, l}, J, 0)
      BY <1>2, <1>3, OneBranchMade
    <2>2. Continue(L) /\ GetLabels(1)
      BY <1>6 DEF ConvertBranches
    <2> HIDE DEF L
    <2>3. \A J : (\A k \in l .. l + 1 - 1 : Target(k) \in J) => Makes(L, l .. l + 1 - 1, J, 0)
      BY <2>1, TwoLabels
    <2> QED
      BY <1>1, <1>4, <2>2, <2>3, LabelStep
  <1> QED
    BY <1>5, <1>6

LEMMA WhileStep ==
    ASSUME TypeInv, convert_while PROVE \E L : Expands(L, 0)
  <1> DEFINE l == cur_label_index
             s == Target(l)
             t == Target(l + 1)
             L == << Label(l), Convert(Node.left, TRUE), Emit(WithImm("PUSH", 0)), Emit(WithImm("JE", t)),
                     Convert(Node.right, TRUE), Emit(WithImm("JMP", s)), Label(l + 1) >>
  <1>1. Node \in Nodes /\ Node.type = "WHILE" /\ At_("subtree_convert")
    BY NodeAt DEF convert_while
  <1>2. ~AtNode("FUNC_DEF")
    BY <1>1 DEF AtNode
  <1>3. s \in Int /\ t \in Int /\ l \in Nat
    BY TargetTypes, TwoLabels
  <1>4. \A J : s \in J /\ t \in J => Makes(L, {l, l + 1}, J, 0)
    BY <1>1, <1>3, WhileMade
  <1>5. UNCHANGED << status, args_counters >> /\ Continue(L) /\ GetLabels(2)
    BY DEF convert_while
  <1> HIDE DEF L
  <1>6. \A J : (\A k \in l .. l + 2 - 1 : Target(k) \in J) => Makes(L, l .. l + 2 - 1, J, 0)
    BY <1>4, TwoLabels
  <1> QED
    BY <1>1, <1>2, <1>5, <1>6, LabelStep

LEMMA FuncDefStep ==
    ASSUME TypeInv, convert_func_def PROVE \E L : Expands(L, 0)
  <1> DEFINE l == cur_label_index
             s == Target(l)
             L == << Emit(WithImm("JMP", s)), FunctionLabel(Node.data), Rest("def_args", Node.left),
                     Convert(Node.right, TRUE), Label(l), Mark("leave_func") >>
  <1>1. Node \in Nodes /\ Node.type = "FUNC_DEF" /\ At_("subtree_convert") /\ AtNode("FUNC_DEF")
    BY NodeAt DEF convert_func_def
  <1>2. s \in Int /\ l \in Nat /\ args_counters \in Seq(Nat)
    BY TargetTypes, TwoLabels DEF TypeInv, TypeOK
  <1>3. \A J : s \in J => Makes(L, {l, -1}, J, 0)
    BY <1>1, <1>2, FuncDefMade
  <1>4. UNCHANGED << status, args_counters >> /\ Continue(L) /\ cur_label_index' = l + 1
    BY DEF convert_func_def, GetLabels
  <1> HIDE DEF L
  <1>5. Begins = {l, -1} /\ s \in LeadsTo
    BY <1>1, <1>2, <1>4 DEF Begins, LeadsTo
  <1>6. Makes(L, Begins, LeadsTo, 0)
    BY <1>3, <1>5
  <1>7. Expands(L, 0)
    BY <1>1, <1>2, <1>4, <1>6 DEF Expands, At_, Continue
  <1> QED
    BY <1>7

\* Parameters, and the counters of the arguments.
LEMMA DefArgsStep ==
    ASSUME TypeInv, convert_func_def_args PROVE Aborts \/ \E L : Expands(L, 0)
  <1>1. At_("def_args") /\ ~AtNode("FUNC_DEF") /\ UNCHANGED << args_counters, cur_label_index >>
    BY DEF convert_func_def_args, AtNode, At_
  <1>2. CASE Node # nullptr /\ Node.type \notin {"FICTIOUS", "VAR"}
    BY <1>2 DEF convert_func_def_args, Aborts
  <1>3. CASE Node = nullptr \/ Node.type = "VAR"
    <2>1. Continue(<< >>) /\ UNCHANGED status
      BY <1>3 DEF convert_func_def_args
    <2> QED
      BY <1>1, <2>1, EmptyMade, ListOfOne
  <1>4. CASE Node # nullptr /\ Node.type = "FICTIOUS"
    <2> DEFINE L == << Rest("def_args", Node.left), Rest("def_args", Node.right) >>
    <2>1. Node \in MaybeNodes
      BY <1>1, HeadTask, TaskFields DEF At_, Node
    <2>2. Node \in Nodes
      BY <1>4, <2>1 DEF MaybeNodes
    <2>3. Rest("def_args", Node.left) \in Inert /\ Rest("def_args", Node.right) \in Inert
      BY <2>2, NodeFacts, InertTasks
    <2>4. \A J : Makes(L, {}, J, 0)
      BY <2>3, InertFew
    <2>5. Continue(L) /\ UNCHANGED status
      BY <1>4 DEF convert_func_def_args
    <2> HIDE DEF L
    <2> QED
      BY <1>1, <2>4, <2>5, ListOfOne
  <1> QED
    BY <1>2, <1>3, <1>4

LEMMA FuncCallStep ==
    ASSUME TypeInv, ConvertFuncCall PROVE \E L : Expands(L, 1)
  <1> DEFINE L == << Rest("call_args", Node.right), Rest("call", Node) >>
                    \o (IF Head(todo).result_used THEN << >> ELSE << Emit(WithReg("POP", REG_RAX)) >>)
  <1>1. Node \in Nodes /\ Node.type = "FUNC_CALL" /\ At_("subtree_convert")
    BY NodeAt DEF ConvertFuncCall
  <1>2. cur_label_index \in Nat /\ args_counters \in Seq(Nat)
    BY DEF TypeInv, TypeOK
  <1>3. \A J : Makes(L, {}, J, 1)
    BY <1>1, FuncCallMade
  <1>4. /\ UNCHANGED << status, cur_label_index >> /\ Continue(L)
        /\ args_counters' = << 0 >> \o args_counters
    BY DEF ConvertFuncCall
  <1> HIDE DEF L
  <1>5. args_counters' \in Seq(Nat) /\ Len(args_counters') = Len(args_counters) + 1
    BY <1>2, <1>4
  <1>6. Begins = {}
    BY <1>1, <1>2, <1>4 DEF Begins, AtNode
  <1>7. Makes(L, Begins, LeadsTo, 1)
    BY <1>3, <1>6
  <1>8. Expands(L, 1)
    BY <1>1, <1>2, <1>4, <1>5, <1>7 DEF Expands, At_, Continue
  <1> QED
    BY <1>8

LEMMA CallArgsStep ==
    ASSUME TypeInv, convert_func_call_args PROVE \E L : Expands(L, 0)
  <1>1. /\ At_("call_args") /\ ~AtNode("FUNC_DEF") /\ UNCHANGED << status, cur_label_index >>
        /\ cur_label_index \in Nat /\ args_counters \in Seq(Nat)
    BY DEF convert_func_call_args, AtNode, At_, TypeInv, TypeOK
  <1>2. Node \in MaybeNodes
    BY <1>1, HeadTask, TaskFields DEF At_, Node
  <1>3. CASE Node = nullptr
    <2>1. Continue(<< >>) /\ UNCHANGED args_counters
      BY <1>3 DEF convert_func_call_args
    <2> QED
      BY <1>1, <2>1, EmptyMade, ListOfOne
  <1>4. CASE Node # nullptr /\ Node.type = "FICTIOUS"
    <2> DEFINE L == << Rest("call_args", Node.left), Rest("call_args", Node.right) >>
    <2>1. Node \in Nodes
      BY <1>2, <1>4 DEF MaybeNodes
    <2>2. Rest("call_args", Node.left) \in Inert /\ Rest("call_args", Node.right) \in Inert
      BY <2>1, NodeFacts, InertTasks
    <2>3. \A J : Makes(L, {}, J, 0)
      BY <2>2, InertFew
    <2>4. Continue(L) /\ UNCHANGED args_counters
      BY <1>4 DEF convert_func_call_args
    <2> HIDE DEF L
    <2> QED
      BY <1>1, <2>3, <2>4, ListOfOne
  <1>5. CASE Node # nullptr /\ Node.type # "FICTIOUS"
    <2> DEFINE L == << Convert(Node, TRUE), Mark("catch") >>
               M == << Used(Node), Mark("catch") >>
    <2>1. Used(Node) \in Inert /\ Mark("catch") \in Inert
      BY <1>2, InertTasks
    <2>2. \A J : Makes(M, {}, J, 0)
      BY <2>1, InertFew
    <2>3. L = M
      BY DEF Used
    <2>4. Continue(L)
      BY <1>5 DEF convert_func_call_args
    <2>9. args_counters' = [args_counters EXCEPT ![1] = @ + 1]
      BY <1>5 DEF convert_func_call_args
    <2> HIDE DEF L, M
    <2>5. args_counters' \in Seq(Nat) /\ Len(args_counters') = Len(args_counters)
      <3>1. args_counters' = [i \in 1 .. Len(args_counters) |->
                                IF i = 1 THEN args_counters[1] + 1 ELSE args_counters[i]]
        <4>1. DOMAIN args_counters = 1 .. Len(args_counters)
          BY <1>1
        <4>2. args_counters' = [i \in DOMAIN args_counters |->
                                  IF i = 1 THEN args_counters[1] + 1 ELSE args_counters[i]]
          BY <2>9, Zenon
        <4> QED
          BY <4>1, <4>2
      <3> QED
        BY <1>1, <3>1
    <2>6. Begins = {}
      BY <1>1 DEF Begins
    <2>7. Makes(L, Begins, LeadsTo, 0)
      BY <2>2, <2>3, <2>6
    <2>8. Expands(L, 0)
      BY <1>1, <2>4, <2>5, <2>7 DEF Expands, At_, Continue
    <2> QED
      BY <2>8
  <1> QED
    BY <1>3, <1>4, <1>5

LEMMA CallStep ==
    ASSUME TypeInv, convert_func_call PROVE \E L : Expands(L, 0)
  <1> DEFINE n == Head(args_counters)
             v == addr_transl_translate(func_label_transl, Node.data)
             L == MoveFrame("ADD") \o [i \in 1 .. n |-> Emit(WithMem("POP", REG_RDX, n - i))]
                    \o << Emit(WithImm("CALL", v)) >> \o MoveFrame("SUB")
  <1>1. /\ At_("call") /\ ~AtNode("FUNC_DEF") /\ UNCHANGED << status, cur_label_index >>
        /\ cur_label_index \in Nat /\ args_counters \in Seq(Nat) /\ frame_size \in Nat
        /\ todo \in Seq(Tasks)
    BY DEF convert_func_call, AtNode, At_, TypeInv, TypeOK
  <1>2. args_counters # << >>
    <2>1. PICK k : CallsIn(todo, k) /\ k <= Len(args_counters)
      BY DEF TypeInv
    <2>2. k \in Nat /\ k >= 1
      BY <1>1, <2>1, TailCalls DEF At_
    <2> QED
      BY <1>1, <2>1, <2>2
  <1>3. n \in Nat /\ v \in Int
    BY <1>1, <1>2, TargetTypes
  <1>4. \A J : v \in J => Makes(L, {}, J, 0)
    BY <1>1, <1>3, CallMade
  <1>5. Continue(L) /\ args_counters' = Tail(args_counters)
    BY DEF convert_func_call
  <1> HIDE DEF L
  <1>6. args_counters' \in Seq(Nat) /\ Len(args_counters') + 1 = Len(args_counters)
    BY <1>1, <1>2, <1>5
  <1>7. Begins = {} /\ v \in LeadsTo
    BY <1>1 DEF Begins, LeadsTo, At_
  <1>8. Makes(L, Begins, LeadsTo, 0)
    BY <1>4, <1>7
  <1>9. Expands(L, 0)
    BY <1>1, <1>5, <1>6, <1>8 DEF Expands, At_, Continue
  <1> QED
    BY <1>9

\* Every step leaves things as they are, ends the work, or replaces a task.
LEMMA Steps ==
    ASSUME TypeInv, Next
    PROVE  \/ UNCHANGED vars
           \/ Aborts
           \/ start_new_pass
           \/ get_var_code /\ Undeclared
           \/ \E L, k : Expands(L, k)
  <1>1. CASE ConvertElse
    BY <1>1 DEF ConvertElse, Aborts
  <1>2. CASE OperandsDone
    <2>1. CASE Aborts
      BY <2>1
    <2>2. CASE ~Aborts
      <3>1. /\ At_("operands_done") /\ ~AtNode("FUNC_DEF")
            /\ UNCHANGED << status, cur_label_index, args_counters >>
            /\ Continue(<< >>)
        BY <1>2, <2>2 DEF OperandsDone, Aborts, AtNode, At_
      <3>2. Expands(<< >>, 0)
        BY <3>1, EmptyMade, ListOfOne
      <3> QED
        BY <3>2
    <2> QED
      BY <2>1, <2>2
  <1>3. CASE Terminated
    BY <1>3 DEF Terminated
  <1> QED
    BY <1>1, <1>2, <1>3, NothingStep, LookUpStep, ListStep, TrueFalseStep, BranchesStep, WhileStep,
       FuncDefStep, DefArgsStep, FuncCallStep, CallArgsStep, CallStep DEF Next
-----------------------------------------------------------------------------
(* The types.                                                              *)

\* What both passes begin with.
LEMMA PassList ==
    ASSUME tree \in Trees
    PROVE  /\ PassTasks \in Seq(Tasks) /\ Len(PassTasks) = 5
           /\ \A i \in 1 .. 4 : PassTasks[i] \in Inert
           /\ PassTasks[3] = Unused(tree) /\ PassTasks[4] = Emit(Plain("HALT"))
           /\ PassTasks[5] = Mark("start_new_pass")
           /\ \A i \in 1 .. Len(PassTasks) : TaskOK(PassTasks[i]) /\ ~Waits(PassTasks[i])
           /\ CallsIn(PassTasks, 0)
  <1> DEFINE a == Emit(WithImm("PUSH", 0))
             b == Emit(WithReg("POP", REG_RDX))
             c == Unused(tree)
             d == Emit(Plain("HALT"))
             e == Mark("start_new_pass")
             L == << a, b, c, d, e >>
  <1>1. PassTasks = L
    BY DEF PassTasks, Unused
  <1>2. tree \in MaybeNodes
    BY TreesAssumption DEF MaybeNodes
  <1>3. a \in Inert /\ b \in Inert /\ c \in Inert /\ d \in Inert
    BY <1>2, InertEmits, InertTasks
  <1>4. e \in Tasks /\ e.do = "start_new_pass"
    BY DEF Mark, Tasks
  <1> HIDE DEF a, b, c, d, e
  <1>5. a \in Tasks /\ b \in Tasks /\ c \in Tasks /\ d \in Tasks
    BY <1>3 DEF Inert
  <1>6. /\ L \in Seq(Tasks) /\ Len(L) = 5
        /\ L[1] = a /\ L[2] = b /\ L[3] = c /\ L[4] = d /\ L[5] = e
    BY <1>4, <1>5
  <1> HIDE DEF L
  <1>7. \A i \in 1 .. Len(L) : i = 1 \/ i = 2 \/ i = 3 \/ i = 4 \/ i = 5
    BY <1>6
  <1>8. \A i \in 1 .. 4 : L[i] \in Inert
    BY <1>3, <1>6, <1>7
  <1>9. TaskOK(e) /\ ~Waits(e) /\ e.do # "call"
    BY <1>4 DEF TaskOK, Waits
  <1>10. \A x \in Inert : TaskOK(x) /\ ~Waits(x) /\ x.do # "call"
    BY DEF Inert, Waits
  <1>11. \A i \in 1 .. Len(L) : TaskOK(L[i]) /\ ~Waits(L[i]) /\ L[i].do # "call"
    BY <1>6, <1>7, <1>8, <1>9, <1>10
  <1>12. CallsIn(L, 0)
    BY <1>6, <1>11, NoCalls
  <1> QED
    BY <1>1, <1>6, <1>8, <1>11, <1>12 DEF c, d, e

LEMMA SlotTypes ==
    ASSUME NEW names \in Seq(Int), NEW v, Slots(names, v) # {}
    PROVE  FirstSlot(names, v) \in 0 .. Len(names) - 1 /\ names[FirstSlot(names, v) + 1] = v
  <1> DEFINE S == Slots(names, v)
             f == CHOOSE i \in S : \A j \in S : i <= j
  <1>1. S \subseteq 1 .. Len(names) /\ \A i \in S : names[i] = v
    BY DEF Slots
  <1>5. S # {} /\ S \subseteq Nat
    BY <1>1
  <1> HIDE DEF S
  <1>2. \E i \in S : \A j \in S : i <= j
    BY <1>5, LeastMember
  <1>3. f \in S
    BY <1>2
  <1>4. FirstSlot(names, v) = f - 1
    BY DEF FirstSlot, S
  <1> HIDE DEF f
  <1> QED
    BY <1>1, <1>3, <1>4

LEMMA OperandType ==
    ASSUME TypeOK, NEW v, Slots(local_vars, v) \cup Slots(global_vars, v) # {}, NEW i \in Instr
    PROVE  /\ Operand(i, v) \in Instr /\ Filled(Operand(i, v)) /\ Operand(i, v).type = i.type
           /\ i.type \in {"PUSH", "POP"} => ~IsTransfer(Operand(i, v))
  <1>1. i.type \in InstrTypes /\ REG_RDX \in 0 .. 3
    BY DEF Instr, REG_RDX
  <1>2. CASE Slots(local_vars, v) # {}
    <2>1. FirstSlot(local_vars, v) \in Int
      BY <1>2, SlotTypes DEF TypeOK
    <2>2. Operand(i, v) = WithMem(i.type, REG_RDX, FirstSlot(local_vars, v))
      BY <1>2 DEF Operand
    <2>3. Operand(i, v) \in Instr /\ Filled(Operand(i, v))
      BY <1>1, <2>1, <2>2, InstrFacts
    <2>4. Operand(i, v).type = i.type
      BY <2>2 DEF WithMem, WithImm, Plain
    <2> QED
      BY <2>3, <2>4 DEF IsTransfer, Jumps
  <1>3. CASE Slots(local_vars, v) = {}
    <2> DEFINE w == WithImm(i.type, FirstSlot(global_vars, v))
    <2>1. FirstSlot(global_vars, v) \in Int
      BY <1>3, SlotTypes DEF TypeOK
    <2>2. Operand(i, v) = [w EXCEPT !.need_mem_arg = TRUE]
      BY <1>3 DEF Operand
    <2>3. w \in Instr /\ Filled(w)
      BY <1>1, <2>1, InstrFacts
    <2>4. w.type = i.type
      BY DEF WithImm, Plain
    <2> HIDE DEF w
    <2>5. Operand(i, v) \in Instr /\ Filled(Operand(i, v)) /\ Operand(i, v).type = i.type
      BY <2>2, <2>3, <2>4 DEF Instr, Filled
    <2> QED
      BY <2>5 DEF IsTransfer, Jumps
  <1> QED
    BY <1>2, <1>3

\* The variables that a task does not have to do with.
FieldsOK ==
    /\ tree \in Trees /\ pass_index \in {PASS_INDEX_TO_CALC_OFFSETS, PASS_INDEX_TO_WRITE}
    /\ cur_label_index \in Nat /\ current_instruction_index \in Nat
    /\ frame_size \in Nat /\ global_frame_size_store \in Nat /\ in_func \in BOOLEAN
    /\ global_vars \in Seq(Int) /\ local_vars \in Seq(Int)
    /\ indexed_label_transl \in Translators /\ func_label_transl \in Translators
    /\ ir_code \in Seq(Instr)

\* What update_last_instruction_args leaves of the code.
LEMMA LastReplaced ==
    ASSUME NEW c \in Seq(Instr), NEW x \in Instr
    PROVE  /\ [c EXCEPT ![Len(c)] = x] \in Seq(Instr)
           /\ Len([c EXCEPT ![Len(c)] = x]) = Len(c)
           /\ \A i \in 1 .. Len(c) : [c EXCEPT ![Len(c)] = x][i] = IF i = Len(c) THEN x ELSE c[i]
  <1> DEFINE d == [c EXCEPT ![Len(c)] = x]
  <1>1. DOMAIN c = 1 .. Len(c) /\ Len(c) \in Nat /\ \A i \in 1 .. Len(c) : c[i] \in Instr
    OBVIOUS
  <1>2. d = [i \in DOMAIN c |-> IF i = Len(c) THEN x ELSE c[i]]
    BY Zenon
  <1>3. d = [i \in 1 .. Len(c) |-> IF i = Len(c) THEN x ELSE c[i]]
    BY <1>1, <1>2
  <1> HIDE DEF d
  <1>6. d \in [1 .. Len(c) -> Instr]
    BY <1>1, <1>3
  <1>7. ASSUME NEW n \in Nat, NEW f \in [1 .. n -> Instr] PROVE f \in Seq(Instr) /\ Len(f) = n
    OBVIOUS
  <1>4. d \in Seq(Instr) /\ Len(d) = Len(c)
    BY <1>1, <1>6, <1>7
  <1>5. \A i \in 1 .. Len(c) : d[i] = IF i = Len(c) THEN x ELSE c[i]
    BY <1>3
  <1> QED
    BY <1>4, <1>5 DEF d

LEMMA LookUpCode ==
    ASSUME TypeInv, get_var_code, ~Undeclared
    PROVE  /\ ir_code' \in Seq(Instr) /\ Len(ir_code') = Len(ir_code)
           /\ \A i \in 1 .. Len(ir_code) :
                 \/ ir_code'[i] = ir_code[i]
                 \/ /\ i = Len(ir_code) /\ Filled(ir_code'[i])
                    /\ ir_code'[i].type = ir_code[i].type
           /\ pass_index = PASS_INDEX_TO_WRITE /\ Len(ir_code) > 0 => Filled(ir_code'[Len(ir_code)])
  <1> DEFINE v == Head(todo).num
             n == Len(ir_code)
             x == Operand(ir_code[n], v)
  <1>1. Slots(local_vars, v) \cup Slots(global_vars, v) # {}
    BY DEF Undeclared, get_var_code
  <1>2. ir_code \in Seq(Instr) /\ n \in Nat /\ TypeOK
    BY DEF TypeInv, TypeOK
  <1>3. ir_code' = IF pass_index = PASS_INDEX_TO_WRITE THEN [ir_code EXCEPT ![n] = x] ELSE ir_code
    BY <1>1 DEF get_var_code
  <1>4. CASE n = 0
    <2>1. [ir_code EXCEPT ![n] = x] = ir_code
      <3>1. DOMAIN ir_code = {}
        BY <1>2, <1>4
      <3>2. [ir_code EXCEPT ![n] = x] = [i \in DOMAIN ir_code |-> IF i = n THEN x ELSE ir_code[i]]
        BY Zenon
      <3>3. ir_code = [i \in DOMAIN ir_code |-> ir_code[i]]
        BY <1>2
      <3> QED
        BY <3>1, <3>2, <3>3
    <2>2. ir_code' = ir_code
      BY <1>3, <2>1, Zenon
    <2> QED
      BY <1>2, <1>4, <2>2
  <1>5. CASE n > 0
    <2>1. ir_code[n] \in Instr
      BY <1>2, <1>5
    <2>2. x \in Instr /\ Filled(x) /\ x.type = ir_code[n].type
      BY <1>1, <1>2, <2>1, OperandType
    <2> DEFINE y == [ir_code EXCEPT ![n] = x]
    <2> HIDE DEF x
    <2>3. /\ y \in Seq(Instr) /\ Len(y) = n
          /\ \A i \in 1 .. n : y[i] = IF i = n THEN x ELSE ir_code[i]
      BY <1>2, <2>2, LastReplaced
    <2>4. ir_code' = IF pass_index = PASS_INDEX_TO_WRITE THEN y ELSE ir_code
      BY <1>3
    <2> HIDE DEF y
    <2>5. CASE pass_index = PASS_INDEX_TO_WRITE
      <3>1. ir_code' = y
        BY <2>4, <2>5
      <3>2. y[n] = x
        BY <1>2, <1>5, <2>3
      <3>3. ASSUME NEW i \in 1 .. n
            PROVE  y[i] = ir_code[i] \/ (i = n /\ Filled(y[i]) /\ y[i].type = ir_code[i].type)
        <4>1. CASE i = n
          BY <2>2, <3>2, <4>1
        <4>2. CASE i # n
          BY <2>3, <4>2
        <4> QED
          BY <4>1, <4>2
      <3>4. y \in Seq(Instr) /\ Len(y) = n /\ Filled(y[n])
        BY <2>2, <2>3, <3>2
      <3> QED
        BY <3>1, <3>3, <3>4
    <2>6. CASE pass_index # PASS_INDEX_TO_WRITE
      BY <1>2, <2>4, <2>6
    <2> QED
      BY <2>5, <2>6
  <1> QED
    BY <1>2, <1>4, <1>5

LEMMA TaskNum ==
    ASSUME TypeInv, NEW h \in {"numeric_label", "function_label", "get_var_code"}, At_(h)
    PROVE  Head(todo).num \in Int
  BY HeadTask, TaskFields DEF At_

LEMMA RegisterVarTypes ==
    ASSUME TypeInv, NEW v \in Int, register_var(v)
    PROVE  /\ frame_size' \in Nat /\ global_frame_size_store' \in Nat /\ in_func' \in BOOLEAN
           /\ global_vars' \in Seq(Int) /\ local_vars' \in Seq(Int)
  <1>1. /\ frame_size \in Nat /\ global_frame_size_store \in Nat /\ in_func \in BOOLEAN
        /\ global_vars \in Seq(Int) /\ local_vars \in Seq(Int)
    BY DEF TypeInv, TypeOK
  <1>2. Append(global_vars, v) \in Seq(Int) /\ Append(local_vars, v) \in Seq(Int)
    BY <1>1
  <1>3. /\ frame_size' = frame_size + 1 /\ in_func' = in_func
        /\ global_frame_size_store' = global_frame_size_store
    BY DEF register_var
  <1>4. \/ local_vars' = Append(local_vars, v) /\ global_vars' = global_vars
        \/ global_vars' = Append(global_vars, v) /\ local_vars' = local_vars
    BY DEF register_var
  <1>5. in_func' \in BOOLEAN
    BY <1>1, <1>3, Zenon
  <1>6. global_vars' \in Seq(Int) /\ local_vars' \in Seq(Int)
    BY <1>1, <1>2, <1>4, Zenon
  <1> QED
    BY <1>1, <1>3, <1>5, <1>6

\* The steps that change the variables.
LEMMA FieldSteps ==
    ASSUME TypeInv,
           \/ emit_instruction \/ register_numeric_label \/ register_function_label
           \/ start_new_pass \/ get_var_code \/ ConvertVarDef
           \/ convert_func_def \/ convert_func_def_args \/ LeaveFunc
    PROVE  FieldsOK'
  <1> USE DEF FieldsOK, TypeInv, TypeOK, scopes, transl, output
  <1>1. CASE emit_instruction
    <2>1. Head(todo).ins \in Instr
      BY <1>1, HeadTask, TaskFields DEF emit_instruction, At_
    <2>2. Append(ir_code, Head(todo).ins) \in Seq(Instr)
      BY <2>1
    <2>3. ir_code' \in Seq(Instr) /\ current_instruction_index' \in Nat
      <3>1. CASE pass_index = PASS_INDEX_TO_CALC_OFFSETS
        BY <1>1, <3>1 DEF emit_instruction
      <3>2. CASE pass_index # PASS_INDEX_TO_CALC_OFFSETS
        BY <1>1, <2>2, <3>2 DEF emit_instruction, code_insert
      <3> QED
        BY <3>1, <3>2
    <2> QED
      BY <1>1, <2>3 DEF emit_instruction
  <1>2. CASE register_numeric_label
    <2>1. Head(todo).num \in Int
      BY <1>2, TaskNum DEF register_numeric_label
    <2>2. indexed_label_transl' \in Translators
      <3>1. indexed_label_transl \in Translators /\ current_instruction_index \in Int
        OBVIOUS
      <3>2. CASE pass_index = PASS_INDEX_TO_CALC_OFFSETS
        <4>1. PICK o \in addr_transl_insert(indexed_label_transl, Head(todo).num, current_instruction_index) :
                 indexed_label_transl' = o.t
          BY <1>2, <3>2 DEF register_numeric_label
        <4>2. o.t \in Translators
          <5> HIDE DEF FieldsOK, TypeInv, TypeOK, scopes, transl, output
          <5> QED
            BY <2>1, <3>1, <4>1, InsertResult
        <4> QED
          BY <4>1, <4>2
      <3>3. CASE pass_index # PASS_INDEX_TO_CALC_OFFSETS
        BY <1>2, <3>1, <3>3 DEF register_numeric_label
      <3> QED
        BY <3>2, <3>3
    <2> QED
      BY <1>2, <2>2 DEF register_numeric_label
  <1>3. CASE register_function_label
    <2>1. Head(todo).num \in Int
      BY <1>3, TaskNum DEF register_function_label
    <2>2. func_label_transl' \in Translators
      <3>1. func_label_transl \in Translators /\ current_instruction_index \in Int
        OBVIOUS
      <3>2. CASE pass_index = PASS_INDEX_TO_CALC_OFFSETS
        <4>1. PICK o \in addr_transl_insert(func_label_transl, Head(todo).num, current_instruction_index) :
                 func_label_transl' = o.t
          BY <1>3, <3>2 DEF register_function_label
        <4>2. o.t \in Translators
          <5> HIDE DEF FieldsOK, TypeInv, TypeOK, scopes, transl, output
          <5> QED
            BY <2>1, <3>1, <4>1, InsertResult
        <4> QED
          BY <4>1, <4>2
      <3>3. CASE pass_index # PASS_INDEX_TO_CALC_OFFSETS
        BY <1>3, <3>1, <3>3 DEF register_function_label
      <3> QED
        BY <3>2, <3>3
    <2> QED
      BY <1>3, <2>2 DEF register_function_label
  <1>4. CASE start_new_pass
    BY <1>4 DEF start_new_pass, TOTAL_PASS_COUNT, PASS_INDEX_TO_CALC_OFFSETS, PASS_INDEX_TO_WRITE
  <1>5. CASE get_var_code
    <2>1. ir_code' \in Seq(Instr)
      <3>1. CASE Undeclared
        BY <1>5, <3>1 DEF get_var_code, Undeclared
      <3>2. CASE ~Undeclared
        BY <1>5, <3>2, LookUpCode
      <3> QED
        BY <3>1, <3>2
    <2> QED
      BY <1>5, <2>1 DEF get_var_code
  <1>6. CASE ConvertVarDef
    <2>1. Node.data \in Int
      <3>1. Node \in Nodes /\ Node.type = "VAR_DEF"
        BY <1>6, NodeAt DEF ConvertVarDef
      <3> HIDE DEF FieldsOK, TypeInv, TypeOK, scopes, transl, output
      <3> QED
        BY <3>1, NodeFacts
    <2> QED
      BY <1>6, <2>1, RegisterVarTypes DEF ConvertVarDef
  <1>7. CASE convert_func_def
    BY <1>7 DEF convert_func_def, GetLabels
  <1>8. CASE convert_func_def_args
    <2>1. CASE UNCHANGED scopes
      BY <1>8, <2>1 DEF convert_func_def_args
    <2>2. CASE Node # nullptr /\ Node.type = "VAR" /\ register_var(Node.data)
      <3>1. Node \in MaybeNodes
        BY <1>8, HeadTask, TaskFields DEF convert_func_def_args, At_, Node
      <3>2. Node.data \in Int
        BY <2>2, <3>1, NodeFacts DEF MaybeNodes
      <3> QED
        BY <1>8, <2>2, <3>2, RegisterVarTypes DEF convert_func_def_args
    <2> QED
      BY <1>8, <2>1, <2>2 DEF convert_func_def_args
  <1>9. CASE LeaveFunc
    <2>1. << >> \in Seq(Int)
      OBVIOUS
    <2>2. local_vars' \in Seq(Int) /\ in_func' \in BOOLEAN /\ frame_size' \in Nat
      BY <1>9, <2>1 DEF LeaveFunc
    <2> QED
      BY <1>9, <2>2 DEF LeaveFunc
  <1> HIDE DEF FieldsOK, TypeInv, TypeOK, scopes, transl, output
  <1> QED
    BY <1>1, <1>2, <1>3, <1>4, <1>5, <1>6, <1>7, <1>8, <1>9

\* The others make the work list longer, take labels, and count arguments.
LEMMA OtherSteps ==
    ASSUME TypeInv,
           \/ ConvertNull \/ ConvertSimple \/ convert_op \/ ConvertElse \/ emit_assig \/ Catch
           \/ OperandsDone \/ emit_push_true_false \/ convert_if \/ ConvertBranches \/ convert_while
           \/ ConvertFuncCall \/ convert_func_call_args \/ convert_func_call \/ Terminated
    PROVE  UNCHANGED << tree, pass_index, scopes, transl, output >> /\ cur_label_index' \in Nat
  <1>1. cur_label_index \in Nat
    BY DEF TypeInv, TypeOK
  <1> QED
    BY <1>1 DEF ConvertNull, ConvertSimple, convert_op, ConvertElse, emit_assig, Catch, OperandsDone,
                emit_push_true_false, convert_if, ConvertBranches, convert_while, ConvertFuncCall,
                convert_func_call_args, convert_func_call, Terminated, GoOn, GetLabels, vars

LEMMA FieldTypes == ASSUME TypeInv, Next PROVE FieldsOK'
  <1>1. ASSUME UNCHANGED << tree, pass_index, scopes, transl, output >>, cur_label_index' \in Nat
        PROVE  FieldsOK'
    BY <1>1 DEF TypeInv, TypeOK, FieldsOK, scopes, transl, output
  <1> QED
    BY <1>1, FieldSteps, OtherSteps DEF Next

\* TypeInv from its parts.
TodoOK(L, n) ==
    /\ L \in Seq(Tasks) /\ \A i \in 1 .. Len(L) : TaskOK(L[i])
    /\ \E k : CallsIn(L, k) /\ k <= n

LEMMA TypeParts ==
    TypeInv <=> /\ FieldsOK /\ args_counters \in Seq(Nat) /\ status \in {"running", "OK", "ERROR", "abort"}
                /\ TodoOK(todo, Len(args_counters))
  BY DEF TypeInv, TypeOK, FieldsOK, TodoOK

LEMMA NextParts ==
    ASSUME FieldsOK', args_counters' \in Seq(Nat), status' \in {"running", "OK", "ERROR", "abort"},
           TodoOK(todo', Len(args_counters'))
    PROVE  TypeInv'
  BY DEF TypeInv, TypeOK, FieldsOK, TodoOK

LEMMA EmptyList == << >> \in Seq(Tasks) /\ CallsIn(<< >>, 0)
  BY EmptyMade DEF Makes, GoodList

\* The work list after a handler has put its tasks in its place.
LEMMA ExpandsTodo ==
    ASSUME TypeInv, NEW L, NEW k, Expands(L, k)
    PROVE  TodoOK(todo', Len(args_counters'))
  <1> DEFINE T == Tail(todo)
  <1>1. /\ todo # << >> /\ todo' = L \o T /\ k \in Nat /\ args_counters \in Seq(Nat)
        /\ args_counters' \in Seq(Nat)
        /\ Len(args_counters') + (IF Head(todo).do = "call" THEN 1 ELSE 0) = Len(args_counters) + k
    BY DEF Expands, TypeInv, TypeOK
  <1>2. /\ L \in Seq(Tasks) /\ CallsIn(L, k)
        /\ \A i \in 1 .. Len(L) : TaskOK(L[i])
    BY DEF Expands, Makes, GoodList
  <1>3. PICK c : CallsIn(todo, c) /\ c <= Len(args_counters)
    BY DEF TypeInv
  <1>4. todo \in Seq(Tasks) /\ T \in Seq(Tasks) /\ Len(T) = Len(todo) - 1
        /\ \A i \in 1 .. Len(T) : T[i] = todo[i + 1]
    BY <1>1, HeadTask
  <1>5. /\ c \in Nat
        /\ CallsIn(T, IF Head(todo).do = "call" THEN c - 1 ELSE c)
        /\ Head(todo).do = "call" => c >= 1
    BY <1>1, <1>3, <1>4, TailCalls
  <1> HIDE DEF T
  <1> DEFINE m == IF Head(todo).do = "call" THEN c - 1 ELSE c
  <1>6. m \in Nat /\ k + m <= Len(args_counters')
    BY <1>1, <1>3, <1>5
  <1>7. CallsIn(L \o T, k + m)
    BY <1>1, <1>2, <1>4, <1>5, <1>6, ConcatCalls
  <1> HIDE DEF m
  <1>8. \A i \in 1 .. Len(T) : TaskOK(T[i])
    <2> TAKE i \in 1 .. Len(T)
    <2>1. i + 1 \in 1 .. Len(todo)
      BY <1>4
    <2> QED
      BY <1>4, <2>1 DEF TypeInv
  <1>9. \A i \in 1 .. Len(L \o T) : TaskOK((L \o T)[i])
    BY <1>2, <1>4, <1>8, ConcatPlaces
  <1> QED
    BY <1>1, <1>2, <1>4, <1>6, <1>7, <1>9 DEF TodoOK

LEMMA UnwindTodo ==
    ASSUME TypeInv, Unwind PROVE TodoOK(todo', Len(args_counters))
  <1> DEFINE catches == {i \in DOMAIN todo : todo[i].do = "catch"}
             p == CHOOSE i \in catches : \A j \in catches : i <= j
  <1>0. todo \in Seq(Tasks) /\ args_counters \in Seq(Nat)
    BY DEF TypeInv, TypeOK
  <1>1. CASE catches = {}
    <2>1. todo' = << >>
      BY <1>1 DEF Unwind
    <2> QED
      BY <1>0, <2>1, EmptyList DEF TodoOK
  <1>2. CASE catches # {}
    <2>1. todo' = SubSeq(todo, p, Len(todo))
      BY <1>2 DEF Unwind
    <2>2. catches \subseteq 1 .. Len(todo)
      BY <1>0
    <2>3. \E i \in catches : \A j \in catches : i <= j
      <3> HIDE DEF catches
      <3>1. catches \subseteq Nat
        BY <1>0, <2>2
      <3> QED
        BY <1>2, <3>1, LeastMember
    <2>4. p \in catches
      BY <2>3
    <2> HIDE DEF p
    <2>5. p \in 1 .. Len(todo)
      BY <2>2, <2>4
    <2>6. PICK c : CallsIn(todo, c) /\ c <= Len(args_counters)
      BY DEF TypeInv
    <2>7. c \in Nat
      <3>1. todo # << >>
        BY <1>0, <2>5
      <3> QED
        BY <1>0, <2>6, <3>1, TailCalls
    <2> DEFINE S == SubSeq(todo, p, Len(todo))
    <2>8. /\ S \in Seq(Tasks) /\ Len(S) = Len(todo) - p + 1
          /\ \A i \in 1 .. Len(todo) - p + 1 : S[i] = todo[p + i - 1]
          /\ \E m \in Nat : CallsIn(S, m) /\ m <= c
      BY <1>0, <2>5, <2>6, EndCalls
    <2> HIDE DEF S
    <2>9. \A i \in 1 .. Len(S) : TaskOK(S[i])
      <3> TAKE i \in 1 .. Len(S)
      <3>1. p + i - 1 \in 1 .. Len(todo)
        BY <1>0, <2>5, <2>8
      <3> QED
        BY <2>8, <3>1 DEF TypeInv
    <2>10. \E m : CallsIn(S, m) /\ m <= Len(args_counters)
      BY <1>0, <2>6, <2>7, <2>8
    <2> QED
      BY <2>1, <2>8, <2>9, <2>10 DEF TodoOK, S
  <1> QED
    BY <1>1, <1>2

LEMMA TypeStep == ASSUME TypeInv, [Next]_vars PROVE TypeInv'
  <1>1. CASE UNCHANGED vars
    BY <1>1 DEF vars, scopes, transl, output, TypeInv, TypeOK
  <1>2. CASE Next
    <2>1. FieldsOK'
      BY <1>2, FieldTypes
    <2>2. /\ args_counters \in Seq(Nat) /\ TodoOK(todo, Len(args_counters))
          /\ status \in {"running", "OK", "ERROR", "abort"}
      BY TypeParts
    <2>3. CASE Aborts
      BY <2>1, <2>2, <2>3, NextParts DEF Aborts
    <2>4. CASE start_new_pass
      <3>1. CallsIn(PassTasks', 0) /\ PassTasks' \in Seq(Tasks)
            /\ \A i \in 1 .. Len(PassTasks') : TaskOK(PassTasks'[i])
        <4>1. tree' = tree /\ PassTasks' = PassTasks /\ tree \in Trees
          BY <2>4 DEF start_new_pass, PassTasks, NoFinalHalt, TypeInv, TypeOK
        <4> QED
          BY <4>1, PassList
      <3>3. (todo' = PassTasks \/ todo' = << >>) /\ args_counters' = args_counters
            /\ status' \in {status, "OK"} /\ PassTasks' = PassTasks
        BY <2>4 DEF start_new_pass, PassTasks
      <3>4. TodoOK(todo', Len(args_counters'))
        <4>1. Len(args_counters) \in Nat
          BY <2>2
        <4>2. \A i \in 1 .. Len(<< >>) : TaskOK(<< >>[i])
          OBVIOUS
        <4>3. TodoOK(PassTasks', Len(args_counters)) /\ TodoOK(<< >>, Len(args_counters))
          BY <3>1, <4>1, <4>2, EmptyList DEF TodoOK
        <4> QED
          BY <3>3, <4>3
      <3> QED
        BY <2>1, <2>2, <3>3, <3>4, NextParts
    <2>5. CASE get_var_code /\ Undeclared
      <3>1. Unwind /\ args_counters' = args_counters
        BY <2>5 DEF get_var_code, Undeclared
      <3>2. status' \in {status, "ERROR"}
        BY <3>1 DEF Unwind
      <3> QED
        BY <2>1, <2>2, <3>1, <3>2, UnwindTodo, NextParts
    <2>6. ASSUME NEW L, NEW k, Expands(L, k) PROVE TypeInv'
      <3>1. TodoOK(todo', Len(args_counters'))
        BY <2>6, ExpandsTodo
      <3>2. args_counters' \in Seq(Nat) /\ status' = "running"
        BY <2>6 DEF Expands
      <3> QED
        BY <2>1, <3>1, <3>2, NextParts
    <2> QED
      BY <1>1, <1>2, <2>3, <2>4, <2>5, <2>6, Steps
  <1> QED
    BY <1>1, <1>2

LEMMA TypeInit == ASSUME Init PROVE TypeInv
  <1>1. addr_transl_new \in Translators
    BY DEF addr_transl_new, Translators
  <1>2. FieldsOK
    <2>1. << >> \in Seq(Int) /\ << >> \in Seq(Instr)
      OBVIOUS
    <2> QED
      BY <1>1, <2>1 DEF Init, FieldsOK, code_new, PASS_INDEX_TO_CALC_OFFSETS
  <1>3. TodoOK(PassTasks, 0)
    BY PassList DEF TodoOK, Init
  <1> QED
    BY <1>2, <1>3, TypeParts DEF Init

\* The variables have their types for every set of trees, and no handler
\* dereferences a null pointer or an argument counter that is not there: a "call"
\* never finds args_counters empty, whatever UNWRAP_ERROR has left in between.
THEOREM TypesKept == Spec => []TypeOK
  <1>1. TypeInv => TypeOK
    BY DEF TypeInv
  <1> QED
    BY <1>1, TypeInit, TypeStep, PTL DEF Spec

-----------------------------------------------------------------------------
(* The operands.                                                           *)

\* A program in which no error is dropped: where a variable is in no scope, no
\* caller on the way up ignores the result of get_var_code.  convert_op drops the
\* result of an assignment's target and of the operands of && and ||, and
\* convert_func_call_args that of an argument; the run `early` shows what an
\* undeclared variable there leads to.
NoErrorDropped == Undeclared => \A i \in 1 .. Len(todo) : todo[i].do # "catch"

\* An instruction that waits for its operand is the last one, and is looked at
\* next; nothing is emitted before the second pass.
OperandInv ==
    /\ status = "running" =>
          \A i \in 1 .. Len(todo) :
             Waits(todo[i]) => i + 1 \in 1 .. Len(todo) /\ todo[i + 1].do = "get_var_code"
    /\ status \in {"running", "OK"} =>
          \A i \in 1 .. Len(ir_code) :
             Filled(ir_code[i]) \/ (i = Len(ir_code) /\ At_("get_var_code"))
    /\ pass_index = PASS_INDEX_TO_CALC_OFFSETS => ir_code = << >>

LEMMA CodeStep ==
    ASSUME Next
    PROVE  \/ emit_instruction \/ get_var_code \/ start_new_pass
           \/ UNCHANGED << ir_code, pass_index >> /\ ~At_("get_var_code")
  <1>1. CASE \/ register_numeric_label \/ register_function_label \/ ConvertVarDef \/ LeaveFunc
             \/ convert_func_def \/ convert_func_def_args
    BY <1>1 DEF register_numeric_label, register_function_label, ConvertVarDef, LeaveFunc,
                convert_func_def, convert_func_def_args, output, AtNode, At_
  <1>2. CASE \/ ConvertNull \/ ConvertSimple \/ convert_op \/ ConvertElse \/ emit_assig \/ Catch
             \/ OperandsDone \/ emit_push_true_false
    BY <1>2 DEF ConvertNull, ConvertSimple, convert_op, ConvertElse, emit_assig, Catch,
                OperandsDone, emit_push_true_false, output, GoOn, AtNode, At_
  <1>3. CASE \/ convert_if \/ ConvertBranches \/ convert_while \/ ConvertFuncCall
             \/ convert_func_call_args \/ convert_func_call \/ Terminated
    BY <1>3 DEF convert_if, ConvertBranches, convert_while, ConvertFuncCall,
                convert_func_call_args, convert_func_call, Terminated, vars, output, GoOn, AtNode,
                At_
  <1> QED
    BY <1>1, <1>2, <1>3 DEF Next

\* A failing get_var_code, if nobody drops its error.
LEMMA Fails ==
    ASSUME TypeInv, NoErrorDropped, get_var_code, Undeclared
    PROVE  /\ todo' = << >> /\ status' = "ERROR"
           /\ UNCHANGED << tree, pass_index, cur_label_index, scopes, transl, output, args_counters >>
  <1>1. {i \in DOMAIN todo : todo[i].do = "catch"} = {}
    BY DEF NoErrorDropped, TypeInv, TypeOK
  <1>2. Unwind
    BY DEF get_var_code, Undeclared
  <1> QED
    BY <1>1, <1>2 DEF get_var_code, Undeclared, Unwind, output

LEMMA WaitsAfter ==
    ASSUME TypeInv, OperandInv, status = "running", NEW L, NEW k, Expands(L, k)
    PROVE  \A i \in 1 .. Len(todo') :
              Waits(todo'[i]) => i + 1 \in 1 .. Len(todo') /\ todo'[i + 1].do = "get_var_code"
  <1> DEFINE T == Tail(todo)
  <1>1. /\ todo' = L \o T /\ L \in Seq(Tasks) /\ todo # << >>
        /\ \A i \in 1 .. Len(L) : Waits(L[i]) => i + 1 \in 1 .. Len(L) /\ L[i + 1].do = "get_var_code"
    BY DEF Expands, Makes, GoodList
  <1>2. /\ T \in Seq(Tasks) /\ Len(T) = Len(todo) - 1 /\ Len(todo) \in Nat
        /\ \A i \in 1 .. Len(T) : T[i] = todo[i + 1]
    BY <1>1, HeadTask
  <1> HIDE DEF T
  <1>3. ASSUME NEW i \in 1 .. Len(T), Waits(T[i])
        PROVE  i + 1 \in 1 .. Len(T) /\ T[i + 1].do = "get_var_code"
    <2>1. i + 1 \in 1 .. Len(todo) /\ Waits(todo[i + 1])
      BY <1>2, <1>3
    <2>2. (i + 1) + 1 \in 1 .. Len(todo) /\ todo[(i + 1) + 1].do = "get_var_code"
      BY <2>1 DEF OperandInv
    <2>3. i + 1 \in 1 .. Len(T)
      BY <1>2, <2>2
    <2> QED
      BY <1>2, <2>2, <2>3
  <1> DEFINE M == L \o T
  <1>4. /\ Len(L) \in Nat /\ Len(T) \in Nat
        /\ \A i \in 1 .. Len(L) : i \in 1 .. Len(M) /\ M[i] = L[i]
        /\ \A i \in 1 .. Len(T) : Len(L) + i \in 1 .. Len(M) /\ M[Len(L) + i] = T[i]
        /\ \A i \in 1 .. Len(M) : i \in 1 .. Len(L) \/ \E j \in 1 .. Len(T) : i = Len(L) + j
    BY <1>1, <1>2, ConcatPlaces
  <1> HIDE DEF M
  <1>5. ASSUME NEW i \in 1 .. Len(M), Waits(M[i])
        PROVE  i + 1 \in 1 .. Len(M) /\ M[i + 1].do = "get_var_code"
    <2>1. CASE i \in 1 .. Len(L)
      BY <1>1, <1>4, <1>5, <2>1
    <2>2. ASSUME NEW j \in 1 .. Len(T), i = Len(L) + j
          PROVE  i + 1 \in 1 .. Len(M) /\ M[i + 1].do = "get_var_code"
      <3>1. Waits(T[j]) /\ i + 1 = Len(L) + (j + 1)
        BY <1>4, <1>5, <2>2
      <3>2. j + 1 \in 1 .. Len(T) /\ T[j + 1].do = "get_var_code"
        BY <1>3, <3>1
      <3> QED
        BY <1>4, <3>1, <3>2
    <2> QED
      BY <1>4, <2>1, <2>2
  <1> QED
    BY <1>1, <1>5 DEF M

LEMMA EmitCode ==
    ASSUME TypeInv, OperandInv, emit_instruction
    PROVE  \A i \in 1 .. Len(ir_code') :
              Filled(ir_code'[i]) \/ (i = Len(ir_code') /\ At_("get_var_code")')
  <1> DEFINE x == Head(todo).ins
  <1>1. /\ status = "running" /\ todo # << >> /\ Head(todo).do = "emit" /\ status' = status
        /\ ~At_("get_var_code") /\ todo' = << >> \o Tail(todo)
    BY DEF emit_instruction, At_, Continue
  <1>2. /\ Head(todo) = todo[1] /\ x \in Instr /\ Len(todo) \in Nat /\ ir_code \in Seq(Instr)
        /\ Tail(todo) \in Seq(Tasks) /\ Len(Tail(todo)) = Len(todo) - 1 /\ 1 \in 1 .. Len(todo)
        /\ \A i \in 1 .. Len(Tail(todo)) : Tail(todo)[i] = todo[i + 1]
    BY <1>1, HeadTask, TaskFields DEF TypeInv, TypeOK
  <1>3. todo' = Tail(todo)
    BY <1>1, <1>2
  <1>4. \A i \in 1 .. Len(ir_code) : Filled(ir_code[i])
    BY <1>1 DEF OperandInv
  <1>5. CASE pass_index = PASS_INDEX_TO_CALC_OFFSETS
    BY <1>4, <1>5 DEF emit_instruction
  <1>6. CASE pass_index # PASS_INDEX_TO_CALC_OFFSETS
    <2>1. ir_code' = Append(ir_code, x)
      BY <1>6 DEF emit_instruction, code_insert
    <2>2. Filled(x) \/ At_("get_var_code")'
      <3>1. CASE Filled(x)
        BY <3>1
      <3>2. CASE ~Filled(x)
        <4>1. Waits(todo[1])
          BY <1>1, <1>2, <3>2 DEF Waits
        <4>2. 1 + 1 \in 1 .. Len(todo) /\ todo[1 + 1].do = "get_var_code"
          BY <1>1, <1>2, <4>1 DEF OperandInv
        <4>3. Len(Tail(todo)) >= 1 /\ 1 \in 1 .. Len(Tail(todo)) /\ Tail(todo)[1] = todo[1 + 1]
          BY <1>2, <4>2
        <4>5. ASSUME NEW T \in Seq(Tasks), Len(T) >= 1 PROVE T # << >> /\ Head(T) = T[1]
          BY <4>5
        <4>4. todo' # << >> /\ Head(todo') = todo[1 + 1]
          BY <1>2, <1>3, <4>3, <4>5
        <4> QED
          BY <1>1, <4>2, <4>4 DEF At_
      <3> QED
        BY <3>1, <3>2
    <2> HIDE DEF x
    <2>3. /\ Len(ir_code') = Len(ir_code) + 1 /\ ir_code'[Len(ir_code) + 1] = x
          /\ \A i \in 1 .. Len(ir_code) : ir_code'[i] = ir_code[i]
      BY <1>2, <2>1
    <2>4. Len(ir_code) \in Nat
      BY <1>2
    <2> QED
      BY <1>4, <2>2, <2>3, <2>4
  <1> QED
    BY <1>5, <1>6

LEMMA OperandStep == ASSUME TypeInv, OperandInv, NoErrorDropped, [Next]_vars PROVE OperandInv'
  <1>1. CASE UNCHANGED vars
    BY <1>1 DEF OperandInv, At_, vars, scopes, transl, output
  <1>2. CASE get_var_code /\ Undeclared
    <2>1. status' = "ERROR" /\ UNCHANGED << pass_index, ir_code >>
      BY <1>2, Fails DEF output
    <2> QED
      BY <2>1 DEF OperandInv
  <1>3. CASE start_new_pass
    <2>1. /\ status = "running" /\ ~At_("get_var_code") /\ ir_code' = ir_code /\ tree \in Trees
      BY <1>3 DEF start_new_pass, At_, TypeInv, TypeOK
    <2>2. \A i \in 1 .. Len(ir_code') : Filled(ir_code'[i])
      BY <2>1 DEF OperandInv
    <2>3. pass_index' # PASS_INDEX_TO_CALC_OFFSETS
      BY <1>3 DEF start_new_pass, TypeInv, TypeOK, PASS_INDEX_TO_CALC_OFFSETS, PASS_INDEX_TO_WRITE,
                  TOTAL_PASS_COUNT
    <2>4. status' = "running" => todo' = PassTasks
      BY <1>3, <2>1 DEF start_new_pass
    <2>5. \A i \in 1 .. Len(PassTasks) : ~Waits(PassTasks[i])
      BY <2>1, PassList
    <2> QED
      BY <2>2, <2>3, <2>4, <2>5 DEF OperandInv
  <1>4. CASE Aborts
    BY <1>4 DEF Aborts, OperandInv, output
  <1>5. ASSUME Next, NEW L, NEW k, Expands(L, k), ~start_new_pass, ~(get_var_code /\ Undeclared)
        PROVE  OperandInv'
    <2>1. status = "running" /\ status' = "running"
      BY <1>5 DEF Expands
    <2>2. \A i \in 1 .. Len(todo') :
             Waits(todo'[i]) => i + 1 \in 1 .. Len(todo') /\ todo'[i + 1].do = "get_var_code"
      BY <1>5, <2>1, WaitsAfter
    <2>3. CASE emit_instruction
      <3>1. \A i \in 1 .. Len(ir_code') :
               Filled(ir_code'[i]) \/ (i = Len(ir_code') /\ At_("get_var_code")')
        BY <2>3, EmitCode
      <3>2. pass_index' = PASS_INDEX_TO_CALC_OFFSETS => ir_code' = << >>
        BY <2>3 DEF emit_instruction, OperandInv
      <3> QED
        BY <2>2, <3>1, <3>2 DEF OperandInv
    <2>4. CASE get_var_code
      <3>1. /\ Len(ir_code') = Len(ir_code) /\ ir_code \in Seq(Instr)
            /\ \A i \in 1 .. Len(ir_code) :
                  \/ ir_code'[i] = ir_code[i]
                  \/ /\ i = Len(ir_code) /\ Filled(ir_code'[i])
                     /\ ir_code'[i].type = ir_code[i].type
            /\ pass_index = PASS_INDEX_TO_WRITE /\ Len(ir_code) > 0
                  => Filled(ir_code'[Len(ir_code)])
        BY <1>5, <2>4, LookUpCode DEF TypeInv, TypeOK
      <3>2. pass_index' = pass_index /\ ir_code' \in Seq(Instr)
        BY <1>5, <2>4, LookUpCode DEF get_var_code
      <3>3. CASE pass_index = PASS_INDEX_TO_CALC_OFFSETS
        <4>1. Len(ir_code) = 0
          BY <3>3 DEF OperandInv
        <4>2. ir_code' = << >>
          BY <3>1, <3>2, <4>1
        <4> QED
          BY <2>2, <4>1, <4>2 DEF OperandInv
      <3>4. CASE pass_index = PASS_INDEX_TO_WRITE
        <4>1. \A i \in 1 .. Len(ir_code') : Filled(ir_code'[i])
          <5> TAKE i \in 1 .. Len(ir_code')
          <5>1. i \in 1 .. Len(ir_code) /\ Len(ir_code) > 0
            BY <3>1
          <5>2. CASE i = Len(ir_code)
            BY <3>1, <3>4, <5>1, <5>2
          <5>3. CASE i # Len(ir_code)
            BY <2>1, <3>1, <5>1, <5>3 DEF OperandInv
          <5> QED
            BY <5>2, <5>3
        <4> QED
          BY <2>2, <3>2, <3>4, <4>1 DEF OperandInv, PASS_INDEX_TO_WRITE, PASS_INDEX_TO_CALC_OFFSETS
      <3> QED
        BY <3>3, <3>4 DEF TypeInv, TypeOK
    <2>5. CASE UNCHANGED << ir_code, pass_index >> /\ ~At_("get_var_code")
      BY <2>1, <2>2, <2>5 DEF OperandInv
    <2> QED
      BY <1>5, <2>3, <2>4, <2>5, CodeStep
  <1> QED
    BY <1>1, <1>2, <1>3, <1>4, <1>5, Steps

LEMMA OperandInit == ASSUME Init PROVE OperandInv
  <1>1. \A i \in 1 .. Len(PassTasks) : ~Waits(PassTasks[i])
    BY PassList DEF Init
  <1>2. Len(<< >>) = 0
    OBVIOUS
  <1> QED
    BY <1>1, <1>2 DEF Init, OperandInv, code_new

\* Every PUSH and POP of the code has an operand, for every set of trees: the
\* instruction that get_var_code fills in is always the last one emitted, and
\* nothing is emitted between the two, also in the branches, loops and functions
\* that no run contains.
THEOREM OperandsAlwaysFilled == Spec /\ []NoErrorDropped => []OperandsFilled
  <1>1. TypeInv /\ OperandInv => OperandsFilled
    <2> SUFFICES ASSUME TypeInv, OperandInv, status = "OK", NEW i \in DOMAIN ir_code
                 PROVE  Filled(ir_code[i])
      BY DEF OperandsFilled, Filled
    <2>1. i \in 1 .. Len(ir_code)
      BY DEF TypeInv, TypeOK
    <2> QED
      BY <2>1 DEF OperandInv, At_
  <1>2. Init => TypeInv /\ OperandInv
    BY TypeInit, OperandInit
  <1>3. TypeInv /\ OperandInv /\ NoErrorDropped /\ [Next]_vars => (TypeInv /\ OperandInv)'
    BY TypeStep, OperandStep
  <1> QED
    BY <1>1, <1>2, <1>3, PTL DEF Spec
-----------------------------------------------------------------------------
(***************************************************************************)
(* Both passes at once: the second pass takes the steps of the first, so   *)
(* that a label or a function is where the first found it, and a variable  *)
(* that the first found is found again.                                    *)
(*                                                                         *)
(* What both passes have in common is a skeleton, from which the operands  *)
(* of the instructions are left out; it determines the next one.  The      *)
(* invariant says that there is a path of skeletons, made by the first     *)
(* pass, and that the second follows it.  Then come the conclusions about  *)
(* labels: the second pass comes to every one where the first registered   *)
(* it, and no jump or call leads out of the code.                          *)
(***************************************************************************)

\* Tasks that are the same up to the instruction they emit.
Alike(t, u) == t = u \/ (t.do = "emit" /\ u.do = "emit")
Same(A, B)  == /\ A \in Seq(Tasks) /\ B \in Seq(Tasks) /\ Len(A) = Len(B)
               /\ \A i \in 1 .. Len(A) : Alike(A[i], B[i])

\* Any instruction.
Some == Emit(Plain("HALT"))

\* The tasks that a node makes, with the labels from l on ...
NodeTasks(n, used, l) ==
    IF n.type \in {"FICTIOUS", "VAL", "VAR", "RETURN"} THEN SimpleTasks(n)
    ELSE IF n.type = "OP" THEN OpTasks(n)
    ELSE IF n.type = "IF" THEN << Used(n.left), Some, Rest("if", n.right) >>
    ELSE IF n.type = "WHILE"
    THEN << Label(l), Used(n.left), Some, Some, Used(n.right), Some, Label(l + 1) >>
    ELSE IF n.type = "FUNC_DEF"
    THEN << Some, FunctionLabel(n.data), Rest("def_args", n.left), Used(n.right), Label(l),
            Mark("leave_func") >>
    ELSE IF n.type = "FUNC_CALL"
    THEN << Rest("call_args", n.right), Rest("call", n) >> \o (IF used THEN << >> ELSE << Some >>)
    ELSE << >>

\* ... and the other tasks, c being the counters of the arguments.
TasksOf(t, l, c) ==
    IF t.do = "push_true_false" THEN << Some, Some, Some, Label(l), Some, Label(l + 1) >>
    ELSE IF t.do = "if" /\ t.node.left # nullptr
    THEN << Some, Used(t.node.left), Some, Label(l + 1), Used(t.node.right), Label(l) >>
    ELSE IF t.do = "if" THEN << Some, Used(t.node.right), Label(l) >>
    ELSE IF t.do = "emit_assig" THEN << Some, GetVarCode(t.node.data), Mark("catch") >>
    ELSE IF t.do = "call" THEN [i \in 1 .. Head(c) + 9 |-> Some]
    ELSE IF t.do \notin {"def_args", "call_args", "subtree_convert"} \/ t.node = nullptr THEN << >>
    ELSE IF t.do = "subtree_convert" THEN NodeTasks(t.node, t.result_used, l)
    ELSE IF t.node.type = "FICTIOUS" THEN << Rest(t.do, t.node.left), Rest(t.do, t.node.right) >>
    ELSE IF t.do = "call_args" THEN << Used(t.node), Mark("catch") >>
    ELSE << >>

\* The type of the node to convert.
TypeOf(t) == IF t.do = "subtree_convert" /\ t.node # nullptr THEN t.node.type ELSE "none"

LabelsOf(t) ==
    IF t.do = "push_true_false" \/ TypeOf(t) = "WHILE" \/ (t.do = "if" /\ t.node.left # nullptr) THEN 2
    ELSE IF t.do = "if" \/ TypeOf(t) = "FUNC_DEF" THEN 1 ELSE 0

CountersAfter(t, c) ==
    IF TypeOf(t) = "FUNC_CALL" THEN << 0 >> \o c
    ELSE IF t.do = "call" THEN Tail(c)
    ELSE IF t.do = "call_args" /\ t.node # nullptr /\ t.node.type # "FICTIOUS"
    THEN [c EXCEPT ![1] = @ + 1] ELSE c

\* The task registers a variable.
Registers(t) == TypeOf(t) = "VAR_DEF" \/ (t.do = "def_args" /\ t.node # nullptr /\ t.node.type = "VAR")

\* The skeleton of the state after the next step.
Succ(a) ==
    LET t == Head(a.todo)
    IN  [todo     |-> TasksOf(t, a.labels, a.counters) \o Tail(a.todo),
         labels   |-> a.labels + LabelsOf(t),
         count    |-> IF t.do = "emit" THEN a.count + 1 ELSE a.count,
         counters |-> CountersAfter(t, a.counters),
         func     |-> IF TypeOf(t) = "FUNC_DEF" THEN 1 ELSE IF t.do = "leave_func" THEN 0 ELSE a.func,
         frame    |-> IF TypeOf(t) = "FUNC_DEF" THEN 0 ELSE IF t.do = "leave_func" THEN a.store
                      ELSE IF Registers(t) THEN a.frame + 1 ELSE a.frame,
         store    |-> IF TypeOf(t) = "FUNC_DEF" THEN a.frame ELSE a.store,
         globals  |-> IF Registers(t) /\ a.func = 0 THEN a.globals + 1 ELSE a.globals,
         locals   |-> IF t.do = "leave_func" THEN << >>
                      ELSE IF Registers(t) /\ a.func = 1 THEN Append(a.locals, t.node.data)
                      ELSE a.locals]

\* The state has this skeleton; b is the number of globals when the pass began.
Emitted == IF pass_index = PASS_INDEX_TO_CALC_OFFSETS THEN current_instruction_index ELSE Len(ir_code)
Match(a, b) ==
    /\ Same(a.todo, todo) /\ a.labels = cur_label_index /\ a.count = Emitted
    /\ a.counters = args_counters /\ a.func = (IF in_func THEN 1 ELSE 0)
    /\ a.frame = frame_size /\ a.store = global_frame_size_store
    /\ b \in Nat /\ a.globals \in Nat
    /\ Len(global_vars) = b + a.globals /\ a.locals = local_vars

-----------------------------------------------------------------------------
(* Lists that are the same up to the instructions.                         *)

LEMMA SameSelf == ASSUME NEW A \in Seq(Tasks) PROVE Same(A, A)
  BY DEF Same, Alike

LEMMA ConcatSame ==
    ASSUME NEW A, NEW B, NEW C, NEW D, Same(A, B), Same(C, D) PROVE Same(A \o C, B \o D)
  <1>1. /\ A \in Seq(Tasks) /\ B \in Seq(Tasks) /\ C \in Seq(Tasks) /\ D \in Seq(Tasks)
        /\ Len(A) = Len(B) /\ Len(C) = Len(D)
    BY DEF Same
  <1> DEFINE L == A \o C
             M == B \o D
  <1>2. /\ L \in Seq(Tasks) /\ Len(A) \in Nat /\ Len(L) = Len(A) + Len(C)
        /\ \A i \in 1 .. Len(A) : L[i] = A[i]
        /\ \A i \in 1 .. Len(C) : L[Len(A) + i] = C[i]
    <2>1. A \in Seq(Tasks) /\ C \in Seq(Tasks)
      BY <1>1
    <2> QED
      BY <2>1, ConcatPlaces
  <1>6. \A i \in 1 .. Len(L) : i \in 1 .. Len(A) \/ \E j \in 1 .. Len(C) : i = Len(A) + j
    <2>1. A \in Seq(Tasks) /\ C \in Seq(Tasks)
      BY <1>1
    <2> QED
      BY <2>1, ConcatPlaces
  <1>3. /\ M \in Seq(Tasks) /\ Len(M) = Len(B) + Len(D)
        /\ \A i \in 1 .. Len(B) : M[i] = B[i]
        /\ \A i \in 1 .. Len(D) : M[Len(B) + i] = D[i]
    BY <1>1, ConcatPlaces
  <1> HIDE DEF L, M
  <1>4. ASSUME NEW i \in 1 .. Len(L) PROVE Alike(L[i], M[i])
    <2>1. CASE i \in 1 .. Len(A)
      BY <1>1, <1>2, <1>3, <2>1 DEF Same
    <2>2. ASSUME NEW j \in 1 .. Len(C), i = Len(A) + j PROVE Alike(L[i], M[i])
      BY <1>1, <1>2, <1>3, <2>2 DEF Same
    <2> QED
      BY <1>6, <2>1, <2>2
  <1>5. Len(L) = Len(M)
    BY <1>1, <1>2, <1>3
  <1> QED
    BY <1>2, <1>3, <1>4, <1>5 DEF Same, L, M

LEMMA TailSame ==
    ASSUME NEW A, NEW B, Same(A, B), B # << >>
    PROVE  A # << >> /\ Alike(Head(A), Head(B)) /\ Same(Tail(A), Tail(B))
  <1>1. A \in Seq(Tasks) /\ B \in Seq(Tasks) /\ Len(A) = Len(B) /\ Len(B) \in Nat /\ Len(B) # 0
    BY DEF Same
  <1>2. A # << >> /\ Head(A) = A[1] /\ Head(B) = B[1] /\ 1 \in 1 .. Len(A)
    BY <1>1
  <1> DEFINE C == Tail(A)
             D == Tail(B)
  <1>3. /\ C \in Seq(Tasks) /\ D \in Seq(Tasks) /\ Len(C) = Len(A) - 1 /\ Len(D) = Len(B) - 1
        /\ \A i \in 1 .. Len(C) : C[i] = A[i + 1]
        /\ \A i \in 1 .. Len(D) : D[i] = B[i + 1]
    BY <1>1, <1>2
  <1> HIDE DEF C, D
  <1>4. ASSUME NEW i \in 1 .. Len(C) PROVE Alike(C[i], D[i])
    <2>1. i + 1 \in 1 .. Len(A) /\ i \in 1 .. Len(D)
      BY <1>1, <1>3
    <2>2. Alike(A[i + 1], B[i + 1])
      BY <2>1 DEF Same
    <2> QED
      BY <1>3, <2>1, <2>2
  <1>5. Same(C, D)
    BY <1>1, <1>3, <1>4 DEF Same
  <1> QED
    BY <1>2, <1>5 DEF Same, C, D

\* Lists given task by task.
LEMMA Same3 ==
    ASSUME NEW a1 \in Tasks, NEW a2 \in Tasks, NEW a3 \in Tasks,
           NEW b1 \in Tasks, NEW b2 \in Tasks, NEW b3 \in Tasks,
           Alike(a1, b1), Alike(a2, b2), Alike(a3, b3)
    PROVE  Same(<< a1, a2, a3 >>, << b1, b2, b3 >>)
  <1> DEFINE A == << a1, a2, a3 >>
             B == << b1, b2, b3 >>
  <1>1. A \in Seq(Tasks) /\ Len(A) = 3 /\ A[1] = a1 /\ A[2] = a2 /\ A[3] = a3
    OBVIOUS
  <1>2. B \in Seq(Tasks) /\ Len(B) = 3 /\ B[1] = b1 /\ B[2] = b2 /\ B[3] = b3
    OBVIOUS
  <1> HIDE DEF A, B
  <1>3. \A i \in 1 .. Len(A) : i = 1 \/ i = 2 \/ i = 3
    BY <1>1
  <1>4. \A i \in 1 .. Len(A) : Alike(A[i], B[i])
    BY <1>1, <1>2, <1>3
  <1>5. Same(A, B)
    BY <1>1, <1>2, <1>4 DEF Same
  <1> QED
    BY <1>5 DEF A, B

LEMMA Same6 ==
    ASSUME NEW a1 \in Tasks, NEW a2 \in Tasks, NEW a3 \in Tasks,
           NEW a4 \in Tasks, NEW a5 \in Tasks, NEW a6 \in Tasks,
           NEW b1 \in Tasks, NEW b2 \in Tasks, NEW b3 \in Tasks,
           NEW b4 \in Tasks, NEW b5 \in Tasks, NEW b6 \in Tasks,
           Alike(a1, b1), Alike(a2, b2), Alike(a3, b3), Alike(a4, b4), Alike(a5, b5), Alike(a6, b6)
    PROVE  Same(<< a1, a2, a3, a4, a5, a6 >>, << b1, b2, b3, b4, b5, b6 >>)
  <1> DEFINE A == << a1, a2, a3, a4, a5, a6 >>
             B == << b1, b2, b3, b4, b5, b6 >>
  <1>1. /\ A \in Seq(Tasks) /\ Len(A) = 6
        /\ A[1] = a1 /\ A[2] = a2 /\ A[3] = a3 /\ A[4] = a4 /\ A[5] = a5 /\ A[6] = a6
    OBVIOUS
  <1>2. /\ B \in Seq(Tasks) /\ Len(B) = 6
        /\ B[1] = b1 /\ B[2] = b2 /\ B[3] = b3 /\ B[4] = b4 /\ B[5] = b5 /\ B[6] = b6
    OBVIOUS
  <1> HIDE DEF A, B
  <1>3. \A i \in 1 .. Len(A) : i = 1 \/ i = 2 \/ i = 3 \/ i = 4 \/ i = 5 \/ i = 6
    BY <1>1
  <1>4. \A i \in 1 .. Len(A) : Alike(A[i], B[i])
    BY <1>1, <1>2, <1>3
  <1>5. Same(A, B)
    BY <1>1, <1>2, <1>4 DEF Same
  <1> QED
    BY <1>5 DEF A, B

LEMMA Same7 ==
    ASSUME NEW a1 \in Tasks, NEW a2 \in Tasks, NEW a3 \in Tasks,
           NEW a4 \in Tasks, NEW a5 \in Tasks, NEW a6 \in Tasks, NEW a7 \in Tasks,
           NEW b1 \in Tasks, NEW b2 \in Tasks, NEW b3 \in Tasks,
           NEW b4 \in Tasks, NEW b5 \in Tasks, NEW b6 \in Tasks, NEW b7 \in Tasks,
           Alike(a1, b1), Alike(a2, b2), Alike(a3, b3), Alike(a4, b4), Alike(a5, b5),
           Alike(a6, b6), Alike(a7, b7)
    PROVE  Same(<< a1, a2, a3, a4, a5, a6, a7 >>, << b1, b2, b3, b4, b5, b6, b7 >>)
  <1> DEFINE A == << a1, a2, a3, a4, a5, a6, a7 >>
             B == << b1, b2, b3, b4, b5, b6, b7 >>
  <1>1. /\ A \in Seq(Tasks) /\ Len(A) = 7
        /\ A[1] = a1 /\ A[2] = a2 /\ A[3] = a3 /\ A[4] = a4 /\ A[5] = a5 /\ A[6] = a6 /\ A[7] = a7
    OBVIOUS
  <1>2. /\ B \in Seq(Tasks) /\ Len(B) = 7
        /\ B[1] = b1 /\ B[2] = b2 /\ B[3] = b3 /\ B[4] = b4 /\ B[5] = b5 /\ B[6] = b6 /\ B[7] = b7
    OBVIOUS
  <1> HIDE DEF A, B
  <1>3. \A i \in 1 .. Len(A) : i = 1 \/ i = 2 \/ i = 3 \/ i = 4 \/ i = 5 \/ i = 6 \/ i = 7
    BY <1>1
  <1>4. \A i \in 1 .. Len(A) : Alike(A[i], B[i])
    BY <1>1, <1>2, <1>3
  <1>5. Same(A, B)
    BY <1>1, <1>2, <1>4 DEF Same
  <1> QED
    BY <1>5 DEF A, B

LEMMA SomeTask == Some \in Tasks /\ Some \in Inert /\ Some.do = "emit"
  <1>1. Some \in Inert
    BY InertEmits DEF Some
  <1> QED
    BY <1>1 DEF Some, Emit, Inert
-----------------------------------------------------------------------------
(* A step of the program is a step of its skeleton.                        *)

LEMMA SuccFields ==
    ASSUME NEW a
    PROVE  LET t == Head(a.todo)
           IN  /\ Succ(a).todo = TasksOf(t, a.labels, a.counters) \o Tail(a.todo)
               /\ Succ(a).labels = a.labels + LabelsOf(t)
               /\ Succ(a).count = IF t.do = "emit" THEN a.count + 1 ELSE a.count
               /\ Succ(a).counters = CountersAfter(t, a.counters)
               /\ Succ(a).func = IF TypeOf(t) = "FUNC_DEF" THEN 1
                                 ELSE IF t.do = "leave_func" THEN 0 ELSE a.func
               /\ Succ(a).frame = IF TypeOf(t) = "FUNC_DEF" THEN 0
                                  ELSE IF t.do = "leave_func" THEN a.store
                                  ELSE IF Registers(t) THEN a.frame + 1 ELSE a.frame
               /\ Succ(a).store = IF TypeOf(t) = "FUNC_DEF" THEN a.frame ELSE a.store
               /\ Succ(a).globals = IF Registers(t) /\ a.func = 0 THEN a.globals + 1 ELSE a.globals
               /\ Succ(a).locals = IF t.do = "leave_func" THEN << >>
                                   ELSE IF Registers(t) /\ a.func = 1
                                   THEN Append(a.locals, t.node.data) ELSE a.locals
  BY DEF Succ

LEMMA HeadMatch ==
    ASSUME TypeInv, NEW a, NEW b, Match(a, b), todo # << >>
    PROVE  /\ Head(a.todo).do = Head(todo).do
           /\ Head(todo).do # "emit" => Head(a.todo) = Head(todo)
           /\ Same(Tail(a.todo), Tail(todo))
  BY TailSame DEF Match, Alike

LEMMA TodoMatch ==
    ASSUME TypeInv, NEW a, NEW b, Match(a, b), todo # << >>, NEW L, Continue(L),
           Same(TasksOf(Head(a.todo), a.labels, a.counters), L)
    PROVE  Same(Succ(a).todo, todo')
  <1>1. Same(Tail(a.todo), Tail(todo))
    BY HeadMatch
  <1>2. todo' = L \o Tail(todo)
    BY DEF Continue
  <1>3. Succ(a).todo = TasksOf(Head(a.todo), a.labels, a.counters) \o Tail(a.todo)
    BY SuccFields
  <1> QED
    BY <1>1, <1>2, <1>3, ConcatSame

\* The steps that neither emit nor register, and leave the scope as it is.
Quiet(t) == /\ t.do \notin {"emit", "leave_func"} /\ TypeOf(t) # "FUNC_DEF" /\ ~Registers(t)

LEMMA QuietMatch ==
    ASSUME TypeInv, NEW a, NEW b, Match(a, b), todo # << >>, Quiet(Head(todo)), NEW L, Continue(L),
           Same(TasksOf(Head(todo), cur_label_index, args_counters), L),
           cur_label_index' = cur_label_index + LabelsOf(Head(todo)),
           args_counters' = CountersAfter(Head(todo), args_counters),
           Emitted' = Emitted, UNCHANGED scopes
    PROVE  Match(Succ(a), b)'
  <1> DEFINE t == Head(todo)
             c == Succ(a)
  <1>1. Head(a.todo) = t /\ a.labels = cur_label_index /\ a.counters = args_counters
    BY HeadMatch DEF Quiet, Match
  <1>2. Same(c.todo, todo')
    BY <1>1, TodoMatch
  <1>3. /\ c.labels = a.labels + LabelsOf(t) /\ c.count = a.count
        /\ c.counters = CountersAfter(t, args_counters) /\ c.func = a.func /\ c.frame = a.frame
        /\ c.store = a.store /\ c.globals = a.globals /\ c.locals = a.locals
    BY <1>1, SuccFields DEF Quiet
  <1> HIDE DEF c, t
  <1> QED
    BY <1>1, <1>2, <1>3 DEF Match, scopes, t, c

\* A handler of another type does not convert a node.
LEMMA NoNode == \A t : t.do # "subtree_convert" => TypeOf(t) = "none"
  BY DEF TypeOf

\* Nothing in the place of the task.
LEMMA DropMatch ==
    ASSUME TypeInv, NEW a, NEW b, Match(a, b), NEW h, At_(h), Continue(<< >>),
           h \in {"numeric_label", "function_label", "get_var_code", "catch", "operands_done"},
           UNCHANGED << cur_label_index, args_counters, scopes >>, Emitted' = Emitted
    PROVE  Match(Succ(a), b)'
  <1> DEFINE t == Head(todo)
  <1>1. t.do = h /\ todo # << >>
    BY DEF At_
  <1>2. TypeOf(t) = "none"
    BY <1>1, NoNode
  <1>3. Quiet(t) /\ LabelsOf(t) = 0 /\ CountersAfter(t, args_counters) = args_counters
    BY <1>1, <1>2 DEF Quiet, Registers, LabelsOf, CountersAfter
  <1>4. TasksOf(t, cur_label_index, args_counters) = << >>
    BY <1>1 DEF TasksOf
  <1>5. Same(<< >>, << >>)
    BY EmptyList, SameSelf
  <1>6. cur_label_index \in Nat
    BY DEF TypeInv, TypeOK
  <1> HIDE DEF t
  <1>7. cur_label_index' = cur_label_index + LabelsOf(t)
    BY <1>3, <1>6
  <1> QED
    BY <1>1, <1>3, <1>4, <1>5, <1>7, QuietMatch DEF t

LEMMA SimpleMatch ==
    ASSUME TypeInv, NEW a, NEW b, Match(a, b), status' = "running",
           \/ register_numeric_label \/ register_function_label \/ Catch \/ OperandsDone
           \/ get_var_code /\ ~Undeclared
    PROVE  Match(Succ(a), b)'
  <1>1. CASE register_numeric_label
    BY <1>1, DropMatch DEF register_numeric_label, Emitted, output
  <1>2. CASE register_function_label
    BY <1>2, DropMatch DEF register_function_label, Emitted, output
  <1>3. CASE Catch
    BY <1>3, DropMatch DEF Catch, GoOn, Emitted, output
  <1>4. CASE OperandsDone
    BY <1>4, DropMatch DEF OperandsDone, Emitted, output
  <1>5. CASE get_var_code /\ ~Undeclared
    <2>1. /\ At_("get_var_code") /\ Continue(<< >>)
          /\ UNCHANGED << cur_label_index, args_counters, scopes >>
          /\ pass_index' = pass_index /\ current_instruction_index' = current_instruction_index
      BY <1>5 DEF get_var_code, Undeclared
    <2>2. Len(ir_code') = Len(ir_code)
      BY <1>5, LookUpCode
    <2>3. Emitted' = Emitted
      BY <2>1, <2>2 DEF Emitted
    <2> QED
      BY <2>1, <2>3, DropMatch
  <1> QED
    BY <1>1, <1>2, <1>3, <1>4, <1>5

\* The conversion of a node that takes no label and registers nothing.
LEMMA NodeMatch ==
    ASSUME TypeInv, NEW a, NEW b, Match(a, b), NEW type, AtNode(type), NEW L, Continue(L),
           type \notin {"FUNC_DEF", "FUNC_CALL", "VAR_DEF"},
           Same(NodeTasks(Node, Head(todo).result_used, cur_label_index), L),
           cur_label_index' = cur_label_index + (IF type = "WHILE" THEN 2 ELSE 0),
           UNCHANGED << args_counters, scopes, pass_index, output >>
    PROVE  Match(Succ(a), b)'
  <1> DEFINE t == Head(todo)
  <1>1. t.do = "subtree_convert" /\ todo # << >> /\ t.node # nullptr /\ t.node = Node /\ t.node.type = type
    BY DEF AtNode, At_, Node
  <1>2. TypeOf(t) = type
    BY <1>1 DEF TypeOf
  <1>3. Quiet(t) /\ CountersAfter(t, args_counters) = args_counters
    BY <1>1, <1>2 DEF Quiet, Registers, CountersAfter
  <1>4. LabelsOf(t) = IF type = "WHILE" THEN 2 ELSE 0
    BY <1>1, <1>2 DEF LabelsOf
  <1>5. TasksOf(t, cur_label_index, args_counters) = NodeTasks(t.node, t.result_used, cur_label_index)
    BY <1>1 DEF TasksOf
  <1>6. Emitted' = Emitted
    BY DEF Emitted, output
  <1> QED
    BY <1>1, <1>3, <1>4, <1>5, <1>6, QuietMatch

LEMMA NodesMatch ==
    ASSUME TypeInv, NEW a, NEW b, Match(a, b), ConvertSimple \/ convert_op \/ convert_if
    PROVE  Match(Succ(a), b)'
  <1> DEFINE u == Head(todo).result_used
             l == cur_label_index
  <1>0. l \in Nat
    BY DEF TypeInv, TypeOK
  <1>1. CASE ConvertSimple
    <2>1. PICK type \in {"FICTIOUS", "VAL", "VAR", "RETURN"} : AtNode(type)
      BY <1>1 DEF ConvertSimple
    <2>2. Node \in Nodes /\ Node.type = type
      BY <2>1, NodeAt
    <2>3. NodeTasks(Node, u, l) = SimpleTasks(Node)
      BY <2>2 DEF NodeTasks
    <2>4. SimpleTasks(Node) \in Seq(Tasks)
      BY <2>2, SimpleMade DEF Makes, GoodList
    <2>5. Same(NodeTasks(Node, u, l), SimpleTasks(Node))
      BY <2>3, <2>4, SameSelf
    <2>6. /\ Continue(SimpleTasks(Node)) /\ cur_label_index' = cur_label_index
          /\ UNCHANGED << args_counters, scopes, pass_index, output >>
      BY <1>1 DEF ConvertSimple, GoOn
    <2>7. cur_label_index' = cur_label_index + (IF type = "WHILE" THEN 2 ELSE 0)
      BY <1>0, <2>6
    <2> QED
      BY <2>1, <2>5, <2>6, <2>7, NodeMatch
  <1>2. CASE convert_op
    <2>1. AtNode("OP") /\ Node \in Nodes /\ Node.type = "OP"
      BY <1>2, NodeAt DEF convert_op
    <2>2. NodeTasks(Node, u, l) = OpTasks(Node)
      BY <2>1 DEF NodeTasks
    <2>3. OpTasks(Node) \in Seq(Tasks)
      BY <2>1, OpMade DEF Makes, GoodList
    <2>4. Same(NodeTasks(Node, u, l), OpTasks(Node))
      BY <2>2, <2>3, SameSelf
    <2>5. /\ Continue(OpTasks(Node)) /\ cur_label_index' = cur_label_index + 0
          /\ UNCHANGED << args_counters, scopes, pass_index, output >>
      BY <1>0, <1>2 DEF convert_op, GoOn
    <2> QED
      BY <2>1, <2>4, <2>5, NodeMatch
  <1>3. CASE convert_if
    <2> DEFINE p == Used(Node.left)
               q == Emit(WithImm("PUSH", 0))
               r == Rest("if", Node.right)
               L == << p, q, r >>
               M == << p, Some, r >>
    <2>1. AtNode("IF") /\ Node \in Nodes /\ Node.type = "IF"
      BY <1>3, NodeAt DEF convert_if
    <2>6. Node.left \in MaybeNodes /\ Node.right \in Nodes
      BY <2>1, NodeFacts
    <2>7. q.do = "emit"
      BY DEF Emit
    <2>2. p \in Tasks /\ q \in Tasks /\ r \in Tasks
      BY <2>6, InertTasks, InertEmits DEF Inert
    <2>3. NodeTasks(Node, u, l) = M
      BY <2>1 DEF NodeTasks
    <2>4. /\ Continue(L) /\ cur_label_index' = cur_label_index + 0
          /\ UNCHANGED << args_counters, scopes, pass_index, output >>
      BY <1>0, <1>3 DEF convert_if, GoOn, Used
    <2> HIDE DEF p, q, r
    <2>5. Same(M, L)
      BY <2>2, <2>7, SomeTask, Same3 DEF Alike
    <2> HIDE DEF L, M
    <2> QED
      BY <2>1, <2>3, <2>4, <2>5, NodeMatch
  <1> QED
    BY <1>1, <1>2, <1>3

\* Emitted instructions and labels are tasks.
LEMMA EmitTask == ASSUME NEW i \in Instr PROVE Emit(i) \in Tasks /\ Emit(i).do = "emit"
  BY DEF Emit, Tasks

LEMMA JumpTask ==
    ASSUME NEW t \in Jumps \cup {"JMP", "CALL", "PUSH"}, NEW v \in Int
    PROVE  Emit(WithImm(t, v)) \in Tasks /\ Emit(WithImm(t, v)).do = "emit"
  <1>1. t \in InstrTypes
    BY DEF InstrTypes, Encodable
  <1> QED
    BY <1>1, InstrFacts, EmitTask

LEMMA LabelTasks == \A l \in Nat : Label(l) \in Tasks
  BY LabelTask DEF TaskOK

\* The handlers that take labels.
LEMMA TrueFalseMatch ==
    ASSUME TypeInv, NEW a, NEW b, Match(a, b), emit_push_true_false PROVE Match(Succ(a), b)'
  <1> DEFINE t == Head(todo)
             l == cur_label_index
             p == Emit(WithImm(t.jmp_type, Target(l)))
             q == Emit(WithImm("PUSH", 0))
             r == Emit(WithImm("JMP", Target(l + 1)))
             u == Emit(WithImm("PUSH", 1))
             c == Label(l)
             d == Label(l + 1)
             L == << p, q, r, c, u, d >>
             M == << Some, Some, Some, c, Some, d >>
  <1>1. At_("push_true_false") /\ todo # << >> /\ t.do = "push_true_false"
    BY DEF emit_push_true_false, At_
  <1>2. t.jmp_type \in Jumps /\ l \in Nat
    BY <1>1, HeadTask, TaskFields DEF TypeInv, TypeOK
  <1>3. /\ p \in Tasks /\ p.do = "emit" /\ q \in Tasks /\ q.do = "emit"
        /\ r \in Tasks /\ r.do = "emit" /\ u \in Tasks /\ u.do = "emit"
    <2>1. Target(l) \in Int /\ Target(l + 1) \in Int
      BY TargetTypes
    <2> HIDE DEF t, l
    <2>2. p \in Tasks /\ p.do = "emit"
      BY <1>2, <2>1, JumpTask
    <2>3. q \in Tasks /\ q.do = "emit" /\ u \in Tasks /\ u.do = "emit"
      BY JumpTask
    <2>4. r \in Tasks /\ r.do = "emit"
      BY <2>1, JumpTask
    <2> QED
      BY <2>2, <2>3, <2>4
  <1>4. c \in Tasks /\ d \in Tasks
    BY <1>2, LabelTasks
  <1>5. Continue(L)
    BY DEF emit_push_true_false
  <1> HIDE DEF p, q, r, u
  <1>6. Same(M, L)
    <2> HIDE DEF c, d
    <2> QED
      BY <1>3, <1>4, SomeTask, Same6 DEF Alike
  <1>7. TypeOf(t) = "none"
    BY <1>1, NoNode
  <1>8. Quiet(t) /\ LabelsOf(t) = 2 /\ CountersAfter(t, args_counters) = args_counters
    BY <1>1, <1>7 DEF Quiet, Registers, LabelsOf, CountersAfter
  <1>9. TasksOf(t, l, args_counters) = M
    BY <1>1 DEF TasksOf
  <1>10. Emitted' = Emitted /\ UNCHANGED << scopes, args_counters >> /\ cur_label_index' = l + 2
    BY DEF emit_push_true_false, Emitted, output, GetLabels
  <1> HIDE DEF L, M, t, l
  <1> QED
    BY <1>1, <1>5, <1>6, <1>8, <1>9, <1>10, QuietMatch DEF t, l

LEMMA BranchesMatch ==
    ASSUME TypeInv, NEW a, NEW b, Match(a, b), ConvertBranches PROVE Match(Succ(a), b)'
  <1> DEFINE t == Head(todo)
             l == cur_label_index
             p == Emit(WithImm("JE", Target(l + 1)))
             q == Used(Node.left)
             r == Emit(WithImm("JMP", Target(l)))
             u == Used(Node.right)
             c == Label(l)
             d == Label(l + 1)
             e == Emit(WithImm("JE", Target(l)))
             L == << p, q, r, d, u, c >>
             M == << Some, q, Some, d, u, c >>
             L1 == << e, u, c >>
             M1 == << Some, u, c >>
  <1>1. At_("if") /\ todo # << >> /\ t.do = "if" /\ t.node = Node
    BY DEF ConvertBranches, At_, Node
  <1>2. Node \in Nodes /\ l \in Nat
    BY <1>1, HeadTask DEF TaskOK, TypeInv, TypeOK
  <1>3. /\ p \in Tasks /\ p.do = "emit" /\ r \in Tasks /\ r.do = "emit"
        /\ e \in Tasks /\ e.do = "emit"
    BY <1>2, TargetTypes, JumpTask DEF Jumps
  <1>4. Node.left \in MaybeNodes /\ Node.right \in MaybeNodes
    BY <1>2, NodeFacts
  <1>5. q \in Tasks /\ u \in Tasks
    BY <1>4, InertTasks DEF Inert
  <1>6. c \in Tasks /\ d \in Tasks
    BY <1>2, LabelTasks
  <1>7. IF Node.left # nullptr THEN Continue(L) ELSE Continue(L1)
    BY DEF ConvertBranches, Used
  <1>8. cur_label_index' = l + LabelsOf(t)
    BY <1>1 DEF ConvertBranches, GetLabels, LabelsOf, TypeOf
  <1> HIDE DEF p, r, e, q, u
  <1>9. Same(M, L) /\ Same(M1, L1)
    <2> HIDE DEF c, d
    <2> QED
      BY <1>3, <1>5, <1>6, SomeTask, Same6, Same3 DEF Alike
  <1>10. TypeOf(t) = "none"
    BY <1>1, NoNode
  <1>11. Quiet(t) /\ CountersAfter(t, args_counters) = args_counters
    BY <1>1, <1>10 DEF Quiet, Registers, CountersAfter
  <1>12. TasksOf(t, l, args_counters) = IF Node.left # nullptr THEN M ELSE M1
    BY <1>1 DEF TasksOf, q, u
  <1>13. Emitted' = Emitted /\ UNCHANGED << scopes, args_counters >>
    BY DEF ConvertBranches, Emitted, output
  <1> HIDE DEF L, M, L1, M1, t, l
  <1>14. CASE Node.left # nullptr
    BY <1>1, <1>7, <1>8, <1>9, <1>11, <1>12, <1>13, <1>14, QuietMatch DEF t, l
  <1>15. CASE Node.left = nullptr
    BY <1>1, <1>7, <1>8, <1>9, <1>11, <1>12, <1>13, <1>15, QuietMatch DEF t, l
  <1> QED
    BY <1>14, <1>15

LEMMA WhileMatch ==
    ASSUME TypeInv, NEW a, NEW b, Match(a, b), convert_while PROVE Match(Succ(a), b)'
  <1> DEFINE l == cur_label_index
             c == Label(l)
             p == Used(Node.left)
             q == Emit(WithImm("PUSH", 0))
             r == Emit(WithImm("JE", Target(l + 1)))
             u == Used(Node.right)
             e == Emit(WithImm("JMP", Target(l)))
             d == Label(l + 1)
             L == << c, p, q, r, u, e, d >>
             M == << c, p, Some, Some, u, Some, d >>
  <1>1. AtNode("WHILE") /\ Node \in Nodes /\ Node.type = "WHILE"
    BY NodeAt DEF convert_while
  <1>2. l \in Nat
    BY DEF TypeInv, TypeOK
  <1>3. q \in Tasks /\ q.do = "emit" /\ r \in Tasks /\ r.do = "emit" /\ e \in Tasks /\ e.do = "emit"
    BY <1>2, TargetTypes, JumpTask DEF Jumps
  <1>4. Node.left \in MaybeNodes /\ Node.right \in MaybeNodes
    BY <1>1, NodeFacts
  <1>5. p \in Tasks /\ u \in Tasks
    BY <1>4, InertTasks DEF Inert
  <1>6. c \in Tasks /\ d \in Tasks
    BY <1>2, LabelTasks
  <1>7. Continue(L)
    BY DEF convert_while, Used
  <1>8. NodeTasks(Node, Head(todo).result_used, l) = M
    BY <1>1 DEF NodeTasks
  <1>9. cur_label_index' = l + 2 /\ UNCHANGED << args_counters, scopes, pass_index, output >>
    BY DEF convert_while, GetLabels
  <1> HIDE DEF p, q, r, u, e, c, d
  <1>10. Same(M, L)
    BY <1>3, <1>5, <1>6, SomeTask, Same7 DEF Alike
  <1> HIDE DEF L, M
  <1> QED
    BY <1>1, <1>7, <1>8, <1>9, <1>10, NodeMatch

\* Definitions and calls.
LEMMA FuncDefMatch ==
    ASSUME TypeInv, NEW a, NEW b, Match(a, b), convert_func_def PROVE Match(Succ(a), b)'
  <1> DEFINE t == Head(todo)
             l == cur_label_index
             p == Emit(WithImm("JMP", Target(l)))
             q == FunctionLabel(Node.data)
             r == Rest("def_args", Node.left)
             u == Used(Node.right)
             d == Label(l)
             e == Mark("leave_func")
             L == << p, q, r, u, d, e >>
             M == << Some, q, r, u, d, e >>
             c == Succ(a)
  <1>1. AtNode("FUNC_DEF") /\ Node \in Nodes /\ Node.type = "FUNC_DEF"
    BY NodeAt DEF convert_func_def
  <1>2. /\ t.do = "subtree_convert" /\ todo # << >> /\ t.node # nullptr /\ t.node = Node
        /\ l \in Nat
    BY <1>1 DEF AtNode, At_, Node, TypeInv, TypeOK
  <1>3. p \in Tasks /\ p.do = "emit"
    BY <1>2, TargetTypes, JumpTask
  <1>4. q \in Tasks /\ r \in Tasks /\ u \in Tasks
    <2>1. Node.left \in MaybeNodes /\ Node.right \in MaybeNodes /\ Node.data \in Int
      BY <1>1, NodeFacts
    <2> QED
      BY <2>1, InertTasks DEF Inert
  <1>5. d \in Tasks /\ e \in Tasks
    BY <1>2, LabelTasks DEF Mark, Tasks
  <1>6. TypeOf(t) = "FUNC_DEF"
    BY <1>1, <1>2 DEF TypeOf
  <1>7. TasksOf(t, l, args_counters) = M
    BY <1>1, <1>2 DEF TasksOf, NodeTasks
  <1>8. Continue(L)
    BY DEF convert_func_def, Used
  <1>9. /\ global_frame_size_store' = frame_size /\ frame_size' = 0 /\ in_func' = TRUE
        /\ cur_label_index' = l + 1 /\ UNCHANGED << global_vars, local_vars, args_counters >>
        /\ Emitted' = Emitted
    BY DEF convert_func_def, GetLabels, Emitted, output
  <1>10. LabelsOf(t) = 1 /\ CountersAfter(t, args_counters) = args_counters /\ ~Registers(t)
    BY <1>2, <1>6 DEF LabelsOf, CountersAfter, Registers
  <1> HIDE DEF p, q, r, u, d, e
  <1>11. Same(M, L)
    BY <1>3, <1>4, <1>5, SomeTask, Same6 DEF Alike
  <1> HIDE DEF L, M
  <1>12. Head(a.todo) = t /\ a.labels = l /\ a.counters = args_counters
    BY <1>2, HeadMatch DEF Match
  <1>13. Same(c.todo, todo')
    BY <1>2, <1>7, <1>8, <1>11, <1>12, TodoMatch
  <1>14. /\ c.labels = a.labels + 1 /\ c.count = a.count
         /\ c.counters = args_counters /\ c.func = 1 /\ c.frame = 0
         /\ c.store = a.frame /\ c.globals = a.globals /\ c.locals = a.locals
    BY <1>2, <1>6, <1>10, <1>12, SuccFields
  <1> HIDE DEF c, t, l
  <1> QED
    BY <1>9, <1>12, <1>13, <1>14 DEF Match, c

LEMMA LeaveMatch ==
    ASSUME TypeInv, NEW a, NEW b, Match(a, b), LeaveFunc PROVE Match(Succ(a), b)'
  <1> DEFINE t == Head(todo)
             c == Succ(a)
  <1>1. At_("leave_func") /\ todo # << >> /\ t.do = "leave_func" /\ Continue(<< >>)
    BY DEF LeaveFunc, At_
  <1>2. TypeOf(t) = "none"
    BY <1>1, NoNode
  <1>3. /\ TasksOf(t, cur_label_index, args_counters) = << >> /\ LabelsOf(t) = 0
        /\ CountersAfter(t, args_counters) = args_counters /\ ~Registers(t)
    BY <1>1, <1>2 DEF TasksOf, LabelsOf, CountersAfter, Registers
  <1>4. Same(<< >>, << >>)
    BY EmptyList, SameSelf
  <1>5. Head(a.todo) = t /\ a.labels = cur_label_index /\ a.counters = args_counters
    BY <1>1, HeadMatch DEF Match
  <1>6. Same(c.todo, todo')
    BY <1>1, <1>3, <1>4, <1>5, TodoMatch
  <1>7. /\ c.labels = a.labels + 0 /\ c.count = a.count
        /\ c.counters = args_counters /\ c.func = 0 /\ c.frame = a.store
        /\ c.store = a.store /\ c.globals = a.globals /\ c.locals = << >>
    BY <1>1, <1>2, <1>3, <1>5, SuccFields
  <1>8. /\ in_func' = FALSE /\ local_vars' = << >> /\ frame_size' = global_frame_size_store
        /\ UNCHANGED << cur_label_index, global_frame_size_store, global_vars, args_counters >>
        /\ Emitted' = Emitted /\ cur_label_index \in Nat
    BY DEF LeaveFunc, Emitted, output, TypeInv, TypeOK
  <1> HIDE DEF c, t
  <1> QED
    BY <1>5, <1>6, <1>7, <1>8 DEF Match, c

LEMMA EmitMatch ==
    ASSUME TypeInv, NEW a, NEW b, Match(a, b), emit_instruction PROVE Match(Succ(a), b)'
  <1> DEFINE t == Head(a.todo)
             c == Succ(a)
  <1>1. At_("emit") /\ todo # << >> /\ t.do = "emit" /\ Continue(<< >>)
    BY HeadMatch DEF emit_instruction, At_
  <1>2. TypeOf(t) = "none"
    BY <1>1, NoNode
  <1>3. /\ TasksOf(t, a.labels, a.counters) = << >> /\ LabelsOf(t) = 0
        /\ CountersAfter(t, a.counters) = a.counters /\ ~Registers(t)
    BY <1>1, <1>2 DEF TasksOf, LabelsOf, CountersAfter, Registers
  <1>4. Same(<< >>, << >>)
    BY EmptyList, SameSelf
  <1>6. Same(c.todo, todo')
    BY <1>1, <1>3, <1>4, TodoMatch
  <1>7. /\ c.labels = a.labels + 0 /\ c.count = a.count + 1
        /\ c.counters = a.counters /\ c.func = a.func /\ c.frame = a.frame
        /\ c.store = a.store /\ c.globals = a.globals /\ c.locals = a.locals
    BY <1>1, <1>2, <1>3, SuccFields
  <1>8. UNCHANGED << cur_label_index, scopes, args_counters >> /\ cur_label_index \in Nat
    BY DEF emit_instruction, TypeInv, TypeOK
  <1>9. Emitted' = Emitted + 1
    <2>1. ir_code \in Seq(Instr) /\ Head(todo).ins \in Instr
      BY <1>1, HeadTask, TaskFields DEF TypeInv, TypeOK, At_
    <2>2. Len(Append(ir_code, Head(todo).ins)) = Len(ir_code) + 1
      BY <2>1
    <2>3. CASE pass_index = PASS_INDEX_TO_CALC_OFFSETS
      BY <2>3 DEF emit_instruction, Emitted
    <2>4. CASE pass_index # PASS_INDEX_TO_CALC_OFFSETS
      BY <2>2, <2>4 DEF emit_instruction, Emitted, code_insert
    <2> QED
      BY <2>3, <2>4
  <1> HIDE DEF c, t
  <1> QED
    BY <1>6, <1>7, <1>8, <1>9 DEF Match, c, scopes

\* A variable is registered.
LEMMA RegisterMatch ==
    ASSUME TypeInv, NEW a, NEW b, Match(a, b), todo # << >>, Registers(Head(todo)), Continue(<< >>),
           register_var(Head(todo).node.data), TasksOf(Head(todo), cur_label_index, args_counters) = << >>,
           Head(todo).node.data \in Int,
           UNCHANGED << cur_label_index, args_counters, pass_index, output >>
    PROVE  Match(Succ(a), b)'
  <1> DEFINE t == Head(todo)
             v == t.node.data
             c == Succ(a)
  <1>1. t.do \in {"subtree_convert", "def_args"}
    BY DEF Registers, TypeOf
  <1>2. /\ TypeOf(t) \notin {"FUNC_DEF", "FUNC_CALL", "WHILE"} /\ LabelsOf(t) = 0
        /\ CountersAfter(t, args_counters) = args_counters
    <2>1. TypeOf(t) \in {"VAR_DEF", "none"}
      BY <1>1, NoNode DEF Registers
    <2> QED
      BY <1>1, <2>1 DEF LabelsOf, CountersAfter
  <1>4. Same(<< >>, << >>)
    BY EmptyList, SameSelf
  <1>5. Head(a.todo) = t /\ a.labels = cur_label_index /\ a.counters = args_counters
    BY <1>1, HeadMatch DEF Match
  <1>6. Same(c.todo, todo')
    BY <1>4, <1>5, TodoMatch
  <1>7. /\ c.labels = a.labels + 0 /\ c.count = a.count /\ c.counters = args_counters
        /\ c.func = a.func /\ c.frame = a.frame + 1 /\ c.store = a.store
        /\ c.globals = IF a.func = 0 THEN a.globals + 1 ELSE a.globals
        /\ c.locals = IF a.func = 1 THEN Append(a.locals, v) ELSE a.locals
    BY <1>1, <1>2, <1>5, SuccFields
  <1>8. /\ cur_label_index \in Nat /\ global_vars \in Seq(Int) /\ in_func \in BOOLEAN
        /\ Len(Append(global_vars, v)) = Len(global_vars) + 1 /\ Emitted' = Emitted
        /\ Len(global_vars) \in Nat
    BY DEF TypeInv, TypeOK, Emitted, output
  <1>9. /\ frame_size' = frame_size + 1 /\ in_func' = in_func
        /\ global_frame_size_store' = global_frame_size_store
        /\ in_func => local_vars' = Append(local_vars, v) /\ global_vars' = global_vars
        /\ ~in_func => global_vars' = Append(global_vars, v) /\ local_vars' = local_vars
    BY DEF register_var
  <1> HIDE DEF c, t, v
  <1>10. CASE in_func
    BY <1>5, <1>6, <1>7, <1>8, <1>9, <1>10 DEF Match, c
  <1>11. CASE ~in_func
    <2>1. a.func = 0 /\ Len(global_vars) = b + a.globals
      BY <1>11 DEF Match
    <2>3. b \in Nat /\ a.globals \in Nat
      BY DEF Match
    <2>2. Len(global_vars') = b + c.globals /\ c.globals \in Nat
      BY <1>7, <1>8, <1>9, <1>11, <2>1, <2>3
    <2> QED
      BY <1>5, <1>6, <1>7, <1>8, <1>9, <1>11, <2>1, <2>2, <2>3 DEF Match, c
  <1> QED
    BY <1>10, <1>11

LEMMA VarMatch ==
    ASSUME TypeInv, NEW a, NEW b, Match(a, b),
           ConvertVarDef \/ (convert_func_def_args /\ Node # nullptr /\ Node.type = "VAR")
    PROVE  Match(Succ(a), b)'
  <1> DEFINE t == Head(todo)
  <1>1. CASE ConvertVarDef
    <2>1. AtNode("VAR_DEF") /\ Node \in Nodes /\ Node.type = "VAR_DEF"
      BY <1>1, NodeAt DEF ConvertVarDef
    <2>2. t.do = "subtree_convert" /\ todo # << >> /\ t.node # nullptr /\ t.node = Node
      BY <2>1 DEF AtNode, At_, Node
    <2>3. Registers(t)
      BY <2>1, <2>2 DEF Registers, TypeOf
    <2>4. TasksOf(t, cur_label_index, args_counters) = << >>
      BY <2>1, <2>2 DEF TasksOf, NodeTasks
    <2>5. /\ Continue(<< >>) /\ register_var(t.node.data)
          /\ UNCHANGED << cur_label_index, args_counters, pass_index, output >>
      BY <1>1, <2>2 DEF ConvertVarDef
    <2>6. t.node.data \in Int
      BY <2>1, <2>2, NodeFacts
    <2> QED
      BY <2>2, <2>3, <2>4, <2>5, <2>6, RegisterMatch
  <1>2. CASE convert_func_def_args /\ Node # nullptr /\ Node.type = "VAR"
    <2>1. /\ t.do = "def_args" /\ todo # << >> /\ t.node = Node /\ t.node # nullptr
          /\ t.node.type = "VAR"
      BY <1>2 DEF convert_func_def_args, At_, Node
    <2>2. Node \in Nodes
      BY <1>2, <2>1, HeadTask, TaskFields DEF MaybeNodes
    <2>3. Registers(t)
      BY <2>1 DEF Registers
    <2>4. TasksOf(t, cur_label_index, args_counters) = << >>
      BY <2>1 DEF TasksOf
    <2>5. /\ Continue(<< >>) /\ register_var(t.node.data)
          /\ UNCHANGED << cur_label_index, args_counters, pass_index, output >>
      BY <1>2, <2>1 DEF convert_func_def_args
    <2>6. t.node.data \in Int
      BY <2>1, <2>2, NodeFacts
    <2> QED
      BY <2>1, <2>3, <2>4, <2>5, <2>6, RegisterMatch
  <1> QED
    BY <1>1, <1>2

LEMMA DefArgsMatch ==
    ASSUME TypeInv, NEW a, NEW b, Match(a, b), convert_func_def_args, status' = "running",
           ~(Node # nullptr /\ Node.type = "VAR")
    PROVE  Match(Succ(a), b)'
  <1> DEFINE t == Head(todo)
  <1>1. t.do = "def_args" /\ todo # << >> /\ t.node = Node
    BY DEF convert_func_def_args, At_, Node
  <1>2. /\ UNCHANGED << cur_label_index, args_counters, scopes >> /\ Emitted' = Emitted
        /\ cur_label_index \in Nat
    BY DEF convert_func_def_args, Emitted, output, TypeInv, TypeOK
  <1>3. TypeOf(t) = "none"
    BY <1>1, NoNode
  <1>4. Quiet(t) /\ LabelsOf(t) = 0 /\ CountersAfter(t, args_counters) = args_counters
    BY <1>1, <1>3 DEF Quiet, Registers, LabelsOf, CountersAfter
  <1>5. CASE Node = nullptr
    <2>1. TasksOf(t, cur_label_index, args_counters) = << >> /\ Continue(<< >>)
      BY <1>1, <1>5 DEF TasksOf, convert_func_def_args
    <2>2. Same(<< >>, << >>)
      BY EmptyList, SameSelf
    <2> QED
      BY <1>1, <1>2, <1>4, <2>1, <2>2, QuietMatch
  <1>6. CASE Node # nullptr
    <2> DEFINE p == Rest("def_args", Node.left)
               q == Rest("def_args", Node.right)
               L == << p, q >>
    <2>1. Node.type = "FICTIOUS" /\ Continue(L)
      BY <1>6 DEF convert_func_def_args
    <2>2. Node \in Nodes
      BY <1>1, <1>6, HeadTask, TaskFields DEF MaybeNodes
    <2>3. TasksOf(t, cur_label_index, args_counters) = L
      BY <1>1, <1>6, <2>1 DEF TasksOf
    <2>4. p \in Tasks /\ q \in Tasks
      BY <2>2, NodeFacts, InertTasks DEF Inert
    <2> HIDE DEF p, q
    <2>6. L \in Seq(Tasks)
      BY <2>4
    <2> HIDE DEF L
    <2>5. Same(L, L)
      BY <2>6, SameSelf
    <2> QED
      BY <1>1, <1>2, <1>4, <2>1, <2>3, <2>5, QuietMatch
  <1> QED
    BY <1>5, <1>6

LEMMA NullMatch ==
    ASSUME TypeInv, NEW a, NEW b, Match(a, b), ConvertNull PROVE Match(Succ(a), b)'
  <1> DEFINE t == Head(todo)
  <1>1. t.do = "subtree_convert" /\ todo # << >> /\ t.node = nullptr /\ Continue(<< >>)
    BY DEF ConvertNull, At_, Node, GoOn
  <1>2. /\ UNCHANGED << cur_label_index, args_counters, scopes >> /\ Emitted' = Emitted
        /\ cur_label_index \in Nat
    BY DEF ConvertNull, GoOn, Emitted, output, TypeInv, TypeOK
  <1>3. TypeOf(t) = "none"
    BY <1>1 DEF TypeOf
  <1>4. Quiet(t) /\ LabelsOf(t) = 0 /\ CountersAfter(t, args_counters) = args_counters
    BY <1>1, <1>3 DEF Quiet, Registers, LabelsOf, CountersAfter
  <1>5. TasksOf(t, cur_label_index, args_counters) = << >>
    BY <1>1 DEF TasksOf
  <1>6. Same(<< >>, << >>)
    BY EmptyList, SameSelf
  <1> QED
    BY <1>1, <1>2, <1>4, <1>5, <1>6, QuietMatch

LEMMA AssigMatch ==
    ASSUME TypeInv, NEW a, NEW b, Match(a, b), emit_assig PROVE Match(Succ(a), b)'
  <1> DEFINE t == Head(todo)
             p == Emit(Plain("POP"))
             q == GetVarCode(Node.data)
             r == Mark("catch")
             L == << p, q, r >>
             M == << Some, q, r >>
  <1>1. At_("emit_assig") /\ t.do = "emit_assig" /\ todo # << >> /\ t.node = Node
    BY DEF emit_assig, At_, Node
  <1>2. Node \in Nodes /\ Node.type = "VAR"
    BY <1>1, HeadTask DEF TaskOK
  <1>3. Node.data \in Int
    BY <1>2, NodeFacts
  <1>4. p \in Tasks /\ q \in Tasks /\ r \in Tasks
    BY <1>3, LookUpTasks, InertTasks DEF TaskOK, Inert
  <1>5. p.do = "emit"
    BY DEF Emit
  <1>6. /\ UNCHANGED << cur_label_index, args_counters, scopes >> /\ Emitted' = Emitted
        /\ cur_label_index \in Nat /\ Continue(L)
    BY DEF emit_assig, GoOn, Emitted, output, TypeInv, TypeOK
  <1>7. TypeOf(t) = "none"
    BY <1>1, NoNode
  <1>8. Quiet(t) /\ LabelsOf(t) = 0 /\ CountersAfter(t, args_counters) = args_counters
    BY <1>1, <1>7 DEF Quiet, Registers, LabelsOf, CountersAfter
  <1>9. TasksOf(t, cur_label_index, args_counters) = M
    BY <1>1 DEF TasksOf
  <1> HIDE DEF p, q, r
  <1>10. Same(M, L)
    BY <1>4, <1>5, SomeTask, Same3 DEF Alike
  <1> HIDE DEF L, M
  <1> QED
    BY <1>1, <1>6, <1>8, <1>9, <1>10, QuietMatch

LEMMA FuncCallMatch ==
    ASSUME TypeInv, NEW a, NEW b, Match(a, b), ConvertFuncCall PROVE Match(Succ(a), b)'
  <1> DEFINE t == Head(todo)
             A == << Rest("call_args", Node.right), Rest("call", Node) >>
             p == Emit(WithReg("POP", REG_RAX))
             B == IF t.result_used THEN << >> ELSE << p >>
             C == IF t.result_used THEN << >> ELSE << Some >>
  <1>1. AtNode("FUNC_CALL") /\ Node \in Nodes /\ Node.type = "FUNC_CALL"
    BY NodeAt DEF ConvertFuncCall
  <1>2. t.do = "subtree_convert" /\ todo # << >> /\ t.node # nullptr /\ t.node = Node
    BY <1>1 DEF AtNode, At_, Node
  <1>3. TypeOf(t) = "FUNC_CALL"
    BY <1>1, <1>2 DEF TypeOf
  <1>4. /\ Continue(A \o B) /\ UNCHANGED << cur_label_index, scopes >> /\ Emitted' = Emitted
        /\ cur_label_index \in Nat /\ args_counters' = << 0 >> \o args_counters
    BY DEF ConvertFuncCall, Emitted, output, TypeInv, TypeOK
  <1>5. Quiet(t) /\ LabelsOf(t) = 0 /\ CountersAfter(t, args_counters) = << 0 >> \o args_counters
    BY <1>2, <1>3 DEF Quiet, Registers, LabelsOf, CountersAfter
  <1>6. TasksOf(t, cur_label_index, args_counters) = A \o C
    BY <1>1, <1>2 DEF TasksOf, NodeTasks
  <1>7. Same(A, A)
    <2>1. Rest("call_args", Node.right) \in Tasks /\ Rest("call", Node) \in Tasks
      BY <1>1, NodeFacts, InertTasks DEF Inert, TaskOK
    <2>2. A \in Seq(Tasks)
      <3> HIDE DEF Rest
      <3> QED
        BY <2>1
    <2> QED
      BY <2>2, SameSelf
  <1>8. p \in Tasks /\ p.do = "emit"
    BY InertEmits DEF Inert, Emit
  <1> HIDE DEF p
  <1>9. Same(<< Some >>, << p >>)
    <2>1. << Some >> \in Seq(Tasks) /\ << p >> \in Seq(Tasks)
      BY <1>8, SomeTask
    <2>2. Alike(Some, p)
      BY <1>8, SomeTask DEF Alike
    <2> QED
      BY <2>1, <2>2 DEF Same
  <1>10. Same(C, B)
    BY <1>9, EmptyList, SameSelf
  <1> HIDE DEF A, B, C
  <1>11. Same(A \o C, A \o B)
    BY <1>7, <1>10, ConcatSame
  <1>12. cur_label_index' = cur_label_index + LabelsOf(t)
    BY <1>4, <1>5
  <1> HIDE DEF t
  <1> QED
    BY <1>2, <1>4, <1>5, <1>6, <1>11, <1>12, QuietMatch DEF t

LEMMA CallArgsMatch ==
    ASSUME TypeInv, NEW a, NEW b, Match(a, b), convert_func_call_args PROVE Match(Succ(a), b)'
  <1> DEFINE t == Head(todo)
  <1>1. At_("call_args") /\ t.do = "call_args" /\ todo # << >> /\ t.node = Node
    BY DEF convert_func_call_args, At_, Node
  <1>2. /\ UNCHANGED << cur_label_index, scopes >> /\ Emitted' = Emitted /\ cur_label_index \in Nat
    BY DEF convert_func_call_args, Emitted, output, TypeInv, TypeOK
  <1>3. TypeOf(t) = "none"
    BY <1>1, NoNode
  <1>4. Quiet(t) /\ LabelsOf(t) = 0
    BY <1>1, <1>3 DEF Quiet, Registers, LabelsOf
  <1>5. CASE Node = nullptr
    <2>1. /\ TasksOf(t, cur_label_index, args_counters) = << >> /\ Continue(<< >>)
          /\ args_counters' = CountersAfter(t, args_counters)
      BY <1>1, <1>3, <1>5 DEF TasksOf, CountersAfter, convert_func_call_args
    <2>2. Same(<< >>, << >>)
      BY EmptyList, SameSelf
    <2> QED
      BY <1>1, <1>2, <1>4, <2>1, <2>2, QuietMatch
  <1>6. CASE Node # nullptr
    <2>1. Node \in Nodes
      BY <1>1, <1>6, HeadTask, TaskFields DEF MaybeNodes
    <2>2. CASE Node.type = "FICTIOUS"
      <3> DEFINE p == Rest("call_args", Node.left)
                 q == Rest("call_args", Node.right)
                 L == << p, q >>
      <3>1. /\ TasksOf(t, cur_label_index, args_counters) = L /\ Continue(L)
            /\ args_counters' = CountersAfter(t, args_counters)
        BY <1>1, <1>3, <1>6, <2>2 DEF TasksOf, CountersAfter, convert_func_call_args
      <3>2. p \in Tasks /\ q \in Tasks
        BY <2>1, NodeFacts, InertTasks DEF Inert
      <3> HIDE DEF p, q
      <3>3. L \in Seq(Tasks)
        BY <3>2
      <3> HIDE DEF L
      <3>4. Same(L, L)
        BY <3>3, SameSelf
      <3> QED
        BY <1>1, <1>2, <1>4, <3>1, <3>4, QuietMatch
    <2>3. CASE Node.type # "FICTIOUS"
      <3> DEFINE p == Used(Node)
                 q == Mark("catch")
                 L == << p, q >>
      <3>1. /\ TasksOf(t, cur_label_index, args_counters) = L /\ Continue(L)
            /\ args_counters' = CountersAfter(t, args_counters)
        BY <1>1, <1>3, <1>6, <2>3 DEF TasksOf, CountersAfter, convert_func_call_args, Used
      <3>2. p \in Tasks /\ q \in Tasks
        BY <2>1, InertTasks DEF Inert, MaybeNodes
      <3> HIDE DEF p, q
      <3>3. L \in Seq(Tasks)
        BY <3>2
      <3> HIDE DEF L
      <3>4. Same(L, L)
        BY <3>3, SameSelf
      <3> QED
        BY <1>1, <1>2, <1>4, <3>1, <3>4, QuietMatch
    <2> QED
      BY <2>2, <2>3
  <1> QED
    BY <1>5, <1>6

\* n instructions.
Emits(L, n) == L \in Seq(Tasks) /\ Len(L) = n /\ \A i \in 1 .. Len(L) : L[i].do = "emit"

LEMMA ConcatEmits ==
    ASSUME NEW A, NEW B, NEW m \in Nat, NEW n \in Nat, Emits(A, m), Emits(B, n)
    PROVE  Emits(A \o B, m + n)
  <1>1. A \in Seq(Tasks) /\ B \in Seq(Tasks)
    BY DEF Emits
  <1> DEFINE L == A \o B
  <1>2. /\ L \in Seq(Tasks) /\ Len(L) = Len(A) + Len(B)
        /\ \A i \in 1 .. Len(A) : L[i] = A[i]
        /\ \A i \in 1 .. Len(B) : L[Len(A) + i] = B[i]
        /\ \A i \in 1 .. Len(L) : i \in 1 .. Len(A) \/ \E j \in 1 .. Len(B) : i = Len(A) + j
    BY <1>1, ConcatPlaces
  <1> HIDE DEF L
  <1>3. ASSUME NEW i \in 1 .. Len(L) PROVE L[i].do = "emit"
    <2>1. CASE i \in 1 .. Len(A)
      BY <1>2, <2>1 DEF Emits
    <2>2. ASSUME NEW j \in 1 .. Len(B), i = Len(A) + j PROVE L[i].do = "emit"
      BY <1>2, <2>2 DEF Emits
    <2> QED
      BY <1>2, <2>1, <2>2
  <1> QED
    BY <1>2, <1>3 DEF Emits, L

LEMMA MoveFrameEmits ==
    ASSUME NEW op \in {"ADD", "SUB"}, frame_size \in Nat PROVE Emits(MoveFrame(op), 4)
  <1> DEFINE p == Emit(WithReg("PUSH", REG_RDX))
             q == Emit(WithImm("PUSH", frame_size))
             r == Emit(Plain(op))
             u == Emit(WithReg("POP", REG_RDX))
             L == << p, q, r, u >>
  <1>1. p \in Tasks /\ q \in Tasks /\ r \in Tasks /\ u \in Tasks
    BY InertEmits DEF Inert
  <1>2. p.do = "emit" /\ q.do = "emit" /\ r.do = "emit" /\ u.do = "emit"
    BY DEF Emit
  <1>3. MoveFrame(op) = L
    BY DEF MoveFrame
  <1> HIDE DEF p, q, r, u
  <1>4. /\ L \in Seq(Tasks) /\ Len(L) = 4
        /\ L[1] = p /\ L[2] = q /\ L[3] = r /\ L[4] = u
    BY <1>1
  <1> HIDE DEF L
  <1>5. \A i \in 1 .. Len(L) : i = 1 \/ i = 2 \/ i = 3 \/ i = 4
    BY <1>4
  <1>6. \A i \in 1 .. Len(L) : L[i].do = "emit"
    BY <1>2, <1>4, <1>5
  <1> QED
    BY <1>3, <1>4, <1>6 DEF Emits

LEMMA CallEmits ==
    ASSUME frame_size \in Nat, NEW n \in Nat, NEW v \in Int
    PROVE  Emits(MoveFrame("ADD") \o [i \in 1 .. n |-> Emit(WithMem("POP", REG_RDX, n - i))]
                   \o << Emit(WithImm("CALL", v)) >> \o MoveFrame("SUB"), n + 9)
  <1> DEFINE A == MoveFrame("ADD")
             B == [i \in 1 .. n |-> Emit(WithMem("POP", REG_RDX, n - i))]
             c == Emit(WithImm("CALL", v))
             C == << c >>
             D == MoveFrame("SUB")
  <1>1. Emits(A, 4) /\ Emits(D, 4)
    BY MoveFrameEmits
  <1>2. Emits(B, n)
    <2>1. \A i \in 1 .. n : Emit(WithMem("POP", REG_RDX, n - i)) \in Inert
      BY InertEmits
    <2>2. \A i \in 1 .. n : Emit(WithMem("POP", REG_RDX, n - i)) \in Tasks
      BY <2>1 DEF Inert
    <2>3. \A i \in 1 .. n : B[i].do = "emit"
      BY DEF Emit
    <2>4. B \in Seq(Tasks) /\ Len(B) = n
      <3> HIDE DEF Emit
      <3> QED
        BY <2>2
    <2> HIDE DEF B
    <2> QED
      BY <2>3, <2>4 DEF Emits
  <1>3. c \in Tasks /\ c.do = "emit"
    BY JumpTask
  <1> HIDE DEF c
  <1>4. Emits(C, 1)
    BY <1>3 DEF Emits
  <1> HIDE DEF A, B, C, D
  <1>5. Emits(A \o B, 4 + n)
    BY <1>1, <1>2, ConcatEmits
  <1>6. Emits(A \o B \o C, (4 + n) + 1)
    BY <1>4, <1>5, ConcatEmits
  <1>7. Emits(A \o B \o C \o D, ((4 + n) + 1) + 4)
    BY <1>1, <1>6, ConcatEmits
  <1>8. ((4 + n) + 1) + 4 = n + 9
    OBVIOUS
  <1> QED
    BY <1>7, <1>8 DEF A, B, C, D, c

LEMMA EmitsSame ==
    ASSUME NEW L, NEW n \in Nat, Emits(L, n) PROVE Same([i \in 1 .. n |-> Some], L)
  <1> DEFINE M == [i \in 1 .. n |-> Some]
  <1>1. M \in Seq(Tasks) /\ Len(M) = n /\ \A i \in 1 .. n : M[i] = Some
    BY SomeTask
  <1> HIDE DEF M
  <1>2. Same(M, L)
    BY <1>1, SomeTask DEF Emits, Same, Alike
  <1> QED
    BY <1>2 DEF M

LEMMA CallMatch ==
    ASSUME TypeInv, NEW a, NEW b, Match(a, b), convert_func_call, args_counters # << >>
    PROVE  Match(Succ(a), b)'
  <1> DEFINE t == Head(todo)
             n == Head(args_counters)
             v == addr_transl_translate(func_label_transl, Node.data)
             L == MoveFrame("ADD") \o [i \in 1 .. n |-> Emit(WithMem("POP", REG_RDX, n - i))]
                    \o << Emit(WithImm("CALL", v)) >> \o MoveFrame("SUB")
  <1>1. At_("call") /\ t.do = "call" /\ todo # << >>
    BY DEF convert_func_call, At_
  <1>2. /\ n \in Nat /\ frame_size \in Nat /\ cur_label_index \in Nat
    BY DEF TypeInv, TypeOK
  <1>3. v \in Int
    BY TargetTypes
  <1>4. Emits(L, n + 9)
    BY <1>2, <1>3, CallEmits
  <1>5. /\ Continue(L) /\ args_counters' = Tail(args_counters)
        /\ UNCHANGED << cur_label_index, scopes >> /\ Emitted' = Emitted
    BY DEF convert_func_call, Emitted, output
  <1> HIDE DEF L
  <1>6. Same([i \in 1 .. n + 9 |-> Some], L)
    BY <1>2, <1>4, EmitsSame
  <1>7. TasksOf(t, cur_label_index, args_counters) = [i \in 1 .. n + 9 |-> Some]
    BY <1>1 DEF TasksOf
  <1>8. TypeOf(t) = "none"
    BY <1>1, NoNode
  <1>9. /\ Quiet(t) /\ LabelsOf(t) = 0
        /\ CountersAfter(t, args_counters) = Tail(args_counters)
    BY <1>1, <1>8 DEF Quiet, Registers, LabelsOf, CountersAfter
  <1>10. cur_label_index' = cur_label_index + LabelsOf(t)
    BY <1>2, <1>5, <1>9
  <1> HIDE DEF t, n
  <1> QED
    BY <1>1, <1>5, <1>6, <1>7, <1>9, <1>10, QuietMatch DEF t, n

\* Whatever the pass.
LEMMA StepMatch ==
    ASSUME TypeInv, NEW a, NEW b, Match(a, b), Next, status = "running", status' = "running",
           ~start_new_pass, ~(get_var_code /\ Undeclared)
    PROVE  Match(Succ(a), b)'
  <1>1. ~Terminated
    BY DEF Terminated
  <1>2. ~ConvertElse
    BY DEF ConvertElse
  <1>3. convert_func_call => args_counters # << >>
    <2> SUFFICES ASSUME convert_func_call PROVE args_counters # << >>
      OBVIOUS
    <2>1. PICK k : CallsIn(todo, k) /\ k <= Len(args_counters)
      BY DEF TypeInv
    <2>2. k \in Nat /\ k >= 1
      BY <2>1, TailCalls DEF convert_func_call, At_, TypeInv, TypeOK
    <2> QED
      BY <2>1, <2>2
  <1> QED
    BY <1>1, <1>2, <1>3, SimpleMatch, NodesMatch, TrueFalseMatch, BranchesMatch, WhileMatch,
       FuncDefMatch, LeaveMatch, EmitMatch, VarMatch, DefArgsMatch, NullMatch, AssigMatch,
       FuncCallMatch, CallArgsMatch, CallMatch DEF Next

-----------------------------------------------------------------------------
(* What a pass leaves behind.                                              *)

\* A pass ends with HALT and start_new_pass; there is an argument counter for
\* each call in progress, and a function that has been entered is yet to be left.
WalkInv ==
    status = "running" =>
        /\ Len(todo) # 0 /\ todo[Len(todo)].do = "start_new_pass"
        /\ \A i \in 1 .. Len(todo) - 1 : todo[i].do # "start_new_pass"
        /\ Len(todo) >= 2 => todo[Len(todo) - 1].do = "emit"
        /\ CallsIn(todo, Len(args_counters))
        /\ in_func \/ local_vars # << >> => \E i \in 1 .. Len(todo) : todo[i].do = "leave_func"

\* When start_new_pass comes, nothing else is left.
LEMMA PassEnds ==
    ASSUME TypeInv, WalkInv, At_("start_new_pass")
    PROVE  Len(todo) = 1 /\ args_counters = << >> /\ ~in_func /\ local_vars = << >>
  <1>1. /\ todo \in Seq(Tasks) /\ Len(todo) \in Nat /\ Len(todo) # 0 /\ Head(todo) = todo[1]
        /\ Head(todo).do = "start_new_pass" /\ status = "running" /\ todo # << >>
    BY HeadTask DEF At_
  <1>8. ~(1 \in 1 .. Len(todo) - 1)
    BY <1>1 DEF WalkInv
  <1>9. Len(todo) \in Nat \ {0}
    BY <1>1
  <1>2. Len(todo) = 1
    <2> DEFINE n == Len(todo)
    <2>1. n \in Nat \ {0} /\ ~(1 \in 1 .. n - 1)
      BY <1>8, <1>9
    <2> HIDE DEF n
    <2>2. n = 1
      BY <2>1
    <2> QED
      BY <2>2 DEF n
  <1>3. PICK d : Counts(todo, d) /\ d[1] = Len(args_counters)
    BY <1>1 DEF WalkInv, CallsIn
  <1>4. d[2] = 0 /\ d[1] = d[2] + 0
    BY <1>1, <1>2, <1>3 DEF Counts
  <1>5. args_counters \in Seq(Nat) /\ Len(args_counters) = 0
    BY <1>3, <1>4 DEF TypeInv, TypeOK
  <1>6. args_counters = << >>
    BY <1>5
  <1>7. ~(in_func \/ local_vars # << >>)
    BY <1>1, <1>2 DEF WalkInv
  <1> QED
    BY <1>2, <1>6, <1>7

\* The steps that emit leave nothing in their place.
LEMMA EmitDrops == ASSUME Next, At_("emit") PROVE emit_instruction
  BY DEF Next, At_, register_numeric_label, register_function_label, start_new_pass, get_var_code,
         ConvertNull, ConvertSimple, convert_op, ConvertVarDef, ConvertElse, emit_assig, Catch,
         OperandsDone, emit_push_true_false, convert_if, ConvertBranches, convert_while,
         convert_func_def, convert_func_def_args, LeaveFunc, ConvertFuncCall,
         convert_func_call_args, convert_func_call, Terminated, AtNode

\* Who enters a function, and who leaves it.
LEMMA ScopeStep ==
    ASSUME Next, status = "running"
    PROVE  \/ convert_func_def \/ LeaveFunc
           \/ /\ Head(todo).do # "leave_func"
              /\ in_func' \/ local_vars' # << >> => in_func \/ local_vars # << >>
  <1>1. ASSUME NEW v, register_var(v)
        PROVE  in_func' \/ local_vars' # << >> => in_func \/ local_vars # << >>
    BY <1>1 DEF register_var
  <1>2. CASE ConvertVarDef
    BY <1>1, <1>2 DEF ConvertVarDef, AtNode, At_
  <1>3. CASE convert_func_def_args
    BY <1>1, <1>3 DEF convert_func_def_args, At_, scopes
  <1> QED
    BY <1>2, <1>3
    DEF Next, At_, emit_instruction, register_numeric_label, register_function_label, start_new_pass,
        get_var_code, ConvertNull, ConvertSimple, convert_op, ConvertElse, emit_assig, Catch,
        OperandsDone, emit_push_true_false, convert_if, ConvertBranches, convert_while,
        ConvertFuncCall, convert_func_call_args, convert_func_call, Terminated, AtNode, GoOn, scopes

LEMMA ConcatPlace ==
    ASSUME NEW S, NEW A \in Seq(S), NEW B \in Seq(S), NEW i \in 1 .. Len(A)
    PROVE  Len(A \o B) = Len(A) + Len(B) /\ (A \o B)[i] = A[i]
  OBVIOUS

LEMMA LeavePending ==
    ASSUME TypeInv, WalkInv, Next, NEW L, NEW k, Expands(L, k), in_func' \/ local_vars' # << >>
    PROVE  \E i \in 1 .. Len(todo') : todo'[i].do = "leave_func"
  <1>1. status = "running" /\ todo # << >> /\ todo' = L \o Tail(todo) /\ L \in Seq(Tasks)
    BY DEF Expands, Makes, GoodList
  <1>2. /\ Tail(todo) \in Seq(Tasks) /\ Len(Tail(todo)) = Len(todo) - 1 /\ Head(todo) = todo[1]
        /\ \A i \in 1 .. Len(Tail(todo)) : Tail(todo)[i] = todo[i + 1]
        /\ Len(todo) \in Nat \ {0}
    BY <1>1, HeadTask
  <1>3. ~LeaveFunc
    BY DEF LeaveFunc
  <1>4. CASE convert_func_def
    <2> DEFINE a == Emit(WithImm("JMP", Target(cur_label_index)))
               b == FunctionLabel(Node.data)
               c == Rest("def_args", Node.left)
               d == Convert(Node.right, TRUE)
               e == Label(cur_label_index)
               f == Mark("leave_func")
               M == << a, b, c, d, e, f >>
    <2>1. todo' = M \o Tail(todo)
      BY <1>4 DEF convert_func_def, Continue
    <2>2. f.do = "leave_func"
      BY DEF Mark
    <2> HIDE DEF a, b, c, d, e, f
    <2>3. Len(M) = 6 /\ M[6] = f
      OBVIOUS
    <2>4. M \in Seq({a, b, c, d, e, f})
      OBVIOUS
    <2> HIDE DEF M
    <2> DEFINE S == {a, b, c, d, e, f} \cup Tasks
               R == Tail(todo)
    <2>5. M \in Seq(S) /\ R \in Seq(S) /\ Len(R) \in Nat
      BY <1>2, <2>4
    <2> HIDE DEF S, R
    <2>6. Len(M \o R) = 6 + Len(R) /\ (M \o R)[6] = f
      <3>1. \A i \in 1 .. Len(M) : Len(M \o R) = Len(M) + Len(R) /\ (M \o R)[i] = M[i]
        BY <2>5, ConcatPlace
      <3> QED
        BY <2>3, <3>1
    <2>7. 6 \in 1 .. Len(todo')
      BY <2>1, <2>5, <2>6 DEF R
    <2> QED
      BY <2>1, <2>2, <2>6, <2>7 DEF R
  <1>5. CASE ~convert_func_def
    <2>1. Head(todo).do # "leave_func" /\ (in_func \/ local_vars # << >>)
      BY <1>1, <1>3, <1>5, ScopeStep
    <2>2. PICK i \in 1 .. Len(todo) : todo[i].do = "leave_func"
      BY <1>1, <2>1 DEF WalkInv
    <2>3. i - 1 \in 1 .. Len(Tail(todo)) /\ Tail(todo)[i - 1] = todo[i]
      BY <1>2, <2>1, <2>2
    <2>4. Len(L) + (i - 1) \in 1 .. Len(todo') /\ todo'[Len(L) + (i - 1)] = todo[i]
      BY <1>1, <1>2, <2>3, ConcatPlaces
    <2> QED
      BY <2>2, <2>4
  <1> QED
    BY <1>4, <1>5

\* Where the tasks are when L has replaced the first one.
LEMMA Places ==
    ASSUME TypeInv, NEW L, NEW k, Expands(L, k)
    PROVE  /\ L \in Seq(Tasks) /\ Len(L) \in Nat /\ todo \in Seq(Tasks) /\ Len(todo) \in Nat \ {0}
           /\ Len(todo') = Len(L) + Len(todo) - 1 /\ Head(todo) = todo[1]
           /\ \A i \in 1 .. Len(L) : i \in 1 .. Len(todo') /\ todo'[i] = L[i]
           /\ \A i \in 2 .. Len(todo) : /\ Len(L) + i - 1 \in 1 .. Len(todo')
                                        /\ todo'[Len(L) + i - 1] = todo[i]
           /\ \A i \in 1 .. Len(todo') :
                 i \in 1 .. Len(L) \/ \E j \in 2 .. Len(todo) : i = Len(L) + j - 1
  <1> DEFINE T == Tail(todo)
  <1>1. status = "running" /\ todo # << >> /\ todo' = L \o Tail(todo) /\ L \in Seq(Tasks)
    BY DEF Expands, Makes, GoodList
  <1>2. /\ T \in Seq(Tasks) /\ Len(T) = Len(todo) - 1 /\ Head(todo) = todo[1]
        /\ \A i \in 1 .. Len(T) : T[i] = todo[i + 1]
        /\ Len(todo) \in Nat \ {0} /\ todo \in Seq(Tasks)
    BY <1>1, HeadTask
  <1> HIDE DEF T
  <1>3. /\ Len(L) \in Nat /\ Len(L \o T) = Len(L) + Len(T)
        /\ \A i \in 1 .. Len(L) : i \in 1 .. Len(L \o T) /\ (L \o T)[i] = L[i]
        /\ \A i \in 1 .. Len(T) : Len(L) + i \in 1 .. Len(L \o T) /\ (L \o T)[Len(L) + i] = T[i]
        /\ \A i \in 1 .. Len(L \o T) : i \in 1 .. Len(L) \/ \E j \in 1 .. Len(T) : i = Len(L) + j
    BY <1>1, <1>2, ConcatPlaces
  <1>4. todo' = L \o T
    BY <1>1 DEF T
  <1>5. Len(todo') = Len(L) + Len(todo) - 1
    BY <1>2, <1>3, <1>4
  <1>6. ASSUME NEW i \in 2 .. Len(todo)
        PROVE  Len(L) + i - 1 \in 1 .. Len(todo') /\ todo'[Len(L) + i - 1] = todo[i]
    <2>1. i - 1 \in 1 .. Len(T) /\ (i - 1) + 1 = i /\ Len(L) + (i - 1) = Len(L) + i - 1
      BY <1>2, <1>3
    <2> QED
      BY <1>2, <1>3, <1>4, <2>1
  <1>7. ASSUME NEW i \in 1 .. Len(todo'), NEW j \in 1 .. Len(T), i = Len(L) + j
        PROVE  \E m \in 2 .. Len(todo) : i = Len(L) + m - 1
    <2>1. j + 1 \in 2 .. Len(todo) /\ i = Len(L) + (j + 1) - 1
      BY <1>2, <1>3, <1>7
    <2> QED
      BY <2>1
  <1> QED
    BY <1>1, <1>2, <1>3, <1>4, <1>5, <1>6, <1>7

LEMMA WalkOn ==
    ASSUME TypeInv, WalkInv, Next, NEW L, NEW k, Expands(L, k) PROVE WalkInv'
  <1> DEFINE n == Len(todo)
             p == Len(L)
  <1>0. status = "running" /\ Head(todo).do # "start_new_pass" /\ todo # << >>
    BY DEF Expands
  <1>1. /\ p \in Nat /\ n \in Nat \ {0} /\ Len(todo') = p + n - 1 /\ Head(todo) = todo[1]
        /\ \A i \in 1 .. p : todo'[i] = L[i]
        /\ \A i \in 2 .. n : todo'[p + i - 1] = todo[i]
        /\ \A i \in 1 .. Len(todo') : i \in 1 .. p \/ \E j \in 2 .. n : i = p + j - 1
    BY Places
  <1>2. /\ todo[n].do = "start_new_pass"
        /\ \A i \in 1 .. n - 1 : todo[i].do # "start_new_pass"
        /\ n >= 2 => todo[n - 1].do = "emit"
    BY <1>0 DEF WalkInv
  <1>3. \A i \in 1 .. p : L[i].do # "start_new_pass"
    BY DEF Expands, Makes, GoodList
  <1>4. At_("emit") => p = 0
    <2> SUFFICES ASSUME At_("emit") PROVE p = 0
      OBVIOUS
    <2>1. emit_instruction
      BY EmitDrops
    <2>2. todo' = << >> \o Tail(todo) /\ Len(Tail(todo)) = n - 1 /\ Tail(todo) \in Seq(Tasks)
      BY <1>0, <2>1, HeadTask DEF emit_instruction, Continue
    <2>3. Len(todo') = n - 1
      BY <2>2
    <2> QED
      BY <1>1, <2>3
  <1>5. n >= 2
    <2>1. n # 1
      BY <1>0, <1>1, <1>2
    <2> HIDE DEF n, p
    <2> QED
      BY <1>1, <2>1
  <1>6. CallsIn(todo', Len(args_counters'))
    <2> DEFINE T == Tail(todo)
    <2>1. /\ todo' = L \o T /\ k \in Nat /\ args_counters' \in Seq(Nat) /\ L \in Seq(Tasks)
          /\ Len(args_counters') + (IF Head(todo).do = "call" THEN 1 ELSE 0) = Len(args_counters) + k
          /\ CallsIn(L, k) /\ T \in Seq(Tasks) /\ todo \in Seq(Tasks)
      BY <1>0, HeadTask DEF Expands, Makes, GoodList
    <2> DEFINE c == Len(args_counters)
               m == IF Head(todo).do = "call" THEN c - 1 ELSE c
    <2>2. /\ c \in Nat /\ CallsIn(T, m)
          /\ Head(todo).do = "call" => c >= 1
      BY <1>0, <2>1, TailCalls DEF WalkInv
    <2> HIDE DEF T
    <2>3. Len(args_counters') \in Nat
      BY <2>1
    <2> HIDE DEF c
    <2>4. Len(args_counters') + (IF Head(todo).do = "call" THEN 1 ELSE 0) = c + k
      BY <2>1 DEF c
    <2>5. m \in Nat /\ Len(args_counters') = k + m
      BY <2>1, <2>2, <2>3, <2>4
    <2> HIDE DEF m
    <2>6. CallsIn(L \o T, k + m)
      BY <2>1, <2>2, <2>5, ConcatCalls
    <2> QED
      BY <2>1, <2>5, <2>6
  <1>7. in_func' \/ local_vars' # << >> => \E i \in 1 .. Len(todo') : todo'[i].do = "leave_func"
    BY LeavePending
  <1> DEFINE q == Len(todo')
  <1> HIDE DEF n, p, q
  <1>8. q = p + n - 1
    BY <1>1 DEF q
  <1>9. q # 0 /\ q = p + n - 1 /\ n \in 2 .. n
    BY <1>1, <1>5, <1>8
  <1>10. todo'[q].do = "start_new_pass"
    BY <1>1, <1>2, <1>9
  <1>11. ASSUME NEW i \in 1 .. q - 1 PROVE todo'[i].do # "start_new_pass"
    <2>1. CASE i \in 1 .. p
      BY <1>1, <1>3, <2>1
    <2>2. ASSUME NEW j \in 2 .. n, i = p + j - 1 PROVE todo'[i].do # "start_new_pass"
      <3>1. j \in 1 .. n - 1
        BY <1>1, <1>9, <2>2
      <3> QED
        BY <1>1, <1>2, <2>2, <3>1
    <2>3. i \in 1 .. q
      BY <1>1, <1>8
    <2> QED
      BY <1>1, <2>1, <2>2, <2>3 DEF q
  <1>12. ASSUME q >= 2 PROVE todo'[q - 1].do = "emit"
    <2>1. CASE n = 2
      <3>1. todo[1].do = "emit"
        BY <1>2, <2>1
      <3>2. At_("emit")
        BY <1>0, <1>1, <3>1 DEF At_
      <3> QED
        BY <1>4, <1>8, <1>12, <2>1, <3>2
    <2>2. CASE n # 2
      <3>1. n - 1 \in 2 .. n /\ q - 1 = p + (n - 1) - 1
        BY <1>1, <1>5, <1>8, <2>2
      <3>2. todo'[q - 1] = todo[n - 1]
        BY <1>1, <3>1
      <3> QED
        BY <1>2, <1>5, <3>2
    <2> QED
      BY <2>1, <2>2
  <1> QED
    BY <1>6, <1>7, <1>9, <1>10, <1>11, <1>12 DEF WalkInv, q

\* The first pass becomes the second, which begins like the first ...
LEMMA NewPass ==
    ASSUME TypeInv, WalkInv, start_new_pass, status' = "running"
    PROVE  /\ pass_index = PASS_INDEX_TO_CALC_OFFSETS /\ pass_index' = PASS_INDEX_TO_WRITE
           /\ cur_label_index' = 0 /\ current_instruction_index' = 0
           /\ frame_size' = 0 /\ global_frame_size_store' = 0 /\ todo' = PassTasks
           /\ args_counters = << >> /\ ~in_func /\ local_vars = << >>
           /\ UNCHANGED << tree, in_func, global_vars, local_vars, transl, ir_code, args_counters >>
  <1>1. pass_index \in {0, 1} /\ status = "running"
    BY DEF TypeInv, TypeOK, start_new_pass, At_, PASS_INDEX_TO_CALC_OFFSETS, PASS_INDEX_TO_WRITE
  <1>2. pass_index = 0
    BY <1>1 DEF start_new_pass, TOTAL_PASS_COUNT
  <1> QED
    BY <1>2, PassEnds
    DEF start_new_pass, TOTAL_PASS_COUNT, PASS_INDEX_TO_CALC_OFFSETS, PASS_INDEX_TO_WRITE

\* ... as the list of a pass has nothing else in it.
LEMMA PassWalk ==
    ASSUME tree \in Trees
    PROVE  /\ Len(PassTasks) # 0 /\ PassTasks[Len(PassTasks)].do = "start_new_pass"
           /\ PassTasks[Len(PassTasks) - 1].do = "emit"
           /\ \A i \in 1 .. Len(PassTasks) - 1 : PassTasks[i].do # "start_new_pass"
           /\ CallsIn(PassTasks, Len(<< >>))
  <1>1. /\ Len(PassTasks) = 5 /\ \A i \in 1 .. 4 : PassTasks[i] \in Inert
        /\ PassTasks[4] = Emit(Plain("HALT")) /\ PassTasks[5] = Mark("start_new_pass")
        /\ CallsIn(PassTasks, 0)
    BY PassList
  <1>2. PassTasks[5].do = "start_new_pass" /\ PassTasks[4].do = "emit"
    BY <1>1 DEF Mark, Emit
  <1>3. \A i \in 1 .. 4 : PassTasks[i].do # "start_new_pass"
    BY <1>1 DEF Inert
  <1>4. Len(<< >>) = 0
    OBVIOUS
  <1> HIDE DEF PassTasks
  <1>5. Len(PassTasks) - 1 = 4 /\ Len(PassTasks) # 0
    BY <1>1
  <1> QED
    BY <1>1, <1>2, <1>3, <1>4, <1>5

LEMMA WalkStep == ASSUME TypeInv, WalkInv, NoErrorDropped, [Next]_vars PROVE WalkInv'
  <1>1. CASE UNCHANGED vars
    BY <1>1 DEF vars, scopes, WalkInv
  <1>2. CASE Next
    <2>1. CASE Aborts
      BY <2>1 DEF Aborts, WalkInv
    <2>2. CASE start_new_pass
      <3>1. CASE status' = "running"
        <4>1. /\ todo' = PassTasks /\ tree' = tree /\ args_counters' = << >> /\ ~in_func'
              /\ local_vars' = << >>
          BY <2>2, <3>1, NewPass
        <4>2. tree \in Trees
          BY DEF TypeInv, TypeOK
        <4> QED
          BY <4>1, <4>2, PassWalk DEF WalkInv
      <3> QED
        BY <3>1 DEF WalkInv
    <2>3. CASE get_var_code /\ Undeclared
      BY <2>3, Fails DEF WalkInv
    <2>4. ASSUME NEW L, NEW k, Expands(L, k) PROVE WalkInv'
      BY <1>2, <2>4, WalkOn
    <2> QED
      BY <1>1, <1>2, <2>1, <2>2, <2>3, <2>4, Steps
  <1> QED
    BY <1>1, <1>2

LEMMA WalkInit == ASSUME Init PROVE WalkInv
  BY PassWalk DEF Init, WalkInv

-----------------------------------------------------------------------------
(* The path that the first pass makes and the second takes.                *)

Start == [todo |-> PassTasks, labels |-> 0, count |-> 0, counters |-> << >>, func |-> 0,
          frame |-> 0, store |-> 0, globals |-> 0, locals |-> << >>]

\* n skeletons, each the one after the one before; they never lose labels.
Path(tr, n) ==
    /\ n \in Nat \ {0} /\ tr[1] = Start
    /\ \A i \in 1 .. n - 1 : /\ tr[i + 1] = Succ(tr[i])
                             /\ Head(tr[i].todo).do # "start_new_pass"
    /\ \A i \in 1 .. n : tr[i].labels \in Nat /\ tr[i].labels <= tr[n].labels

\* What the step from a skeleton has left behind, in the scopes and in the
\* translators: a variable that was found, a global that was registered, and a
\* label or a function at the instruction where it was.
Known(a, what) ==
    LET t == Head(a.todo)
    IN  /\ what = "variables" /\ t.do = "get_var_code"
              => Slots(a.locals, t.num) \cup Slots(global_vars, t.num) # {}
        /\ what = "slots" /\ Registers(t) /\ a.func = 0
              => /\ a.globals + 1 \in 1 .. Len(global_vars)
                 /\ global_vars[a.globals + 1] = t.node.data
        /\ what = "labels" /\ t.do = "numeric_label"
              => Target(t.num) = a.count /\ a.count \in Nat
        /\ what = "labels" /\ t.do = "function_label"
              => addr_transl_translate(func_label_transl, t.num) = a.count /\ a.count \in Nat

\* Where a jump or call may lead when the last skeleton of the first pass is z.
Within(z, v) == v \in 0 .. z.count - 1

\* What holds in the middle of a pass that began with b globals: the size of the
\* frame, globals that the second pass registers once more, and, in the second
\* pass, labels, functions, jumps and calls that lead into the code.
Facts(z, b, what) ==
    /\ what = "slots" =>
          /\ ~in_func => frame_size = Len(global_vars) - b /\ local_vars = << >>
          /\ in_func => /\ frame_size = Len(local_vars)
                        /\ global_frame_size_store = Len(global_vars) - b
          /\ \A i \in 1 .. Len(global_vars) - b : global_vars[b + i] = global_vars[i]
    /\ what = "transfers" /\ pass_index = PASS_INDEX_TO_WRITE =>
          /\ \A l \in 0 .. z.labels - 1 : Within(z, Target(l))
          /\ \A i \in 1 .. Len(func_label_transl.mappings) :
                Within(z, func_label_transl.mappings[i].new_addr)
          /\ \A i \in 1 .. Len(todo) :
                todo[i].do = "emit" /\ IsTransfer(todo[i].ins) => Within(z, todo[i].ins.imm_arg)
          /\ \A i \in 1 .. Len(ir_code) :
                IsTransfer(ir_code[i]) => Within(z, ir_code[i].imm_arg)

\* The first pass is at the end of its path, the second somewhere on it.
PassInv(what) ==
    status = "running" =>
        \E tr, n, s, b :
           /\ Path(tr, n) /\ s \in 1 .. n /\ Match(tr[s], b) /\ Facts(tr[n], b, what)
           /\ \A i \in 1 .. n - 1 : Known(tr[i], what)
           /\ pass_index = PASS_INDEX_TO_CALC_OFFSETS => s = n /\ b = 0
           /\ pass_index = PASS_INDEX_TO_WRITE =>
                 Head(tr[n].todo).do = "start_new_pass" /\ b = tr[n].globals

LEMMA StartFields ==
    /\ Start.todo = PassTasks /\ Start.labels = 0 /\ Start.count = 0 /\ Start.counters = << >>
    /\ Start.func = 0 /\ Start.frame = 0 /\ Start.store = 0 /\ Start.globals = 0
    /\ Start.locals = << >>
  BY DEF Start

LEMMA PathGrows ==
    ASSUME NEW tr, NEW n, Path(tr, n), Head(tr[n].todo).do # "start_new_pass"
    PROVE  \E h : /\ Path(h, n + 1) /\ h[n + 1] = Succ(tr[n])
                  /\ \A i \in 1 .. n : h[i] = tr[i]
  <1> DEFINE c == Succ(tr[n])
             h == [i \in 1 .. n + 1 |-> IF i <= n THEN tr[i] ELSE c]
  <1>1. /\ n \in Nat \ {0} /\ tr[1] = Start
        /\ \A i \in 1 .. n - 1 : tr[i + 1] = Succ(tr[i]) /\ Head(tr[i].todo).do # "start_new_pass"
        /\ \A i \in 1 .. n : tr[i].labels \in Nat /\ tr[i].labels <= tr[n].labels
    BY DEF Path
  <1>2. c.labels = tr[n].labels + LabelsOf(Head(tr[n].todo))
    BY SuccFields
  <1>3. LabelsOf(Head(tr[n].todo)) \in Nat
    BY DEF LabelsOf
  <1>4. c.labels \in Nat /\ tr[n].labels <= c.labels
    BY <1>1, <1>2, <1>3
  <1> HIDE DEF c
  <1>5. (\A i \in 1 .. n : h[i] = tr[i]) /\ h[n + 1] = c
    BY <1>1
  <1> HIDE DEF h
  <1>6. \A i \in 1 .. n : h[i + 1] = Succ(h[i]) /\ Head(h[i].todo).do # "start_new_pass"
    <2> TAKE i \in 1 .. n
    <2>1. CASE i = n
      BY <1>1, <1>5, <2>1 DEF c
    <2>2. CASE i # n
      <3>1. i \in 1 .. n - 1 /\ i + 1 \in 1 .. n
        BY <1>1, <2>2
      <3> QED
        BY <1>1, <1>5, <3>1
    <2> QED
      BY <2>1, <2>2
  <1>7. \A i \in 1 .. n + 1 : h[i].labels \in Nat /\ h[i].labels <= h[n + 1].labels
    <2> TAKE i \in 1 .. n + 1
    <2>1. CASE i = n + 1
      BY <1>4, <1>5, <2>1
    <2>2. CASE i # n + 1
      <3>1. i \in 1 .. n
        BY <1>1, <2>2
      <3>2. tr[i].labels \in Nat /\ tr[i].labels <= tr[n].labels /\ tr[n].labels \in Nat
        BY <1>1, <3>1
      <3>3. tr[i].labels <= c.labels
        BY <1>4, <3>2
      <3> QED
        BY <1>5, <3>1, <3>2, <3>3
    <2> QED
      BY <2>1, <2>2
  <1>8. n + 1 \in Nat \ {0} /\ (n + 1) - 1 = n /\ h[1] = Start
    BY <1>1, <1>5
  <1> QED
    BY <1>5, <1>6, <1>7, <1>8 DEF Path, c

LEMMA LookUpsAct == ASSUME Next, At_("get_var_code") PROVE get_var_code
  BY DEF Next, At_, register_numeric_label, register_function_label, emit_instruction, start_new_pass,
         ConvertNull, ConvertSimple, convert_op, ConvertVarDef, ConvertElse, emit_assig, Catch,
         OperandsDone, emit_push_true_false, convert_if, ConvertBranches, convert_while,
         convert_func_def, convert_func_def_args, LeaveFunc, ConvertFuncCall,
         convert_func_call_args, convert_func_call, Terminated, AtNode

LEMMA StartStep == ASSUME Next, At_("start_new_pass") PROVE start_new_pass
  BY DEF Next, At_, register_numeric_label, register_function_label, emit_instruction, get_var_code,
         ConvertNull, ConvertSimple, convert_op, ConvertVarDef, ConvertElse, emit_assig, Catch,
         OperandsDone, emit_push_true_false, convert_if, ConvertBranches, convert_while,
         convert_func_def, convert_func_def_args, LeaveFunc, ConvertFuncCall,
         convert_func_call_args, convert_func_call, Terminated, AtNode

\* The second pass begins with the skeleton that the first began with.
LEMMA StartMatch ==
    ASSUME TypeInv, WalkInv, OperandInv, start_new_pass, status' = "running", NEW a, Match(a, 0)
    PROVE  Match(Start, a.globals)'
  <1>1. /\ pass_index = PASS_INDEX_TO_CALC_OFFSETS /\ pass_index' = PASS_INDEX_TO_WRITE
        /\ cur_label_index' = 0 /\ current_instruction_index' = 0
        /\ frame_size' = 0 /\ global_frame_size_store' = 0 /\ todo' = PassTasks
        /\ args_counters' = << >> /\ ~in_func' /\ local_vars' = << >>
        /\ global_vars' = global_vars /\ ir_code' = ir_code /\ tree' = tree
    BY NewPass
  <1>2. ir_code' = << >> /\ Len(ir_code') = 0
    BY <1>1 DEF OperandInv
  <1>3. Emitted' = 0
    BY <1>1, <1>2 DEF Emitted, PASS_INDEX_TO_CALC_OFFSETS, PASS_INDEX_TO_WRITE
  <1>4. Same(PassTasks, todo')
    BY <1>1, PassList, SameSelf DEF TypeInv, TypeOK
  <1>5. a.globals \in Nat /\ Len(global_vars) = 0 + a.globals
    BY DEF Match
  <1>6. Len(global_vars') = a.globals + 0
    BY <1>1, <1>5
  <1>7. Start' = Start
    BY <1>1 DEF Start, PassTasks
  <1> HIDE DEF PassTasks
  <1> QED
    BY <1>1, <1>3, <1>4, <1>5, <1>6, <1>7, StartFields DEF Match

\* The steps within a pass.
OnPath == /\ Next /\ status = "running" /\ status' = "running"
          /\ ~start_new_pass /\ ~(get_var_code /\ Undeclared)

LEMMA PassIndexStep == ASSUME Next, ~start_new_pass PROVE pass_index' = pass_index /\ tree' = tree
  BY CodeStep
  DEF Next, vars, register_numeric_label, register_function_label, emit_instruction, get_var_code,
      ConvertNull, ConvertSimple, convert_op, ConvertVarDef, ConvertElse, emit_assig, Catch,
      OperandsDone, emit_push_true_false, convert_if, ConvertBranches, convert_while,
      convert_func_def, convert_func_def_args, LeaveFunc, ConvertFuncCall,
      convert_func_call_args, convert_func_call, Terminated, GoOn

LEMMA TasksLeft == ASSUME WalkInv, status = "running" PROVE todo # << >>
  <1>1. Len(<< >>) = 0
    OBVIOUS
  <1> QED
    BY <1>1 DEF WalkInv

LEMMA RunningStep == ASSUME Next, status' = "running" PROVE status = "running"
  <1>1. (\E h : At_(h)) => status = "running"
    BY DEF At_
  <1>2. Terminated => status = status'
    BY DEF Terminated, vars
  <1> QED
    BY <1>1, <1>2
    DEF Next, register_numeric_label, register_function_label, emit_instruction, get_var_code,
        ConvertNull, ConvertSimple, convert_op, ConvertVarDef, ConvertElse, emit_assig, Catch,
        OperandsDone, emit_push_true_false, convert_if, ConvertBranches, convert_while,
        convert_func_def, convert_func_def_args, LeaveFunc, ConvertFuncCall, start_new_pass,
        convert_func_call_args, convert_func_call, AtNode

LEMMA PassStep ==
    ASSUME TypeInv, WalkInv, OperandInv, NoErrorDropped, Next, NEW what, PassInv(what),
           \A a : Known(a, what) => Known(a, what)',
           \A a : OnPath /\ pass_index = PASS_INDEX_TO_CALC_OFFSETS /\ Match(a, 0)
                     => Known(a, what)',
           \A a, b, y, z : 
              /\ OnPath /\ Match(a, b) /\ Match(Succ(a), b)' /\ Facts(z, b, what)
              /\ pass_index = PASS_INDEX_TO_WRITE =>
                    /\ y = z /\ Known(a, what)
                    /\ z.labels \in Nat /\ Succ(a).labels <= z.labels
              /\ pass_index = PASS_INDEX_TO_CALC_OFFSETS => b = 0
              => Facts(y, b, what)',
           \A a : start_new_pass /\ status' = "running" /\ Match(a, 0) /\ Facts(a, 0, what)
                     => Facts(a, a.globals, what)'
    PROVE  PassInv(what)'
  <1> SUFFICES ASSUME status' = "running" PROVE PassInv(what)'
    BY DEF PassInv
  <1>1. status = "running"
    BY RunningStep
  <1>2. PICK tr, n, s, b :
           /\ Path(tr, n) /\ s \in 1 .. n /\ Match(tr[s], b) /\ Facts(tr[n], b, what)
           /\ \A i \in 1 .. n - 1 : Known(tr[i], what)
           /\ pass_index = PASS_INDEX_TO_CALC_OFFSETS => s = n /\ b = 0
           /\ pass_index = PASS_INDEX_TO_WRITE =>
                 Head(tr[n].todo).do = "start_new_pass" /\ b = tr[n].globals
    BY <1>1 DEF PassInv
  <1>3. n \in Nat \ {0} /\ n \in 1 .. n
    BY <1>2 DEF Path
  <1>4. todo # << >>
    BY <1>1, TasksLeft
  <1>5. Head(tr[s].todo).do = Head(todo).do
    BY <1>2, <1>4, HeadMatch
  <1>6. pass_index \in {PASS_INDEX_TO_CALC_OFFSETS, PASS_INDEX_TO_WRITE}
        /\ PASS_INDEX_TO_CALC_OFFSETS # PASS_INDEX_TO_WRITE
    BY DEF TypeInv, TypeOK, PASS_INDEX_TO_CALC_OFFSETS, PASS_INDEX_TO_WRITE
  <1>7. CASE start_new_pass
    <2>1. /\ pass_index = PASS_INDEX_TO_CALC_OFFSETS /\ pass_index' = PASS_INDEX_TO_WRITE
          /\ tree' = tree
      BY <1>7, NewPass
    <2>2. s = n /\ b = 0 /\ Match(tr[n], 0) /\ Facts(tr[n], 0, what)
      BY <1>2, <2>1
    <2>3. Match(tr[1], tr[n].globals)'
      <3>1. Match(Start, tr[n].globals)' /\ tr[1] = Start
        BY <1>2, <1>7, <2>2, StartMatch DEF Path
      <3>2. Start' = Start
        BY <2>1 DEF Start, PassTasks
      <3> QED
        BY <3>1, <3>2
    <2>4. Facts(tr[n], tr[n].globals, what)'
      BY <1>7, <2>2
    <2>5. Path(tr, n)'
      <3>1. Start' = Start
        BY <2>1 DEF Start, PassTasks
      <3> QED
        BY <1>2, <3>1 DEF Path
    <2>6. \A i \in 1 .. n - 1 : Known(tr[i], what)'
      BY <1>2
    <2>7. Head(tr[n].todo).do = "start_new_pass"
      BY <1>5, <1>7, <2>2 DEF start_new_pass, At_
    <2>8. 1 \in 1 .. n
      BY <1>3
    <2>9. \E h, m, p, c :
             /\ Path(h, m)' /\ p \in 1 .. m /\ Match(h[p], c)' /\ Facts(h[m], c, what)'
             /\ \A i \in 1 .. m - 1 : Known(h[i], what)'
             /\ pass_index' = PASS_INDEX_TO_CALC_OFFSETS => p = m /\ c = 0
             /\ pass_index' = PASS_INDEX_TO_WRITE =>
                   Head(h[m].todo).do = "start_new_pass" /\ c = h[m].globals
      BY <1>6, <2>1, <2>3, <2>4, <2>5, <2>6, <2>7, <2>8
    <2> QED
      BY <2>9 DEF PassInv
  <1>8. CASE get_var_code /\ Undeclared
    BY <1>8, Fails
  <1>9. CASE ~start_new_pass /\ ~(get_var_code /\ Undeclared)
    <2> DEFINE c == Succ(tr[s])
    <2>1. OnPath
      BY <1>1, <1>9 DEF OnPath
    <2>2. Match(c, b)'
      BY <1>1, <1>2, <1>9, StepMatch
    <2>3. pass_index' = pass_index /\ tree' = tree
      BY <1>9, PassIndexStep
    <2>4. Head(tr[s].todo).do # "start_new_pass"
      BY <1>1, <1>4, <1>5, <1>9, StartStep DEF At_
    <2>5. Start' = Start
      BY <2>3 DEF Start, PassTasks
    <2>6. \A i \in 1 .. n - 1 : Known(tr[i], what)'
      BY <1>2
    <2>7. CASE pass_index = PASS_INDEX_TO_CALC_OFFSETS
      <3>1. s = n /\ b = 0 /\ Match(tr[n], 0) /\ Facts(tr[n], 0, what) /\ Match(Succ(tr[n]), 0)'
        BY <1>2, <2>2, <2>7
      <3>2. PICK h : /\ Path(h, n + 1) /\ h[n + 1] = Succ(tr[n])
                     /\ \A i \in 1 .. n : h[i] = tr[i]
        BY <1>2, <2>4, <3>1, PathGrows
      <3>3. Path(h, n + 1)'
        BY <2>5, <3>2 DEF Path
      <3>4. Known(tr[n], what)'
        BY <2>1, <2>7, <3>1
      <3>5. \A i \in 1 .. n : Known(h[i], what)'
        <4> TAKE i \in 1 .. n
        <4>1. i = n \/ i \in 1 .. n - 1
          BY <1>3
        <4> QED
          BY <2>6, <3>2, <3>4, <4>1
      <3>6. Facts(h[n + 1], 0, what)'
        BY <1>6, <2>1, <2>7, <3>1
      <3>7. (n + 1) - 1 = n /\ n + 1 \in 1 .. n + 1
        BY <1>3
      <3>8. Match(h[n + 1], 0)'
        BY <3>1, <3>2
      <3>9. \E g, m, p, e :
               /\ Path(g, m)' /\ p \in 1 .. m /\ Match(g[p], e)' /\ Facts(g[m], e, what)'
               /\ \A i \in 1 .. m - 1 : Known(g[i], what)'
               /\ pass_index' = PASS_INDEX_TO_CALC_OFFSETS => p = m /\ e = 0
               /\ pass_index' = PASS_INDEX_TO_WRITE =>
                     Head(g[m].todo).do = "start_new_pass" /\ e = g[m].globals
        BY <1>6, <2>3, <2>7, <3>3, <3>5, <3>6, <3>7, <3>8
      <3> QED
        BY <3>9 DEF PassInv
    <2>8. CASE pass_index = PASS_INDEX_TO_WRITE
      <3>1. Head(tr[n].todo).do = "start_new_pass" /\ b = tr[n].globals
        BY <1>2, <2>8
      <3>2. s \in 1 .. n - 1 /\ s + 1 \in 1 .. n
        <4>1. s # n
          BY <2>4, <3>1
        <4> QED
          BY <1>2, <1>3, <4>1
      <3>3. /\ tr[s + 1] = c /\ Known(tr[s], what)
            /\ tr[n].labels \in Nat /\ c.labels <= tr[n].labels
        BY <1>2, <1>3, <3>2 DEF Path
      <3>4. Facts(tr[n], b, what)'
        BY <1>2, <2>1, <2>2, <3>3
      <3>5. Path(tr, n)'
        BY <1>2, <2>5 DEF Path
      <3>6. Match(tr[s + 1], b)'
        BY <2>2, <3>3
      <3>7. \E g, m, p, e :
               /\ Path(g, m)' /\ p \in 1 .. m /\ Match(g[p], e)' /\ Facts(g[m], e, what)'
               /\ \A i \in 1 .. m - 1 : Known(g[i], what)'
               /\ pass_index' = PASS_INDEX_TO_CALC_OFFSETS => p = m /\ e = 0
               /\ pass_index' = PASS_INDEX_TO_WRITE =>
                     Head(g[m].todo).do = "start_new_pass" /\ e = g[m].globals
        BY <1>6, <2>3, <2>6, <2>8, <3>1, <3>2, <3>4, <3>5, <3>6
      <3> QED
        BY <3>7 DEF PassInv
    <2> QED
      BY <1>6, <2>7, <2>8
  <1> QED
    BY <1>7, <1>8, <1>9

LEMMA PassInit ==
    ASSUME Init, NEW what, Facts(Start, 0, what) PROVE PassInv(what)
  <1>1. Same(PassTasks, todo)
    BY PassList, SameSelf DEF Init
  <1>2. Emitted = 0 /\ Len(global_vars) = 0 + 0
    BY DEF Init, Emitted, PASS_INDEX_TO_CALC_OFFSETS
  <1>3. Match(Start, 0)
    <2> HIDE DEF PassTasks
    <2> QED
      BY <1>1, <1>2, StartFields DEF Init, Match
  <1> DEFINE tr == [i \in 1 .. 1 |-> Start]
  <1>4. tr[1] = Start
    OBVIOUS
  <1> HIDE DEF tr
  <1>5. Path(tr, 1)
    BY <1>4, StartFields DEF Path
  <1>6. pass_index # PASS_INDEX_TO_WRITE
    BY DEF Init, PASS_INDEX_TO_WRITE
  <1>7. \E h, n, s, b :
           /\ Path(h, n) /\ s \in 1 .. n /\ Match(h[s], b) /\ Facts(h[n], b, what)
           /\ \A i \in 1 .. n - 1 : Known(h[i], what)
           /\ pass_index = PASS_INDEX_TO_CALC_OFFSETS => s = n /\ b = 0
           /\ pass_index = PASS_INDEX_TO_WRITE =>
                 Head(h[n].todo).do = "start_new_pass" /\ b = h[n].globals
    <2>1. 1 \in 1 .. 1 /\ \A i \in 1 .. 1 - 1 : Known(tr[i], what)
      OBVIOUS
    <2> QED
      BY <1>3, <1>4, <1>5, <1>6, <2>1
  <1> QED
    BY <1>7 DEF PassInv
-----------------------------------------------------------------------------
(* Variables: the second pass finds what the first has found.              *)

LEMMA GlobalsGrow ==
    ASSUME TypeInv, Next
    PROVE  /\ Len(global_vars) \in Nat /\ Len(global_vars') \in Nat
           /\ DOMAIN global_vars = 1 .. Len(global_vars) /\ DOMAIN global_vars' = 1 .. Len(global_vars')
           /\ Len(global_vars) <= Len(global_vars')
           /\ \A i \in 1 .. Len(global_vars) : global_vars'[i] = global_vars[i]
  <1>1. global_vars \in Seq(Int)
    BY DEF TypeInv, TypeOK
  <1>2. \/ global_vars' = global_vars
        \/ \E v \in Int : global_vars' = Append(global_vars, v)
    <2>1. CASE ConvertVarDef
      <3>1. Node.data \in Int
        BY <2>1, NodeAt, NodeFacts DEF ConvertVarDef
      <3> QED
        BY <2>1, <3>1 DEF ConvertVarDef, register_var
    <2>2. CASE convert_func_def_args
      <3>1. CASE Node # nullptr /\ Node.type = "VAR"
        <4>1. Node.data \in Int
          <5>1. todo # << >> /\ Head(todo).do = "def_args" /\ Head(todo).node = Node
            BY <2>2 DEF convert_func_def_args, At_, Node
          <5>2. Node \in Nodes
            BY <3>1, <5>1, HeadTask, TaskFields DEF MaybeNodes
          <5> QED
            BY <3>1, <5>2, NodeFacts
        <4> QED
          BY <2>2, <3>1, <4>1 DEF convert_func_def_args, register_var, scopes
      <3> QED
        BY <2>2, <3>1 DEF convert_func_def_args, scopes
    <2>3. CASE ~ConvertVarDef /\ ~convert_func_def_args
      BY <2>3
      DEF Next, vars, register_numeric_label, register_function_label, emit_instruction, get_var_code,
          ConvertNull, ConvertSimple, convert_op, ConvertElse, emit_assig, Catch, start_new_pass,
          OperandsDone, emit_push_true_false, convert_if, ConvertBranches, convert_while,
          convert_func_def, LeaveFunc, ConvertFuncCall, convert_func_call_args,
          convert_func_call, Terminated, GoOn, scopes
    <2> QED
      BY <2>1, <2>2, <2>3
  <1>3. CASE global_vars' = global_vars
    BY <1>1, <1>3
  <1>4. ASSUME NEW v \in Int, global_vars' = Append(global_vars, v)
        PROVE  /\ Len(global_vars) \in Nat /\ Len(global_vars') \in Nat
               /\ DOMAIN global_vars = 1 .. Len(global_vars) /\ DOMAIN global_vars' = 1 .. Len(global_vars')
               /\ Len(global_vars) <= Len(global_vars')
               /\ \A i \in 1 .. Len(global_vars) : global_vars'[i] = global_vars[i]
    BY <1>1, <1>4
  <1> QED
    BY <1>2, <1>3, <1>4

LEMMA VariablesStep ==
    ASSUME TypeInv, WalkInv, OperandInv, NoErrorDropped, Next, PassInv("variables")
    PROVE  PassInv("variables")'
  <1>1. ASSUME NEW a, Known(a, "variables") PROVE Known(a, "variables")'
    <2> DEFINE v == Head(a.todo).num
    <2>1. Slots(global_vars, v) \subseteq Slots(global_vars, v)'
      BY GlobalsGrow DEF Slots
    <2>2. Slots(a.locals, v) = Slots(a.locals, v)'
      BY DEF Slots
    <2> QED
      BY <1>1, <2>1, <2>2 DEF Known
  <1>2. ASSUME NEW a, OnPath, pass_index = PASS_INDEX_TO_CALC_OFFSETS, Match(a, 0)
        PROVE  Known(a, "variables")'
    <2> DEFINE t == Head(a.todo)
    <2> SUFFICES ASSUME t.do = "get_var_code"
                 PROVE  (Slots(a.locals, t.num) \cup Slots(global_vars, t.num) # {})'
      BY DEF Known
    <2>1. todo # << >>
      BY <1>2, TasksLeft DEF OnPath
    <2>2. t = Head(todo) /\ At_("get_var_code")
      BY <1>2, <2>1, HeadMatch DEF OnPath, At_
    <2>3. get_var_code
      BY <2>2, LookUpsAct DEF OnPath
    <2>4. ~Undeclared /\ a.locals = local_vars /\ global_vars' = global_vars
      BY <1>2, <2>3 DEF OnPath, Match, get_var_code, scopes
    <2>5. Slots(a.locals, t.num) \cup Slots(global_vars, t.num) # {}
      BY <2>2, <2>4 DEF Undeclared
    <2> QED
      BY <2>4, <2>5 DEF Slots
  <1>3. \A z, b : Facts(z, b, "variables")'
    BY DEF Facts
  <1> QED
    BY <1>1, <1>2, <1>3, PassStep

LEMMA ErrorStep ==
    ASSUME TypeInv, WalkInv, OperandInv, NoErrorDropped, Next, PassInv("variables"), ErrorsEmitNothing
    PROVE  ErrorsEmitNothing'
  <1> SUFFICES ASSUME status' = "ERROR" PROVE ir_code' = << >>
    BY DEF ErrorsEmitNothing
  <1>1. CASE UNCHANGED vars
    BY <1>1 DEF vars, output, ErrorsEmitNothing
  <1>2. CASE get_var_code /\ Undeclared
    <2>1. ir_code' = ir_code
      BY <1>2, Fails DEF output
    <2>2. CASE pass_index = PASS_INDEX_TO_CALC_OFFSETS
      BY <2>1, <2>2 DEF OperandInv
    <2>3. CASE pass_index = PASS_INDEX_TO_WRITE
      <3>1. At_("get_var_code") /\ status = "running" /\ todo # << >>
            /\ Slots(local_vars, Head(todo).num) \cup Slots(global_vars, Head(todo).num) = {}
        BY <1>2 DEF Undeclared, At_
      <3>2. PICK tr, n, s, b :
               /\ Path(tr, n) /\ s \in 1 .. n /\ Match(tr[s], b)
               /\ \A i \in 1 .. n - 1 : Known(tr[i], "variables")
               /\ Head(tr[n].todo).do = "start_new_pass"
        BY <2>3, <3>1 DEF PassInv
      <3>3. Head(tr[s].todo) = Head(todo) /\ Head(todo).do = "get_var_code" /\ tr[s].locals = local_vars
        BY <3>1, <3>2, HeadMatch DEF At_, Match
      <3>4. s \in 1 .. n - 1
        <4>1. s # n /\ n \in Nat
          BY <3>2, <3>3 DEF Path
        <4> QED
          BY <3>2, <4>1
      <3>5. Slots(local_vars, Head(todo).num) \cup Slots(global_vars, Head(todo).num) # {}
        BY <3>2, <3>3, <3>4 DEF Known
      <3> QED
        BY <3>1, <3>5
    <2> QED
      BY <2>2, <2>3 DEF TypeInv, TypeOK
  <1>3. CASE start_new_pass
    <2>1. status' \in {status, "OK"} /\ status = "running"
      BY <1>3 DEF start_new_pass, At_
    <2> QED
      BY <2>1
  <1> QED
    BY <1>1, <1>2, <1>3, Steps DEF Aborts, Expands

LEMMA Unmoved ==
    ASSUME UNCHANGED vars
    PROVE  /\ WalkInv => WalkInv'
           /\ \A what : PassInv(what) => PassInv(what)'
           /\ ErrorsEmitNothing => ErrorsEmitNothing'
  <1>1. WalkInv => WalkInv'
    BY DEF vars, scopes, WalkInv
  <1>2. ErrorsEmitNothing => ErrorsEmitNothing'
    BY DEF vars, output, ErrorsEmitNothing
  <1>4. ASSUME NEW what, PassInv(what) PROVE PassInv(what)'
    <2>1. Start' = Start
      BY DEF vars, Start, PassTasks
    <2>2. \A l : Target(l)' = Target(l)
      BY DEF vars, transl, Target, addr_transl_translate
    <2>3. \A a, b : Match(a, b) => Match(a, b)'
      BY DEF vars, scopes, output, Match, Emitted
    <2>4. \A z, b : Facts(z, b, what) => Facts(z, b, what)'
      BY <2>2 DEF vars, scopes, output, transl, Facts
    <2>5. \A a : Known(a, what) => Known(a, what)'
      BY <2>2 DEF vars, scopes, transl, Known, Slots, addr_transl_translate
    <2>6. \A tr, n : Path(tr, n) => Path(tr, n)'
      BY <2>1 DEF Path
    <2> QED
      BY <1>4, <2>3, <2>4, <2>5, <2>6 DEF PassInv, vars
  <1> QED
    BY <1>1, <1>2, <1>4

LEMMA FrameUnmoved == ASSUME UNCHANGED scopes, SlotsBelowFrame PROVE SlotsBelowFrame'
  BY DEF scopes, SlotsBelowFrame

\* from_ast never fails after it has emitted an instruction, for every set of
\* trees: a variable that the first pass has found in a scope, the second finds
\* too, although its scopes hold the globals of the first pass as well.
THEOREM ErrorsCaughtEarly == Spec /\ []NoErrorDropped => []ErrorsEmitNothing
  <1> DEFINE I == /\ TypeInv /\ WalkInv /\ OperandInv /\ PassInv("variables")
                  /\ ErrorsEmitNothing
  <1>1. Init => I
    <2> SUFFICES ASSUME Init PROVE I
      OBVIOUS
    <2>1. Facts(Start, 0, "variables")
      BY DEF Facts
    <2>2. ErrorsEmitNothing
      BY DEF Init, ErrorsEmitNothing
    <2> QED
      BY <2>1, <2>2, TypeInit, WalkInit, OperandInit, PassInit
  <1>2. I /\ NoErrorDropped /\ [Next]_vars => I'
    <2> SUFFICES ASSUME I, NoErrorDropped, [Next]_vars PROVE I'
      OBVIOUS
    <2>1. TypeInv' /\ WalkInv' /\ OperandInv'
      BY TypeStep, WalkStep, OperandStep
    <2>2. PassInv("variables")' /\ ErrorsEmitNothing'
      BY VariablesStep, ErrorStep, Unmoved
    <2> QED
      BY <2>1, <2>2
  <1>3. I => ErrorsEmitNothing
    OBVIOUS
  <1> HIDE DEF I
  <1> QED
    BY <1>1, <1>2, <1>3, PTL DEF Spec

-----------------------------------------------------------------------------
(* The frame.                                                              *)

\* Functions are defined outside of functions: in_func is no counter, and the
\* size of the outer frame is stored in one place only.
NoNesting == AtNode("FUNC_DEF") => ~in_func

\* A function is left once, and only in a function is there one to leave.
NestInv ==
    status = "running" =>
        /\ \A i \in 1 .. Len(todo) : todo[i].do = "leave_func" => in_func
        /\ \A i, j \in 1 .. Len(todo) :
              todo[i].do = "leave_func" /\ todo[j].do = "leave_func" => i = j

LEMMA DefAct == ASSUME Next, AtNode("FUNC_DEF") PROVE convert_func_def
  BY DEF Next, At_, register_numeric_label, register_function_label, emit_instruction, start_new_pass,
         ConvertNull, ConvertSimple, convert_op, ConvertVarDef, ConvertElse, emit_assig, Catch,
         OperandsDone, emit_push_true_false, convert_if, ConvertBranches, convert_while,
         convert_func_def_args, LeaveFunc, ConvertFuncCall, get_var_code,
         convert_func_call_args, convert_func_call, Terminated, AtNode

\* The scopes change by the registration of a variable, and with the function.
LEMMA ScopesStep ==
    ASSUME TypeInv, OnPath
    PROVE  \/ /\ Registers(Head(todo)) /\ Head(todo).node.data \in Int
              /\ register_var(Head(todo).node.data)
           \/ convert_func_def \/ LeaveFunc
           \/ ~Registers(Head(todo)) /\ UNCHANGED scopes
  <1> DEFINE t == Head(todo)
  <1>1. CASE ConvertVarDef
    <2>1. /\ t.do = "subtree_convert" /\ t.node # nullptr /\ t.node.type = "VAR_DEF"
          /\ t.node.data \in Int /\ register_var(t.node.data)
      BY <1>1, NodeAt, NodeFacts DEF ConvertVarDef, AtNode, At_, Node
    <2> QED
      BY <2>1 DEF Registers, TypeOf
  <1>2. CASE convert_func_def_args
    <2>1. /\ t.do = "def_args" /\ t.node = Node /\ todo # << >>
          /\ TypeOf(t) = "none"
      BY <1>2 DEF convert_func_def_args, At_, Node, TypeOf
    <2>2. CASE Node # nullptr /\ Node.type = "VAR"
      <3>1. Node \in Nodes
        BY <2>1, <2>2, HeadTask, TaskFields DEF MaybeNodes
      <3> QED
        BY <1>2, <2>1, <2>2, <3>1, NodeFacts DEF convert_func_def_args, Registers
    <2>3. CASE ~(Node # nullptr /\ Node.type = "VAR")
      BY <1>2, <2>1, <2>3 DEF convert_func_def_args, Registers
    <2> QED
      BY <2>2, <2>3
  <1>3. CASE ConvertNull
    <2>1. t.do = "subtree_convert" /\ t.node = nullptr
      BY <1>3 DEF ConvertNull, At_, Node
    <2> QED
      BY <1>3, <2>1 DEF ConvertNull, GoOn, Registers, TypeOf
  <1>4. ASSUME NEW type, AtNode(type), type # "VAR_DEF" PROVE ~Registers(t)
    BY <1>4 DEF AtNode, At_, Node, Registers, TypeOf
  <1>5. ASSUME NEW h, At_(h), h \notin {"subtree_convert", "def_args"} PROVE ~Registers(t)
    BY <1>5 DEF At_, Registers, TypeOf
  <1>6. CASE \/ ConvertSimple \/ convert_op \/ ConvertElse \/ convert_if \/ convert_while
             \/ ConvertFuncCall
    BY <1>4, <1>6 DEF ConvertSimple, convert_op, ConvertElse, convert_if, convert_while,
                      ConvertFuncCall, GoOn
  <1>7. CASE \/ emit_instruction \/ register_numeric_label \/ register_function_label
             \/ get_var_code \/ emit_assig \/ Catch \/ OperandsDone \/ emit_push_true_false
             \/ ConvertBranches \/ convert_func_call_args \/ convert_func_call
    BY <1>5, <1>7 DEF emit_instruction, register_numeric_label, register_function_label,
             get_var_code, emit_assig, Catch, OperandsDone, emit_push_true_false,
             ConvertBranches, convert_func_call_args, convert_func_call, GoOn
  <1> QED
    BY <1>1, <1>2, <1>3, <1>6, <1>7 DEF OnPath, Next, Terminated

LEMMA NotNegative == ASSUME NEW m \in Nat, NEW n \in Nat PROVE ~(-1 \in m .. n - 1)
  OBVIOUS

LEMMA NestOn ==
    ASSUME TypeInv, NestInv, NoNesting, OnPath, NEW L, NEW k, Expands(L, k) PROVE NestInv'
  <1> DEFINE n == Len(todo)
             p == Len(L)
  <1>1. /\ p \in Nat /\ n \in Nat \ {0} /\ Head(todo) = todo[1]
        /\ \A i \in 1 .. p : todo'[i] = L[i]
        /\ \A i \in 2 .. n : todo'[p + i - 1] = todo[i]
        /\ \A i \in 1 .. Len(todo') : i \in 1 .. p \/ \E j \in 2 .. n : i = p + j - 1
    BY Places
  <1>2. /\ \A i \in 1 .. n : todo[i].do = "leave_func" => in_func
        /\ \A i, j \in 1 .. n : todo[i].do = "leave_func" /\ todo[j].do = "leave_func" => i = j
    BY DEF NestInv, OnPath
  <1>3. /\ \A i \in 1 .. p : L[i].do = "leave_func" => AtNode("FUNC_DEF")
        /\ \A i, j \in 1 .. p : L[i].do = "leave_func" /\ L[j].do = "leave_func" => i = j
    <2>1. /\ \A i \in 1 .. p : L[i].do \in Ends => EndOf(L[i]) \in Begins
          /\ \A i, j \in 1 .. p :
                L[i].do \in Ends /\ L[j].do \in Ends /\ EndOf(L[i]) = EndOf(L[j]) => i = j
          /\ cur_label_index \in Nat /\ cur_label_index' \in Nat
      BY DEF Expands, Makes, GoodList, TypeInv, TypeOK
    <2>2. \A i \in 1 .. p : L[i].do = "leave_func" => L[i].do \in Ends /\ EndOf(L[i]) = -1
      BY DEF Ends, EndOf
    <2>5. cur_label_index \in Nat /\ cur_label_index' \in Nat
      BY <2>1
    <2>4. ~(-1 \in cur_label_index .. cur_label_index' - 1)
      BY <2>5, NotNegative
    <2>3. -1 \in Begins => AtNode("FUNC_DEF")
      BY <2>4 DEF Begins
    <2> QED
      BY <2>1, <2>2, <2>3
  <1>4. CASE AtNode("FUNC_DEF")
    <2>1. convert_func_def /\ ~in_func
      BY <1>4, DefAct DEF NoNesting, OnPath
    <2>2. \A i \in 1 .. n : todo[i].do # "leave_func"
      BY <1>2, <2>1
    <2>3. in_func'
      BY <2>1 DEF convert_func_def
    <2>4. ASSUME NEW i \in 1 .. Len(todo'), todo'[i].do = "leave_func"
          PROVE  i \in 1 .. p /\ L[i].do = "leave_func"
      <3>1. ASSUME NEW j \in 2 .. n, i = p + j - 1 PROVE FALSE
        BY <1>1, <2>2, <2>4, <3>1
      <3> QED
        BY <1>1, <2>4, <3>1
    <2> QED
      BY <1>3, <2>3, <2>4 DEF NestInv
  <1>5. CASE ~AtNode("FUNC_DEF")
    <2>1. ASSUME NEW i \in 1 .. Len(todo'), todo'[i].do = "leave_func"
          PROVE  \E j \in 2 .. n : i = p + j - 1 /\ todo[j].do = "leave_func"
      BY <1>1, <1>3, <1>5, <2>1
    <2>2. CASE LeaveFunc
      <3>1. todo[1].do = "leave_func"
        BY <1>1, <2>2 DEF LeaveFunc, At_
      <3>2. \A j \in 2 .. n : todo[j].do # "leave_func"
        BY <1>1, <1>2, <3>1
      <3> QED
        BY <2>1, <3>2 DEF NestInv
    <2>3. CASE ~LeaveFunc
      <3>1. in_func' = in_func
        BY <1>5, <2>3, ScopesStep DEF convert_func_def, register_var, scopes
      <3>2. ASSUME NEW i \in 1 .. Len(todo'), NEW j \in 1 .. Len(todo'),
                   todo'[i].do = "leave_func", todo'[j].do = "leave_func"
            PROVE  i = j
        <4>1. PICK v \in 2 .. n : i = p + v - 1 /\ todo[v].do = "leave_func"
          BY <2>1, <3>2
        <4>2. PICK w \in 2 .. n : j = p + w - 1 /\ todo[w].do = "leave_func"
          BY <2>1, <3>2
        <4>4. v \in 1 .. n /\ w \in 1 .. n
          BY <1>1
        <4>3. v = w
          BY <1>2, <4>1, <4>2, <4>4
        <4> QED
          BY <4>1, <4>2, <4>3
      <3>3. ASSUME NEW i \in 1 .. Len(todo'), todo'[i].do = "leave_func" PROVE in_func'
        <4>1. PICK v \in 2 .. n : i = p + v - 1 /\ todo[v].do = "leave_func"
          BY <2>1, <3>3
        <4> QED
          BY <1>1, <1>2, <3>1, <4>1
      <3> QED
        BY <3>2, <3>3 DEF NestInv
    <2> QED
      BY <2>2, <2>3
  <1> QED
    BY <1>4, <1>5

LEMMA NestStep ==
    ASSUME TypeInv, WalkInv, NestInv, NoErrorDropped, NoNesting, [Next]_vars PROVE NestInv'
  <1> SUFFICES ASSUME status' = "running" PROVE NestInv'
    BY DEF NestInv
  <1>1. CASE UNCHANGED vars
    BY <1>1 DEF vars, scopes, NestInv
  <1>2. CASE start_new_pass
    <2>1. todo' = PassTasks /\ tree \in Trees
      BY <1>2, NewPass DEF TypeInv, TypeOK
    <2>2. \A i \in 1 .. Len(PassTasks) : PassTasks[i].do # "leave_func"
      <3>1. /\ Len(PassTasks) = 5 /\ \A i \in 1 .. 4 : PassTasks[i] \in Inert
            /\ PassTasks[5] = Mark("start_new_pass")
        BY <2>1, PassList
      <3>2. PassTasks[5].do # "leave_func"
        BY <3>1 DEF Mark
      <3>3. \A i \in 1 .. 4 : PassTasks[i].do # "leave_func"
        BY <3>1 DEF Inert, Ends
      <3> HIDE DEF PassTasks
      <3>4. \A i \in 1 .. Len(PassTasks) : i \in 1 .. 4 \/ i = 5
        BY <3>1
      <3> QED
        BY <3>2, <3>3, <3>4
    <2> QED
      BY <2>1, <2>2 DEF NestInv
  <1>3. CASE get_var_code /\ Undeclared
    BY <1>3, Fails
  <1>4. ASSUME Next, ~start_new_pass, ~(get_var_code /\ Undeclared), ~UNCHANGED vars PROVE NestInv'
    <2>1. OnPath
      BY <1>4, RunningStep DEF OnPath
    <2>2. \E L, k : Expands(L, k)
      BY <1>4, Steps DEF Aborts
    <2> QED
      BY <2>1, <2>2, NestOn
  <1> QED
    BY <1>1, <1>2, <1>3, <1>4

LEMMA NestInit == ASSUME Init PROVE NestInv
  <1>1. /\ Len(PassTasks) = 5 /\ \A i \in 1 .. 4 : PassTasks[i] \in Inert
        /\ PassTasks[5] = Mark("start_new_pass")
    BY PassList DEF Init
  <1>2. PassTasks[5].do # "leave_func"
    BY <1>1 DEF Mark
  <1>3. \A i \in 1 .. 4 : PassTasks[i].do # "leave_func"
    BY <1>1 DEF Inert, Ends
  <1> HIDE DEF PassTasks
  <1>4. \A i \in 1 .. Len(PassTasks) : i \in 1 .. 4 \/ i = 5
    BY <1>1
  <1> QED
    BY <1>2, <1>3, <1>4 DEF NestInv, Init

LEMMA AppendPlaces ==
    ASSUME NEW s \in Seq(Int), NEW v \in Int
    PROVE  /\ Append(s, v) \in Seq(Int) /\ Len(s) \in Nat /\ Len(Append(s, v)) = Len(s) + 1
           /\ \A i \in 1 .. Len(s) : Append(s, v)[i] = s[i]
           /\ Append(s, v)[Len(s) + 1] = v
  OBVIOUS

\* A variable is registered.
LEMMA RegisterFacts ==
    ASSUME TypeInv, OnPath, NEW a, NEW b, NEW z, NEW y, Match(a, b), Facts(z, b, "slots"),
           pass_index \in {PASS_INDEX_TO_CALC_OFFSETS, PASS_INDEX_TO_WRITE},
           pass_index = PASS_INDEX_TO_WRITE => Known(a, "slots"),
           pass_index = PASS_INDEX_TO_CALC_OFFSETS => b = 0,
           Head(a.todo) = Head(todo), Registers(Head(todo)), NEW v \in Int,
           v = Head(todo).node.data, register_var(v)
    PROVE  Facts(y, b, "slots")'
  <1> DEFINE g == Len(global_vars)
  <1>1. /\ global_vars \in Seq(Int) /\ local_vars \in Seq(Int) /\ frame_size \in Nat
        /\ in_func \in BOOLEAN /\ g \in Nat
    BY DEF TypeInv, TypeOK
  <1>2. b \in Nat /\ a.globals \in Nat /\ g = b + a.globals /\ a.func = (IF in_func THEN 1 ELSE 0)
    BY DEF Match
  <1>3. in_func' = in_func /\ frame_size' = frame_size + 1
        /\ global_frame_size_store' = global_frame_size_store
    BY DEF register_var
  <1>4. /\ ~in_func => frame_size = g - b /\ local_vars = << >>
        /\ in_func => frame_size = Len(local_vars) /\ global_frame_size_store = g - b
        /\ \A i \in 1 .. g - b : global_vars[b + i] = global_vars[i]
    BY DEF Facts
  <1>5. CASE in_func
    <2>1. local_vars' = Append(local_vars, v) /\ global_vars' = global_vars
      BY <1>5 DEF register_var
    <2>2. Len(local_vars') = Len(local_vars) + 1
      BY <1>1, <2>1, AppendPlaces
    <2> QED
      BY <1>3, <1>4, <1>5, <2>1, <2>2 DEF Facts
  <1>6. CASE ~in_func
    <2>1. global_vars' = Append(global_vars, v) /\ local_vars' = local_vars
      BY <1>6 DEF register_var
    <2>2. /\ Len(global_vars') = g + 1 /\ global_vars'[g + 1] = v
          /\ \A i \in 1 .. g : global_vars'[i] = global_vars[i]
      BY <1>1, <2>1, AppendPlaces
    <2> HIDE DEF g
    <2>3. frame_size' = (g + 1) - b
      BY <1>1, <1>2, <1>3, <1>4, <1>6
    <2>4. ASSUME NEW i \in 1 .. (g + 1) - b PROVE global_vars'[b + i] = global_vars'[i]
      <3>1. CASE b = 0
        <4>1. b + i = i
          BY <1>1, <3>1
        <4> QED
          BY <4>1
      <3>2. CASE b # 0 /\ i \in 1 .. g - b
        <4>1. b + i \in 1 .. g /\ i \in 1 .. g
          BY <1>1, <1>2, <3>2
        <4> QED
          BY <1>4, <2>2, <3>2, <4>1
      <3>3. CASE b # 0 /\ i \notin 1 .. g - b
        <4>4. /\ g \in Nat /\ b \in Nat /\ a.globals \in Nat /\ g - b = a.globals
              /\ i \in Nat /\ 1 <= i /\ i <= g + 1 - b
          BY SMTT(30), <1>1, <1>2
        <4>5. ~(i <= g - b)
          BY <3>3, <4>4
        <4>1. i = a.globals + 1 /\ b + i = g + 1
          BY <4>4, <4>5
        <4>2. Known(a, "slots")
          BY <3>3
        <4>3. a.globals + 1 \in 1 .. g /\ global_vars[a.globals + 1] = v
          BY <1>2, <1>6, <4>2 DEF Known, g
        <4> QED
          BY <2>2, <4>1, <4>3
      <3> QED
        BY <3>1, <3>2, <3>3
    <2> QED
      BY <1>3, <1>4, <1>6, <2>1, <2>2, <2>3, <2>4 DEF Facts
  <1> QED
    BY <1>5, <1>6

LEMMA SlotsStep ==
    ASSUME TypeInv, WalkInv, OperandInv, NestInv, NoErrorDropped, NoNesting, Next, PassInv("slots")
    PROVE  PassInv("slots")'
  <1> USE DEF PASS_INDEX_TO_CALC_OFFSETS, PASS_INDEX_TO_WRITE
  <1>1. ASSUME NEW a, Known(a, "slots") PROVE Known(a, "slots")'
    <2> DEFINE t == Head(a.todo)
    <2> SUFFICES ASSUME Registers(t), a.func = 0
                 PROVE  (/\ a.globals + 1 \in 1 .. Len(global_vars)
                         /\ global_vars[a.globals + 1] = t.node.data)'
      BY DEF Known
    <2>1. a.globals + 1 \in 1 .. Len(global_vars) /\ global_vars[a.globals + 1] = t.node.data
      BY <1>1 DEF Known
    <2>2. a.globals + 1 \in 1 .. Len(global_vars')
      BY <2>1, GlobalsGrow
    <2> QED
      BY <2>1, <2>2, GlobalsGrow
  <1>2. ASSUME NEW a, OnPath, pass_index = PASS_INDEX_TO_CALC_OFFSETS, Match(a, 0)
        PROVE  Known(a, "slots")'
    <2> DEFINE t == Head(a.todo)
    <2> SUFFICES ASSUME Registers(t), a.func = 0
                 PROVE  (/\ a.globals + 1 \in 1 .. Len(global_vars)
                         /\ global_vars[a.globals + 1] = t.node.data)'
      BY DEF Known
    <2>1. todo # << >>
      BY <1>2, TasksLeft DEF OnPath
    <2>2. t = Head(todo) /\ Registers(Head(todo))
      <3>1. t.do # "emit"
        BY DEF Registers, TypeOf
      <3> QED
        BY <1>2, <2>1, <3>1, HeadMatch
    <2>3. ~in_func /\ a.globals = Len(global_vars) /\ global_vars \in Seq(Int)
      <3>1. a.globals \in Nat /\ Len(global_vars) = 0 + a.globals /\ a.func = (IF in_func THEN 1 ELSE 0)
        BY <1>2 DEF Match
      <3>2. a.globals = Len(global_vars)
        BY <3>1
      <3> QED
        BY <3>1, <3>2 DEF TypeInv, TypeOK
    <2>4. ~convert_func_def /\ ~LeaveFunc
      BY <2>2 DEF convert_func_def, LeaveFunc, AtNode, At_, Node, Registers, TypeOf
    <2>5. Head(todo).node.data \in Int /\ register_var(Head(todo).node.data)
      BY <1>2, <2>2, <2>4, ScopesStep
    <2>6. global_vars' = Append(global_vars, t.node.data)
      BY <2>2, <2>3, <2>5 DEF register_var
    <2> HIDE DEF t
    <2>7. /\ Len(global_vars') = Len(global_vars) + 1 /\ Len(global_vars) \in Nat
          /\ global_vars'[Len(global_vars) + 1] = t.node.data
      BY <2>2, <2>3, <2>5, <2>6, AppendPlaces
    <2>8. a.globals + 1 \in 1 .. Len(global_vars')
      BY <2>3, <2>7
    <2> QED
      BY <2>3, <2>7, <2>8
  <1>3. ASSUME NEW a, NEW b, NEW y, NEW z, OnPath, Match(a, b), Match(Succ(a), b)', Facts(z, b, "slots"),
               pass_index = PASS_INDEX_TO_WRITE =>
                    y = z /\ Known(a, "slots") /\ Succ(a).labels <= z.labels,
               pass_index = PASS_INDEX_TO_CALC_OFFSETS => b = 0
        PROVE  Facts(y, b, "slots")'
    <2>1. todo # << >> /\ status = "running"
      BY <1>3, TasksLeft DEF OnPath
    <2>2. CASE Registers(Head(todo)) /\ Head(todo).node.data \in Int
               /\ register_var(Head(todo).node.data)
      <3>1. Head(a.todo) = Head(todo)
        <4>1. Head(todo).do # "emit"
          BY <2>2 DEF Registers, TypeOf
        <4> QED
          BY <1>3, <2>1, <4>1, HeadMatch
      <3>2. pass_index \in {PASS_INDEX_TO_CALC_OFFSETS, PASS_INDEX_TO_WRITE}
        BY DEF TypeInv, TypeOK
      <3> QED
        BY <1>3, <2>2, <3>1, <3>2, RegisterFacts
    <2>3. CASE convert_func_def
      <3>1. ~in_func
        BY <2>3 DEF convert_func_def, NoNesting
      <3>2. /\ frame_size = Len(global_vars) - b /\ local_vars = << >>
            /\ \A i \in 1 .. Len(global_vars) - b : global_vars[b + i] = global_vars[i]
        BY <1>3, <3>1 DEF Facts
      <3>3. /\ in_func' /\ frame_size' = 0 /\ global_frame_size_store' = frame_size
            /\ global_vars' = global_vars /\ local_vars' = << >> /\ Len(<< >>) = 0
        BY <2>3, <3>2 DEF convert_func_def
      <3> QED
        BY <3>2, <3>3 DEF Facts
    <2>4. CASE LeaveFunc
      <3>1. in_func
        <4>1. 1 \in 1 .. Len(todo) /\ todo[1].do = "leave_func"
          BY <2>1, <2>4, HeadTask DEF LeaveFunc, At_
        <4> QED
          BY <2>1, <4>1 DEF NestInv
      <3>2. /\ global_frame_size_store = Len(global_vars) - b
            /\ \A i \in 1 .. Len(global_vars) - b : global_vars[b + i] = global_vars[i]
        BY <1>3, <3>1 DEF Facts
      <3>3. /\ ~in_func' /\ frame_size' = global_frame_size_store
            /\ global_vars' = global_vars /\ local_vars' = << >>
        BY <2>4 DEF LeaveFunc
      <3> QED
        BY <3>2, <3>3 DEF Facts
    <2>5. CASE UNCHANGED scopes
      BY <1>3, <2>5 DEF scopes, Facts
    <2> QED
      BY <1>3, <2>2, <2>3, <2>4, <2>5, ScopesStep
  <1>4. ASSUME NEW a, start_new_pass, status' = "running", Match(a, 0), Facts(a, 0, "slots")
        PROVE  Facts(a, a.globals, "slots")'
    <2>1. /\ frame_size' = 0 /\ ~in_func' /\ local_vars' = << >> /\ global_vars' = global_vars
      BY <1>4, NewPass
    <2>2. a.globals \in Nat /\ Len(global_vars) = 0 + a.globals
      BY <1>4 DEF Match
    <2>3. Len(global_vars') - a.globals = 0
      BY <2>1, <2>2
    <2> QED
      BY <2>1, <2>3 DEF Facts
  <1> QED
    BY <1>1, <1>2, <1>3, <1>4, PassStep

LEMMA FirstSlotBefore ==
    ASSUME NEW names \in Seq(Int), NEW i \in 1 .. Len(names)
    PROVE  FirstSlot(names, names[i]) \in Nat /\ FirstSlot(names, names[i]) < i
  <1> DEFINE S == Slots(names, names[i])
             f == CHOOSE j \in S : \A h \in S : j <= h
  <1>1. S \subseteq Nat /\ S \subseteq 1 .. Len(names) /\ i \in S /\ Len(names) \in Nat
    BY DEF Slots
  <1> HIDE DEF S
  <1>2. \E j \in S : \A h \in S : j <= h
    BY <1>1, LeastMember
  <1>3. f \in S /\ \A h \in S : f <= h
    BY <1>2
  <1>4. FirstSlot(names, names[i]) = f - 1
    BY DEF FirstSlot, S
  <1> HIDE DEF f
  <1>5. f \in 1 .. Len(names) /\ f <= i
    BY <1>1, <1>3
  <1> QED
    BY <1>1, <1>4, <1>5

LEMMA Shifted ==
    ASSUME NEW g \in Nat, NEW b \in Nat, b <= g, NEW j \in b + 1 .. g
    PROVE  j - b \in 1 .. g - b /\ j - b \in 1 .. g /\ b + (j - b) = j
  OBVIOUS

LEMMA SlotsInside ==
    ASSUME TypeInv, status = "running", PassInv("slots") PROVE SlotsBelowFrame
  <1>1. PICK b, z, a : Match(a, b) /\ Facts(z, b, "slots")
    BY DEF PassInv
  <1>2. /\ global_vars \in Seq(Int) /\ local_vars \in Seq(Int) /\ in_func \in BOOLEAN
        /\ Len(global_vars) \in Nat /\ Len(local_vars) \in Nat
    BY DEF TypeInv, TypeOK
  <1>3. b \in Nat /\ a.globals \in Nat /\ Len(global_vars) = b + a.globals
    BY <1>1 DEF Match
  <1>4. CASE in_func
    <2>1. frame_size = Len(local_vars)
      BY <1>1, <1>4 DEF Facts
    <2>2. ASSUME NEW j \in (Len(local_vars) - frame_size + 1) .. Len(local_vars)
          PROVE  FirstSlot(local_vars, local_vars[j]) < frame_size
      <3>1. j \in 1 .. Len(local_vars)
        BY <1>2, <2>1
      <3>2. FirstSlot(local_vars, local_vars[j]) \in Nat /\ FirstSlot(local_vars, local_vars[j]) < j
        BY <1>2, <3>1, FirstSlotBefore
      <3> QED
        BY <1>2, <2>1, <3>1, <3>2
    <2> QED
      BY <1>2, <1>4, <2>1, <2>2 DEF SlotsBelowFrame
  <1>5. CASE ~in_func
    <2> DEFINE g == Len(global_vars)
    <2>1. /\ frame_size = g - b
          /\ \A i \in 1 .. g - b : global_vars[b + i] = global_vars[i]
      BY <1>1, <1>5 DEF Facts
    <2>2. ASSUME NEW j \in (g - frame_size + 1) .. g
          PROVE  FirstSlot(global_vars, global_vars[j]) < frame_size
      <3>1. j - b \in 1 .. g - b /\ j - b \in 1 .. g /\ b + (j - b) = j
        <4>1. frame_size = g - b
          BY <2>1
        <4>2. g = b + a.globals
          BY <1>3
        <4> HIDE DEF g
        <4>3. g \in Nat /\ b <= g
          BY <1>3, <4>2
        <4>4. g - frame_size + 1 = b + 1
          BY <1>3, <4>1, <4>3
        <4>5. j \in b + 1 .. g
          BY <4>4
        <4> QED
          BY <1>3, <4>3, <4>5, Shifted
      <3>2. global_vars[j] = global_vars[j - b]
        BY <2>1, <3>1
      <3>3. /\ FirstSlot(global_vars, global_vars[j - b]) \in Nat
            /\ FirstSlot(global_vars, global_vars[j - b]) < j - b
        BY <1>2, <3>1, FirstSlotBefore
      <3> QED
        BY <1>2, <1>3, <2>1, <3>1, <3>2, <3>3
    <2>3. frame_size <= g
      BY <1>2, <1>3, <2>1
    <2> QED
      BY <1>5, <2>2, <2>3 DEF SlotsBelowFrame
  <1> QED
    BY <1>2, <1>4, <1>5

LEMMA FrameStep ==
    ASSUME TypeInv, NoErrorDropped, [Next]_vars, status' # "running", SlotsBelowFrame
    PROVE  SlotsBelowFrame'
  <1>1. UNCHANGED scopes
    <2>1. CASE start_new_pass
      BY <2>1 DEF start_new_pass, At_, scopes
    <2>2. CASE get_var_code /\ Undeclared
      BY <2>2, Fails
    <2>3. CASE UNCHANGED vars
      BY <2>3 DEF vars
    <2>4. CASE Aborts
      BY <2>4 DEF Aborts
    <2> QED
      BY <2>1, <2>2, <2>3, <2>4, Steps DEF Expands
  <1> QED
    BY <1>1, FrameUnmoved

\* Every variable of the scope lies below the frame_size that a call adds to rdx,
\* for every set of trees and in both passes, although the second registers the
\* globals of the first once more: the frame of the function that is called
\* never overlaps a variable of its caller.
THEOREM FramesApart == Spec /\ []NoErrorDropped /\ []NoNesting => []SlotsBelowFrame
  <1> DEFINE I == /\ TypeInv /\ WalkInv /\ OperandInv /\ NestInv /\ PassInv("slots")
                  /\ status # "running" => SlotsBelowFrame
  <1>1. Init => I
    <2> SUFFICES ASSUME Init PROVE I
      OBVIOUS
    <2>1. Facts(Start, 0, "slots")
      <3>1. Len(global_vars) - 0 = 0
        BY DEF Init
      <3> QED
        BY <3>1 DEF Facts, Init
    <2>2. status = "running"
      BY DEF Init
    <2> QED
      BY <2>1, <2>2, TypeInit, WalkInit, OperandInit, NestInit, PassInit
  <1>2. I /\ NoErrorDropped /\ NoNesting /\ [Next]_vars => I'
    <2> SUFFICES ASSUME I, NoErrorDropped, NoNesting, [Next]_vars PROVE I'
      OBVIOUS
    <2>1. TypeInv' /\ WalkInv' /\ OperandInv' /\ NestInv'
      BY TypeStep, WalkStep, OperandStep, NestStep
    <2>2. PassInv("slots")'
      BY SlotsStep, Unmoved
    <2>3. SlotsBelowFrame
      BY SlotsInside
    <2>4. status' # "running" => SlotsBelowFrame'
      BY <2>3, FrameStep
    <2> QED
      BY <2>1, <2>2, <2>4
  <1>3. I => SlotsBelowFrame
    BY SlotsInside
  <1> HIDE DEF I
  <1> QED
    BY <1>1, <1>2, <1>3, PTL DEF Spec
-----------------------------------------------------------------------------

\* No function is defined twice: addr_transl_translate would find the first one.
FunctionsOnce ==
    At_("function_label") /\ pass_index = PASS_INDEX_TO_CALC_OFFSETS =>
        ~HasOld(func_label_transl, Head(todo).num)

\* Only functions that are defined somewhere are called.
CallsDefined ==
    At_("call") /\ pass_index = PASS_INDEX_TO_WRITE =>
        addr_transl_translate(func_label_transl, Node.data) # ERROR

\* The first pass: every label that has been taken is registered or still on the
\* list, and never both; what is registered lies before an instruction to come,
\* and before the HALT in the end.
LabelInv ==
    status = "running" /\ pass_index = PASS_INDEX_TO_CALC_OFFSETS =>
        /\ \A i \in 1 .. Len(todo) : todo[i].do = "numeric_label" =>
              /\ todo[i].num \in 0 .. cur_label_index - 1
              /\ ~HasOld(indexed_label_transl, todo[i].num)
        /\ \A i, j \in 1 .. Len(todo) :
              todo[i].do = "numeric_label" /\ todo[j].do = "numeric_label"
              /\ todo[i].num = todo[j].num => i = j
        /\ \A l : HasOld(indexed_label_transl, l) => l \in 0 .. cur_label_index - 1
        /\ \A l \in 0 .. cur_label_index - 1 :
              \/ HasOld(indexed_label_transl, l)
              \/ \E i \in 1 .. Len(todo) : todo[i].do = "numeric_label" /\ todo[i].num = l
        /\ \A t \in {indexed_label_transl, func_label_transl} :
              \A i \in 1 .. Len(t.mappings) :
                 /\ t.mappings[i].new_addr \in 0 .. current_instruction_index
                 /\ Len(todo) = 1 => t.mappings[i].new_addr \in 0 .. current_instruction_index - 1

\* A get_var_code stands right behind its PUSH or POP, and finds it at the end of
\* the code.
LookUpInv ==
    status = "running" =>
        /\ \A i \in 2 .. Len(todo) : todo[i].do = "get_var_code" => Waits(todo[i - 1])
        /\ At_("get_var_code") /\ pass_index = PASS_INDEX_TO_WRITE =>
              Len(ir_code) # 0 /\ ir_code[Len(ir_code)].type \in {"PUSH", "POP"}

-----------------------------------------------------------------------------
(* The first pass.                                                         *)

\* Where the labels on the list come from when L has replaced the first task.
LEMMA PendingStep ==
    ASSUME TypeInv, NEW L, NEW k, Expands(L, k)
    PROVE  /\ \A i \in 1 .. Len(todo') : todo'[i].do = "numeric_label" =>
                 \/ i \in 1 .. Len(L) /\ todo'[i].num \in cur_label_index .. cur_label_index' - 1
                 \/ \E j \in 2 .. Len(todo) : i = Len(L) + j - 1 /\ todo'[i] = todo[j]
           /\ \A i, j \in 1 .. Len(L) :
                 todo'[i].do = "numeric_label" /\ todo'[j].do = "numeric_label"
                 /\ todo'[i].num = todo'[j].num => i = j
           /\ \A l \in cur_label_index .. cur_label_index' - 1 :
                 \E i \in 1 .. Len(todo') : todo'[i].do = "numeric_label" /\ todo'[i].num = l
           /\ \A j \in 2 .. Len(todo) : \E i \in 1 .. Len(todo') : todo'[i] = todo[j]
  <1>1. /\ \A i \in 1 .. Len(L) : i \in 1 .. Len(todo') /\ todo'[i] = L[i]
        /\ \A i \in 2 .. Len(todo) : /\ Len(L) + i - 1 \in 1 .. Len(todo')
                                     /\ todo'[Len(L) + i - 1] = todo[i]
        /\ \A i \in 1 .. Len(todo') :
              i \in 1 .. Len(L) \/ \E j \in 2 .. Len(todo) : i = Len(L) + j - 1
    BY Places
  <1>2. /\ GoodList(L, Begins, LeadsTo) /\ cur_label_index \in Nat /\ cur_label_index' \in Nat
    BY DEF Expands, Makes, TypeInv, TypeOK
  <1>3. ASSUME NEW i \in 1 .. Len(L), L[i].do = "numeric_label"
        PROVE  /\ EndOf(L[i]) = L[i].num /\ L[i].do \in Ends
               /\ L[i].num \in cur_label_index .. cur_label_index' - 1
    <2>1. EndOf(L[i]) = L[i].num /\ L[i].do \in Ends
      BY <1>3 DEF EndOf, Ends
    <2>2. EndOf(L[i]) \in Begins /\ L[i].num \in Nat
      BY <1>2, <1>3, <2>1 DEF GoodList, TaskOK
    <2>3. L[i].num # -1
      BY <2>2
    <2> QED
      BY <2>1, <2>2, <2>3 DEF Begins
  <1>4. ASSUME NEW l \in cur_label_index .. cur_label_index' - 1
        PROVE  \E i \in 1 .. Len(L) : L[i].do = "numeric_label" /\ L[i].num = l
    <2>1. l \in Begins /\ l # -1
      <3>1. l # -1
        BY <1>2, NotNegative
      <3> QED
        BY <3>1 DEF Begins
    <2>2. PICK i \in 1 .. Len(L) : L[i].do \in Ends /\ EndOf(L[i]) = l
      BY <1>2, <2>1 DEF GoodList
    <2> QED
      BY <2>1, <2>2 DEF Ends, EndOf
  <1>5. ASSUME NEW i \in 1 .. Len(L), NEW j \in 1 .. Len(L), L[i].do = "numeric_label",
               L[j].do = "numeric_label", L[i].num = L[j].num
        PROVE  i = j
    <2>1. L[i].do \in Ends /\ L[j].do \in Ends /\ EndOf(L[i]) = EndOf(L[j])
      BY <1>3, <1>5
    <2> QED
      BY <1>2, <2>1 DEF GoodList
  <1>6. \A l \in cur_label_index .. cur_label_index' - 1 :
           \E i \in 1 .. Len(todo') : todo'[i].do = "numeric_label" /\ todo'[i].num = l
    BY <1>1, <1>4
  <1> QED
    BY <1>1, <1>3, <1>5, <1>6

\* Who registers a label or a function, and who counts.
LEMMA TranslStep ==
    ASSUME Next, ~start_new_pass
    PROVE  /\ \/ register_numeric_label \/ register_function_label
              \/ UNCHANGED transl /\ ~At_("numeric_label") /\ ~At_("function_label")
              \/ UNCHANGED vars /\ status # "running"
           /\ pass_index = PASS_INDEX_TO_CALC_OFFSETS =>
                 current_instruction_index' = IF At_("emit") THEN current_instruction_index + 1
                                              ELSE current_instruction_index
  <1>1. CASE \/ register_numeric_label \/ register_function_label \/ ConvertVarDef \/ LeaveFunc
             \/ convert_func_def \/ convert_func_def_args
    BY <1>1 DEF register_numeric_label, register_function_label, ConvertVarDef, LeaveFunc,
                convert_func_def, convert_func_def_args, output, AtNode, At_
  <1>2. CASE \/ ConvertNull \/ ConvertSimple \/ convert_op \/ ConvertElse \/ emit_assig \/ Catch
             \/ OperandsDone \/ emit_push_true_false
    BY <1>2 DEF ConvertNull, ConvertSimple, convert_op, ConvertElse, emit_assig, Catch,
                OperandsDone, emit_push_true_false, output, GoOn, AtNode, At_
  <1>3. CASE \/ convert_if \/ ConvertBranches \/ convert_while \/ ConvertFuncCall
             \/ convert_func_call_args \/ convert_func_call
    BY <1>3 DEF convert_if, ConvertBranches, convert_while, ConvertFuncCall,
                convert_func_call_args, convert_func_call, output, GoOn, AtNode, At_
  <1>4. CASE Terminated
    BY <1>4 DEF Terminated, vars, output, At_
  <1>5. CASE emit_instruction \/ get_var_code
    BY <1>5 DEF emit_instruction, get_var_code, At_
  <1> QED
    BY <1>1, <1>2, <1>3, <1>4, <1>5 DEF Next

\* A label that is registered leaves the list.
LEMMA RegisterStep ==
    ASSUME TypeInv, ~AllocMayFail, register_numeric_label,
           pass_index = PASS_INDEX_TO_CALC_OFFSETS, NEW l, l = Head(todo).num
    PROVE  /\ todo # << >> /\ Head(todo).do = "numeric_label" /\ l \in Int
           /\ Len(indexed_label_transl.mappings) \in Nat
           /\ Len(indexed_label_transl'.mappings) = Len(indexed_label_transl.mappings) + 1
           /\ \A i \in 1 .. Len(indexed_label_transl.mappings) :
                 indexed_label_transl'.mappings[i] = indexed_label_transl.mappings[i]
           /\ indexed_label_transl'.mappings[Len(indexed_label_transl.mappings) + 1].new_addr
                 = current_instruction_index
           /\ \A a : HasOld(indexed_label_transl, a) =>
                 addr_transl_translate(indexed_label_transl', a)
                    = addr_transl_translate(indexed_label_transl, a)
           /\ ~HasOld(indexed_label_transl, l) =>
                 addr_transl_translate(indexed_label_transl', l) = current_instruction_index
           /\ \A a : HasOld(indexed_label_transl', a) <=> HasOld(indexed_label_transl, a) \/ a = l
           /\ UNCHANGED << func_label_transl, cur_label_index >>
  <1>1. todo # << >> /\ Head(todo).do = "numeric_label"
    BY DEF register_numeric_label, At_
  <1>2. l \in Int
    BY <1>1, HeadTask, TaskFields
  <1>3. PICK o \in addr_transl_insert(indexed_label_transl, l, current_instruction_index) :
           indexed_label_transl' = o.t
    BY DEF register_numeric_label
  <1>4. indexed_label_transl \in Translators /\ current_instruction_index \in Int
    BY DEF TypeInv, TypeOK
  <1> DEFINE x == [old_addr |-> l, new_addr |-> current_instruction_index]
             t == indexed_label_transl
  <1>5. x.new_addr = current_instruction_index
    OBVIOUS
  <1>7. /\ Len(t.mappings) \in Nat /\ Len(o.t.mappings) = Len(t.mappings) + 1
        /\ \A i \in 1 .. Len(t.mappings) : o.t.mappings[i] = t.mappings[i]
        /\ o.t.mappings[Len(t.mappings) + 1] = x
        /\ \A a : HasOld(t, a) => addr_transl_translate(o.t, a) = addr_transl_translate(t, a)
        /\ ~HasOld(t, l) => addr_transl_translate(o.t, l) = current_instruction_index
        /\ \A a : HasOld(o.t, a) <=> HasOld(t, a) \/ a = l
    BY <1>2, <1>3, <1>4, InsertTranslates
  <1> HIDE DEF x
  <1>6. UNCHANGED << func_label_transl, cur_label_index >>
    BY DEF register_numeric_label
  <1> QED
    BY <1>1, <1>2, <1>3, <1>5, <1>6, <1>7

LEMMA RegisterFunctionStep ==
    ASSUME TypeInv, ~AllocMayFail, register_function_label,
           pass_index = PASS_INDEX_TO_CALC_OFFSETS, NEW l, l = Head(todo).num
    PROVE  /\ At_("function_label")
           /\ Len(func_label_transl.mappings) \in Nat
           /\ Len(func_label_transl'.mappings) = Len(func_label_transl.mappings) + 1
           /\ \A i \in 1 .. Len(func_label_transl.mappings) :
                 func_label_transl'.mappings[i] = func_label_transl.mappings[i]
           /\ func_label_transl'.mappings[Len(func_label_transl.mappings) + 1].new_addr
                 = current_instruction_index
           /\ \A a : HasOld(func_label_transl, a) =>
                 addr_transl_translate(func_label_transl', a)
                    = addr_transl_translate(func_label_transl, a)
           /\ ~HasOld(func_label_transl, l) =>
                 addr_transl_translate(func_label_transl', l) = current_instruction_index
           /\ \A a : HasOld(func_label_transl', a) <=> HasOld(func_label_transl, a) \/ a = l
           /\ UNCHANGED indexed_label_transl
  <1>1. At_("function_label") /\ todo # << >> /\ Head(todo).do = "function_label"
    BY DEF register_function_label, At_
  <1>2. l \in Int
    BY <1>1, HeadTask, TaskFields
  <1>3. PICK o \in addr_transl_insert(func_label_transl, l, current_instruction_index) :
           func_label_transl' = o.t
    BY DEF register_function_label
  <1>4. func_label_transl \in Translators /\ current_instruction_index \in Int
    BY DEF TypeInv, TypeOK
  <1> DEFINE x == [old_addr |-> l, new_addr |-> current_instruction_index]
             t == func_label_transl
  <1>5. x.new_addr = current_instruction_index
    OBVIOUS
  <1>7. /\ Len(t.mappings) \in Nat /\ Len(o.t.mappings) = Len(t.mappings) + 1
        /\ \A i \in 1 .. Len(t.mappings) : o.t.mappings[i] = t.mappings[i]
        /\ o.t.mappings[Len(t.mappings) + 1] = x
        /\ \A a : HasOld(t, a) => addr_transl_translate(o.t, a) = addr_transl_translate(t, a)
        /\ ~HasOld(t, l) => addr_transl_translate(o.t, l) = current_instruction_index
        /\ \A a : HasOld(o.t, a) <=> HasOld(t, a) \/ a = l
    BY <1>2, <1>3, <1>4, InsertTranslates
  <1> HIDE DEF x
  <1>6. UNCHANGED indexed_label_transl
    BY DEF register_function_label
  <1> QED
    BY <1>1, <1>2, <1>3, <1>5, <1>6, <1>7

\* What has been registered lies before an instruction to come.
LEMMA AddressesOn ==
    ASSUME TypeInv, WalkInv, LabelInv, Next, ~AllocMayFail, NEW L, NEW k, Expands(L, k),
           pass_index = PASS_INDEX_TO_CALC_OFFSETS, ~start_new_pass
    PROVE  \A t \in {indexed_label_transl', func_label_transl'} :
              \A i \in 1 .. Len(t.mappings) :
                 /\ t.mappings[i].new_addr \in 0 .. current_instruction_index'
                 /\ Len(todo') = 1 => t.mappings[i].new_addr \in 0 .. current_instruction_index' - 1
  <1> DEFINE c == current_instruction_index
             d == current_instruction_index'
             n == Len(todo)
  <1>1. status = "running" /\ todo # << >> /\ Head(todo).do # "start_new_pass"
    BY DEF Expands
  <1>2. /\ n \in Nat \ {0} /\ Len(L) \in Nat /\ Len(todo') = Len(L) + n - 1 /\ Head(todo) = todo[1]
        /\ c \in Nat
    BY Places DEF TypeInv, TypeOK
  <1>3. /\ todo[n].do = "start_new_pass"
        /\ n >= 2 => todo[n - 1].do = "emit"
    BY <1>1 DEF WalkInv
  <1>4. n # 1
    BY <1>1, <1>2, <1>3
  <1>5. d = (IF At_("emit") THEN c + 1 ELSE c) /\ d \in Nat
    BY <1>2, TranslStep
  <1>6. Len(todo') = 1 => At_("emit")
    <2> SUFFICES ASSUME Len(todo') = 1 PROVE At_("emit")
      OBVIOUS
    <2>1. n = 2
      <3>1. ASSUME NEW p \in Nat, NEW q \in Nat \ {0}, q # 1, p + q - 1 = 1 PROVE q = 2
        BY <3>1
      <3> QED
        BY <1>2, <1>4, <3>1
    <2>2. todo[1].do = "emit"
      BY <1>3, <2>1
    <2> QED
      BY <1>1, <1>2, <2>2 DEF At_
  <1> HIDE DEF c, d
  <1>7. ASSUME NEW v, v \in 0 .. c
        PROVE  v \in 0 .. d /\ (Len(todo') = 1 => v \in 0 .. d - 1)
    <2>1. c \in Nat /\ d \in Nat /\ c <= d /\ (Len(todo') = 1 => d = c + 1)
      BY <1>2, <1>5, <1>6
    <2> QED
      BY <1>7, <2>1
  <1>8. \A t \in {indexed_label_transl, func_label_transl} :
           \A i \in 1 .. Len(t.mappings) : t.mappings[i].new_addr \in 0 .. c
    BY <1>1 DEF LabelInv, c
  <1>9. \A t \in {indexed_label_transl', func_label_transl'} :
           \A i \in 1 .. Len(t.mappings) : t.mappings[i].new_addr \in 0 .. c
    <2>1. ASSUME NEW f, NEW g, NEW m \in Nat, Len(f) = m, Len(g) = m + 1,
                 \A i \in 1 .. m : g[i] = f[i], g[m + 1].new_addr = c,
                 \A i \in 1 .. Len(f) : f[i].new_addr \in 0 .. c
          PROVE  \A i \in 1 .. Len(g) : g[i].new_addr \in 0 .. c
      <3>1. \A i \in 1 .. Len(g) : i \in 1 .. m \/ i = m + 1
        BY <2>1
      <3>2. c \in 0 .. c
        BY <1>2
      <3> QED
        BY <2>1, <3>1, <3>2
    <2>2. CASE register_numeric_label
      <3>1. \A i \in 1 .. Len(indexed_label_transl'.mappings) :
               indexed_label_transl'.mappings[i].new_addr \in 0 .. c
        BY <1>8, <2>1, <2>2, RegisterStep DEF c
      <3>2. func_label_transl' = func_label_transl
        BY <2>2 DEF register_numeric_label
      <3> QED
        BY <1>8, <3>1, <3>2
    <2>3. CASE register_function_label
      <3>1. \A i \in 1 .. Len(func_label_transl'.mappings) :
               func_label_transl'.mappings[i].new_addr \in 0 .. c
        BY <1>8, <2>1, <2>3, RegisterFunctionStep DEF c
      <3>2. indexed_label_transl' = indexed_label_transl
        BY <2>3 DEF register_function_label
      <3> QED
        BY <1>8, <3>1, <3>2
    <2>4. CASE UNCHANGED transl
      <3>1. indexed_label_transl' = indexed_label_transl /\ func_label_transl' = func_label_transl
        BY <2>4 DEF transl
      <3> QED
        BY <1>8, <3>1
    <2> QED
      BY <1>1, <2>2, <2>3, <2>4, TranslStep
  <1> QED
    BY <1>7, <1>9 DEF d

LEMMA LabelOn ==
    ASSUME TypeInv, WalkInv, LabelInv, Next, ~AllocMayFail, NEW L, NEW k, Expands(L, k),
           ~start_new_pass
    PROVE  LabelInv'
  <1> SUFFICES ASSUME pass_index' = PASS_INDEX_TO_CALC_OFFSETS PROVE LabelInv'
    BY DEF LabelInv
  <1> DEFINE c == cur_label_index
             d == cur_label_index'
             t == indexed_label_transl
             u == indexed_label_transl'
             n == Len(todo)
  <1>1. status = "running" /\ todo # << >> /\ pass_index = PASS_INDEX_TO_CALC_OFFSETS
    BY PassIndexStep DEF Expands
  <1>2. c \in Nat /\ d \in Nat /\ c <= d /\ n \in Nat \ {0} /\ Head(todo) = todo[1]
    BY Places DEF Expands, TypeInv, TypeOK
  <1>3. /\ \A i \in 1 .. Len(todo') : todo'[i].do = "numeric_label" =>
              \/ i \in 1 .. Len(L) /\ todo'[i].num \in c .. d - 1
              \/ \E j \in 2 .. n : i = Len(L) + j - 1 /\ todo'[i] = todo[j]
        /\ \A i, j \in 1 .. Len(L) :
              todo'[i].do = "numeric_label" /\ todo'[j].do = "numeric_label"
              /\ todo'[i].num = todo'[j].num => i = j
        /\ \A l \in c .. d - 1 :
              \E i \in 1 .. Len(todo') : todo'[i].do = "numeric_label" /\ todo'[i].num = l
        /\ \A j \in 2 .. n : \E i \in 1 .. Len(todo') : todo'[i] = todo[j]
    BY PendingStep
  <1>4. /\ \A i \in 1 .. n : todo[i].do = "numeric_label" =>
              todo[i].num \in 0 .. c - 1 /\ ~HasOld(t, todo[i].num)
        /\ \A i, j \in 1 .. n :
              todo[i].do = "numeric_label" /\ todo[j].do = "numeric_label"
              /\ todo[i].num = todo[j].num => i = j
        /\ \A l : HasOld(t, l) => l \in 0 .. c - 1
        /\ \A l \in 0 .. c - 1 :
              HasOld(t, l) \/ \E i \in 1 .. n : todo[i].do = "numeric_label" /\ todo[i].num = l
    BY <1>1 DEF LabelInv
  <1>5. \A a : HasOld(u, a) <=>
                  HasOld(t, a) \/ (todo[1].do = "numeric_label" /\ a = todo[1].num)
    <2>1. CASE register_numeric_label
      BY <1>1, <1>2, <2>1, RegisterStep
    <2>2. CASE register_function_label
      <3>1. u = t /\ todo[1].do # "numeric_label"
        BY <1>2, <2>2 DEF register_function_label, At_
      <3> QED
        BY <3>1
    <2>3. CASE UNCHANGED transl /\ ~At_("numeric_label")
      <3>1. u = t /\ todo[1].do # "numeric_label"
        BY <1>1, <1>2, <2>3 DEF transl, At_
      <3> QED
        BY <3>1
    <2> QED
      BY <1>1, <2>1, <2>2, <2>3, TranslStep
  <1>6. \A i, j \in 2 .. n : i \in 1 .. n /\ i # 1
    BY <1>2
  <1>7. 1 \in 1 .. n /\ \A i \in 1 .. n : i = 1 \/ i \in 2 .. n
    BY <1>2
  <1>8. \A l : l \in 0 .. d - 1 <=> l \in 0 .. c - 1 \/ l \in c .. d - 1
    BY <1>2
  <1>9. \A l : ~(l \in 0 .. c - 1 /\ l \in c .. d - 1)
    BY <1>2
  <1> HIDE DEF c, d, t, u, n
  <1>10. \A j \in 2 .. n : todo[j].do = "numeric_label" =>
            todo[j].num \in 0 .. c - 1 /\ ~HasOld(u, todo[j].num)
    BY <1>4, <1>5, <1>6, <1>7
  <1>11. \A i \in 1 .. Len(todo') : todo'[i].do = "numeric_label" =>
            todo'[i].num \in 0 .. d - 1 /\ ~HasOld(u, todo'[i].num)
    <2> SUFFICES ASSUME NEW i \in 1 .. Len(todo'), todo'[i].do = "numeric_label"
                 PROVE  todo'[i].num \in 0 .. d - 1 /\ ~HasOld(u, todo'[i].num)
      OBVIOUS
    <2>1. CASE todo'[i].num \in c .. d - 1
      <3>1. ~(todo'[i].num \in 0 .. c - 1)
        BY <1>9, <2>1
      <3>2. ~HasOld(u, todo'[i].num)
        BY <1>4, <1>5, <1>7, <3>1
      <3> QED
        BY <1>8, <2>1, <3>2
    <2>2. ASSUME NEW j \in 2 .. n, todo'[i] = todo[j]
          PROVE  todo'[i].num \in 0 .. d - 1 /\ ~HasOld(u, todo'[i].num)
      BY <1>8, <1>10, <2>2
    <2> QED
      BY <1>3, <2>1, <2>2
  <1>12. ASSUME NEW i \in 1 .. Len(todo'), NEW j \in 1 .. Len(todo'),
                todo'[i].do = "numeric_label", todo'[j].do = "numeric_label",
                todo'[i].num = todo'[j].num
         PROVE  i = j
    <2>1. CASE i \in 1 .. Len(L) /\ j \in 1 .. Len(L)
      BY <1>3, <1>12, <2>1
    <2>2. ASSUME NEW p \in 2 .. n, NEW q \in 2 .. n, i = Len(L) + p - 1, j = Len(L) + q - 1,
                 todo'[i] = todo[p], todo'[j] = todo[q]
          PROVE  i = j
      <3>1. p = q
        BY <1>4, <1>6, <1>12, <2>2
      <3> QED
        BY <2>2, <3>1
    <2>3. ASSUME todo'[i].num \in c .. d - 1, NEW q \in 2 .. n, todo'[j] = todo[q]
          PROVE  FALSE
      BY <1>4, <1>6, <1>9, <1>12, <2>3
    <2>4. ASSUME todo'[j].num \in c .. d - 1, NEW q \in 2 .. n, todo'[i] = todo[q]
          PROVE  FALSE
      BY <1>4, <1>6, <1>9, <1>12, <2>4
    <2> QED
      BY <1>3, <1>12, <2>1, <2>2, <2>3, <2>4
  <1>13. \A l : HasOld(u, l) => l \in 0 .. d - 1
    BY <1>4, <1>5, <1>7, <1>8
  <1>14. ASSUME NEW l \in 0 .. d - 1
         PROVE  \/ HasOld(u, l)
                \/ \E i \in 1 .. Len(todo') : todo'[i].do = "numeric_label" /\ todo'[i].num = l
    <2>1. CASE l \in c .. d - 1
      BY <1>3, <2>1
    <2>2. CASE HasOld(t, l)
      BY <1>5, <2>2
    <2>3. ASSUME NEW i \in 1 .. n, todo[i].do = "numeric_label", todo[i].num = l
          PROVE  \/ HasOld(u, l)
                 \/ \E j \in 1 .. Len(todo') : todo'[j].do = "numeric_label" /\ todo'[j].num = l
      <3>1. CASE i = 1
        BY <1>5, <2>3, <3>1
      <3>2. CASE i \in 2 .. n
        <4>1. PICK j \in 1 .. Len(todo') : todo'[j] = todo[i]
          BY <1>3, <3>2
        <4> QED
          BY <2>3, <4>1
      <3> QED
        BY <1>7, <3>1, <3>2
    <2> QED
      BY <1>4, <1>8, <2>1, <2>2, <2>3
  <1>15. \A v \in {u, func_label_transl'} :
            \A i \in 1 .. Len(v.mappings) :
               /\ v.mappings[i].new_addr \in 0 .. current_instruction_index'
               /\ Len(todo') = 1 => v.mappings[i].new_addr \in 0 .. current_instruction_index' - 1
    BY <1>1, AddressesOn DEF u
  <1> QED
    BY <1>11, <1>12, <1>13, <1>14, <1>15 DEF LabelInv, u, d

LEMMA LabelStep1 ==
    ASSUME TypeInv, WalkInv, LabelInv, NoErrorDropped, ~AllocMayFail, [Next]_vars PROVE LabelInv'
  <1>1. CASE UNCHANGED vars
    BY <1>1 DEF vars, scopes, transl, output, LabelInv, HasOld
  <1>2. CASE start_new_pass
    <2>1. status' = "running" => pass_index' = PASS_INDEX_TO_WRITE
      BY <1>2, NewPass
    <2> QED
      BY <2>1 DEF LabelInv, PASS_INDEX_TO_WRITE, PASS_INDEX_TO_CALC_OFFSETS
  <1>3. CASE Next /\ ~start_new_pass
    <2>1. CASE get_var_code /\ Undeclared
      BY <2>1, Fails DEF LabelInv
    <2>2. CASE Aborts
      BY <2>2 DEF Aborts, LabelInv
    <2>3. ASSUME NEW L, NEW k, Expands(L, k) PROVE LabelInv'
      BY <1>3, <2>3, LabelOn
    <2> QED
      BY <1>1, <1>3, <2>1, <2>2, <2>3, Steps
  <1> QED
    BY <1>1, <1>2, <1>3

LEMMA LabelInit == ASSUME Init PROVE LabelInv
  <1>1. /\ Len(PassTasks) = 5 /\ \A i \in 1 .. 4 : PassTasks[i] \in Inert
        /\ PassTasks[5] = Mark("start_new_pass")
    BY PassList DEF Init
  <1>2. PassTasks[5].do = "start_new_pass"
    BY <1>1 DEF Mark
  <1>3. \A i \in 1 .. 4 : PassTasks[i].do # "numeric_label"
    BY <1>1 DEF Inert, Ends
  <1>4. todo = PassTasks /\ cur_label_index = 0
        /\ indexed_label_transl = addr_transl_new /\ func_label_transl = addr_transl_new
    BY DEF Init
  <1>5. Len(addr_transl_new.mappings) = 0
    BY DEF addr_transl_new
  <1> HIDE DEF PassTasks
  <1>6. \A i \in 1 .. Len(todo) : i \in 1 .. 4 \/ i = 5
    <2>1. Len(todo) = 5
      BY <1>1, <1>4
    <2> QED
      BY <2>1
  <1>7. \A i \in 1 .. Len(todo) : todo[i].do # "numeric_label"
    BY <1>2, <1>3, <1>4, <1>6
  <1>8. \A l : ~HasOld(addr_transl_new, l)
    BY <1>5 DEF HasOld
  <1>9. 0 .. cur_label_index - 1 = {}
    BY <1>4
  <1> QED
    BY <1>4, <1>5, <1>7, <1>8, <1>9 DEF LabelInv

-----------------------------------------------------------------------------
(* Labels: the second pass finds them where it comes to them.              *)

\* A translation never changes, in either pass.
LEMMA TranslationsKept ==
    ASSUME TypeInv, Next, ~AllocMayFail
    PROVE  /\ \A l : Target(l) # ERROR => Target(l)' = Target(l)
           /\ \A f : addr_transl_translate(func_label_transl, f) # ERROR =>
                 addr_transl_translate(func_label_transl', f)
                    = addr_transl_translate(func_label_transl, f)
  <1>1. indexed_label_transl \in Translators /\ func_label_transl \in Translators
    BY DEF TypeInv, TypeOK
  <1>2. /\ \A l : Target(l) # ERROR => HasOld(indexed_label_transl, l)
        /\ \A f : addr_transl_translate(func_label_transl, f) # ERROR =>
              HasOld(func_label_transl, f)
    BY <1>1, TranslateFinds DEF Target
  <1>3. CASE UNCHANGED transl
    BY <1>3 DEF transl, Target
  <1>4. CASE register_numeric_label /\ pass_index = PASS_INDEX_TO_CALC_OFFSETS
    <2>1. func_label_transl' = func_label_transl
      BY <1>4 DEF register_numeric_label
    <2> QED
      BY <1>2, <1>4, <2>1, RegisterStep DEF Target
  <1>5. CASE register_function_label /\ pass_index = PASS_INDEX_TO_CALC_OFFSETS
    <2>1. indexed_label_transl' = indexed_label_transl
      BY <1>5 DEF register_function_label
    <2> QED
      BY <1>2, <1>5, <2>1, RegisterFunctionStep DEF Target
  <1>6. CASE register_numeric_label /\ pass_index # PASS_INDEX_TO_CALC_OFFSETS
    BY <1>3, <1>6 DEF register_numeric_label, transl
  <1>7. CASE register_function_label /\ pass_index # PASS_INDEX_TO_CALC_OFFSETS
    BY <1>3, <1>7 DEF register_function_label, transl
  <1>8. CASE start_new_pass
    BY <1>3, <1>8 DEF start_new_pass
  <1>9. CASE UNCHANGED vars
    BY <1>3, <1>9 DEF vars
  <1> QED
    BY <1>3, <1>4, <1>5, <1>6, <1>7, <1>8, <1>9, TranslStep

LEMMA LabelsStep ==
    ASSUME TypeInv, WalkInv, OperandInv, LabelInv, NoErrorDropped, FunctionsOnce, ~AllocMayFail,
           Next, PassInv("labels")
    PROVE  PassInv("labels")'
  <1>1. ASSUME NEW a, Known(a, "labels") PROVE Known(a, "labels")'
    <2>1. ERROR \notin Nat
      BY DEF ERROR
    <2> QED
      BY <1>1, <2>1, TranslationsKept DEF Known, Target
  <1>2. ASSUME NEW a, OnPath, pass_index = PASS_INDEX_TO_CALC_OFFSETS, Match(a, 0)
        PROVE  Known(a, "labels")'
    <2> DEFINE t == Head(a.todo)
    <2>1. todo # << >> /\ status = "running" /\ Next
      BY <1>2, TasksLeft DEF OnPath
    <2>2. t.do = Head(todo).do /\ (t.do # "emit" => t = Head(todo))
      BY <1>2, <2>1, HeadMatch
    <2>3. a.count = current_instruction_index /\ a.count \in Nat
      BY <1>2 DEF Match, Emitted, TypeInv, TypeOK
    <2>4. CASE t.do = "numeric_label"
      <3>1. t = Head(todo) /\ At_("numeric_label")
        BY <2>1, <2>2, <2>4 DEF At_
      <3>2. register_numeric_label
        BY <2>1, <3>1 DEF Next, At_, register_function_label, emit_instruction, start_new_pass,
           get_var_code, ConvertNull, ConvertSimple, convert_op, ConvertVarDef, ConvertElse, emit_assig,
           Catch, OperandsDone, emit_push_true_false, convert_if, ConvertBranches, convert_while,
           convert_func_def, convert_func_def_args, LeaveFunc, ConvertFuncCall,
           convert_func_call_args, convert_func_call, Terminated, AtNode
      <3>3. ~HasOld(indexed_label_transl, t.num)
        <4>1. 1 \in 1 .. Len(todo) /\ todo[1] = t
          BY <2>1, <3>1, HeadTask
        <4> QED
          BY <1>2, <2>1, <2>4, <4>1 DEF LabelInv
      <3>4. addr_transl_translate(indexed_label_transl', t.num) = current_instruction_index
        BY <1>2, <3>1, <3>2, <3>3, RegisterStep
      <3>5. Target(t.num)' = a.count
        BY <2>3, <3>4 DEF Target
      <3> QED
        BY <2>3, <2>4, <3>5 DEF Known
    <2>5. CASE t.do = "function_label"
      <3>1. t = Head(todo) /\ At_("function_label")
        BY <2>1, <2>2, <2>5 DEF At_
      <3>2. register_function_label
        BY <2>1, <3>1 DEF Next, At_, register_numeric_label, emit_instruction, start_new_pass,
           get_var_code, ConvertNull, ConvertSimple, convert_op, ConvertVarDef, ConvertElse, emit_assig,
           Catch, OperandsDone, emit_push_true_false, convert_if, ConvertBranches, convert_while,
           convert_func_def, convert_func_def_args, LeaveFunc, ConvertFuncCall,
           convert_func_call_args, convert_func_call, Terminated, AtNode
      <3>3. ~HasOld(func_label_transl, t.num)
        BY <1>2, <3>1 DEF FunctionsOnce
      <3>4. addr_transl_translate(func_label_transl', t.num) = a.count
        BY <1>2, <2>3, <3>1, <3>2, <3>3, RegisterFunctionStep
      <3> QED
        BY <2>3, <2>5, <3>4 DEF Known
    <2>6. CASE t.do \notin {"numeric_label", "function_label"}
      BY <2>6 DEF Known
    <2> QED
      BY <2>4, <2>5, <2>6
  <1>3. \A z, b : Facts(z, b, "labels")'
    BY DEF Facts
  <1> QED
    BY <1>1, <1>2, <1>3, PassStep

\* What the first pass has learnt holds for the place the second one is at.
LEMMA LabelsKnown ==
    ASSUME TypeInv, WalkInv, PassInv("labels") PROVE LabelsAgree
  <1> SUFFICES ASSUME status = "running", pass_index = PASS_INDEX_TO_WRITE PROVE LabelsAgree
    BY DEF LabelsAgree
  <1>1. todo # << >>
    BY TasksLeft
  <1>2. PICK tr, n, s, b :
           /\ Path(tr, n) /\ s \in 1 .. n /\ Match(tr[s], b)
           /\ \A i \in 1 .. n - 1 : Known(tr[i], "labels")
           /\ Head(tr[n].todo).do = "start_new_pass"
    BY DEF PassInv
  <1>3. Head(tr[s].todo).do = Head(todo).do
        /\ (Head(todo).do # "emit" => Head(tr[s].todo) = Head(todo))
    BY <1>1, <1>2, HeadMatch
  <1>4. tr[s].count = Len(ir_code)
    BY <1>2 DEF Match, Emitted, PASS_INDEX_TO_WRITE, PASS_INDEX_TO_CALC_OFFSETS
  <1>5. CASE Head(todo).do \in {"numeric_label", "function_label"}
    <2>1. s # n /\ n \in Nat
      BY <1>2, <1>3, <1>5 DEF Path
    <2>2. s \in 1 .. n - 1
      BY <1>2, <2>1
    <2>3. Known(tr[s], "labels") /\ Head(tr[s].todo) = Head(todo)
      BY <1>2, <1>3, <1>5, <2>2
    <2> QED
      BY <1>4, <2>3 DEF Known, LabelsAgree
  <1>6. CASE Head(todo).do \notin {"numeric_label", "function_label"}
    BY <1>6 DEF LabelsAgree
  <1> QED
    BY <1>5, <1>6

\* The second pass comes to every label and to every function at the instruction
\* where the first one registered it, for every set of trees: whatever the second
\* pass does in another way than the first, it counts the same instructions and
\* takes the same labels, as long as realloc succeeds and no function is defined
\* twice.
THEOREM LabelsWhereRegistered ==
    ~AllocMayFail /\ Spec /\ []NoErrorDropped /\ []FunctionsOnce => []LabelsAgree
  <1> SUFFICES ASSUME ~AllocMayFail
               PROVE  Spec /\ []NoErrorDropped /\ []FunctionsOnce => []LabelsAgree
    OBVIOUS
  <1> DEFINE I == TypeInv /\ WalkInv /\ OperandInv /\ LabelInv /\ PassInv("labels")
  <1>1. Init => I
    <2>1. Facts(Start, 0, "labels")
      BY DEF Facts
    <2> QED
      BY <2>1, TypeInit, WalkInit, OperandInit, LabelInit, PassInit
  <1>2. I /\ NoErrorDropped /\ FunctionsOnce /\ [Next]_vars => I'
    <2> SUFFICES ASSUME I, NoErrorDropped, FunctionsOnce, [Next]_vars PROVE I'
      OBVIOUS
    <2>1. TypeInv' /\ WalkInv' /\ OperandInv' /\ LabelInv'
      BY TypeStep, WalkStep, OperandStep, LabelStep1
    <2>2. PassInv("labels")'
      BY LabelsStep, Unmoved
    <2> QED
      BY <2>1, <2>2
  <1>3. I => LabelsAgree
    BY LabelsKnown
  <1> HIDE DEF I
  <1> QED
    BY <1>1, <1>2, <1>3, PTL DEF Spec

-----------------------------------------------------------------------------
(* Variables: what get_var_code finds at the end of the code.              *)

LEMMA LookUpOn ==
    ASSUME TypeInv, LookUpInv, Next, NEW L, NEW k, Expands(L, k), ~(get_var_code /\ Undeclared)
    PROVE  LookUpInv'
  <1> DEFINE p == Len(L)
             n == Len(todo)
  <1>1. status = "running" /\ todo # << >> /\ todo' = L \o Tail(todo) /\ ~start_new_pass
    BY DEF Expands, start_new_pass, At_
  <1>2. /\ p \in Nat /\ n \in Nat \ {0} /\ Len(todo') = p + n - 1 /\ Head(todo) = todo[1]
        /\ \A i \in 1 .. p : i \in 1 .. Len(todo') /\ todo'[i] = L[i]
        /\ \A i \in 2 .. n : p + i - 1 \in 1 .. Len(todo') /\ todo'[p + i - 1] = todo[i]
        /\ \A i \in 1 .. Len(todo') : i \in 1 .. p \/ \E j \in 2 .. n : i = p + j - 1
    BY Places
  <1>3. \A i \in 1 .. p : L[i].do = "get_var_code" => i - 1 \in 1 .. p /\ Waits(L[i - 1])
    BY DEF Expands, Makes, GoodList
  <1>4. \A i \in 2 .. n : todo[i].do = "get_var_code" => Waits(todo[i - 1])
    BY <1>1 DEF LookUpInv
  <1>5. 2 \in 2 .. n /\ todo[2].do = "get_var_code" => emit_instruction /\ ~Filled(Head(todo).ins)
    <2> SUFFICES ASSUME 2 \in 2 .. n, todo[2].do = "get_var_code"
                 PROVE  emit_instruction /\ ~Filled(Head(todo).ins)
      OBVIOUS
    <2>1. Waits(todo[2 - 1]) /\ 2 - 1 = 1
      BY <1>4
    <2>2. At_("emit") /\ ~Filled(Head(todo).ins)
      BY <1>1, <1>2, <2>1 DEF Waits, At_
    <2> QED
      BY <2>2, EmitDrops
  <1>6. emit_instruction => p = 0
    <2>1. ASSUME emit_instruction PROVE p = 0
      <3>1. todo' = << >> \o Tail(todo)
        BY <2>1 DEF emit_instruction, Continue
      <3>2. Tail(todo) \in Seq(Tasks) /\ Len(Tail(todo)) = n - 1
        BY <1>1, HeadTask
      <3>3. Len(todo') = n - 1
        BY <3>1, <3>2
      <3> HIDE DEF p, n
      <3> QED
        BY <1>2, <3>3
    <2> QED
      BY <2>1
  <1>7. ASSUME NEW i \in 2 .. Len(todo'), todo'[i].do = "get_var_code"
        PROVE  Waits(todo'[i - 1])
    <2>1. CASE i \in 1 .. p
      <3>1. i - 1 \in 1 .. p /\ Waits(L[i - 1])
        BY <1>2, <1>3, <1>7, <2>1
      <3> QED
        BY <1>2, <3>1
    <2>2. ASSUME NEW j \in 2 .. n, i = p + j - 1 PROVE Waits(todo'[i - 1])
      <3>1. todo[j].do = "get_var_code" /\ Waits(todo[j - 1])
        BY <1>2, <1>4, <1>7, <2>2
      <3>2. j # 2
        <4>1. j = 2 => p = 0 /\ i = 1
          BY <1>2, <1>5, <1>6, <2>2, <3>1
        <4> QED
          BY <4>1
      <3>3. j - 1 \in 2 .. n /\ p + (j - 1) - 1 = i - 1
        BY <1>2, <2>2, <3>2
      <3>4. todo'[i - 1] = todo[j - 1]
        BY <1>2, <3>3
      <3> QED
        BY <3>1, <3>4
    <2> QED
      BY <1>2, <2>1, <2>2
  <1>8. ASSUME At_("get_var_code")', pass_index' = PASS_INDEX_TO_WRITE
        PROVE  Len(ir_code') # 0 /\ ir_code'[Len(ir_code')].type \in {"PUSH", "POP"}
    <2>1. pass_index = PASS_INDEX_TO_WRITE
      BY <1>1, <1>8, PassIndexStep
    <2>2. todo' \in Seq(Tasks) /\ todo' # << >> /\ Head(todo').do = "get_var_code"
      BY <1>8, TypeStep DEF At_, TypeInv, TypeOK
    <2>3. Head(todo') = todo'[1] /\ 1 \in 1 .. Len(todo')
      BY <2>2
    <2>4. ~(1 \in 1 .. p)
      <3>1. 1 \in 1 .. p => ~(1 - 1 \in 1 .. p)
        BY <1>2
      <3> QED
        BY <1>2, <1>3, <2>2, <2>3, <3>1
    <2>5. PICK j \in 2 .. n : 1 = p + j - 1
      BY <1>2, <2>3, <2>4
    <2>6. j = 2 /\ todo[2].do = "get_var_code"
      BY <1>2, <2>2, <2>3, <2>5
    <2>7. emit_instruction /\ ~Filled(Head(todo).ins)
      BY <1>5, <2>6
    <2>8. ir_code' = Append(ir_code, Head(todo).ins)
      BY <2>1, <2>7 DEF emit_instruction, code_insert, PASS_INDEX_TO_WRITE, PASS_INDEX_TO_CALC_OFFSETS
    <2>9. ir_code \in Seq(Instr) /\ Head(todo).ins \in Instr
      BY <1>1, <2>7, HeadTask, TaskFields DEF emit_instruction, At_, TypeInv, TypeOK
    <2>10. Len(ir_code') # 0 /\ ir_code'[Len(ir_code')] = Head(todo).ins
      BY <2>8, <2>9
    <2> QED
      BY <2>7, <2>10 DEF Filled
  <1> QED
    BY <1>7, <1>8 DEF LookUpInv

LEMMA LookUpKept ==
    ASSUME TypeInv, WalkInv, LookUpInv, NoErrorDropped, [Next]_vars PROVE LookUpInv'
  <1>1. CASE UNCHANGED vars
    BY <1>1 DEF vars, scopes, transl, output, LookUpInv, At_
  <1>2. CASE start_new_pass
    <2> SUFFICES ASSUME status' = "running" PROVE LookUpInv'
      BY DEF LookUpInv
    <2>1. todo' = PassTasks /\ tree \in Trees
      BY <1>2, NewPass DEF TypeInv, TypeOK
    <2>2. /\ Len(PassTasks) = 5 /\ \A i \in 1 .. 4 : PassTasks[i] \in Inert
          /\ PassTasks[5] = Mark("start_new_pass") /\ PassTasks \in Seq(Tasks)
      BY <2>1, PassList
    <2>3. /\ PassTasks[5].do # "get_var_code"
          /\ \A i \in 1 .. 4 : PassTasks[i].do # "get_var_code"
      BY <2>2 DEF Inert, Mark
    <2> HIDE DEF PassTasks
    <2>4. \A i \in 1 .. 5 : todo'[i].do # "get_var_code"
      <3>1. \A i \in 1 .. 5 : i \in 1 .. 4 \/ i = 5
        OBVIOUS
      <3> QED
        BY <2>1, <2>3, <3>1
    <2>5. Len(todo') = 5 /\ Head(todo') = todo'[1]
      BY <2>1, <2>2
    <2>6. ~At_("get_var_code")'
      BY <2>4, <2>5 DEF At_
    <2>7. \A i \in 2 .. Len(todo') : i \in 1 .. 5
      BY <2>5
    <2> QED
      BY <2>4, <2>6, <2>7 DEF LookUpInv
  <1>3. CASE Next /\ ~start_new_pass
    <2>1. CASE get_var_code /\ Undeclared
      BY <2>1, Fails DEF LookUpInv
    <2>2. CASE Aborts
      BY <2>2 DEF Aborts, LookUpInv
    <2>3. ASSUME NEW L, NEW k, Expands(L, k), ~(get_var_code /\ Undeclared) PROVE LookUpInv'
      BY <1>3, <2>3, LookUpOn
    <2> QED
      BY <1>1, <1>3, <2>1, <2>2, <2>3, Steps
  <1> QED
    BY <1>1, <1>2, <1>3

LEMMA LookUpInit == ASSUME Init PROVE LookUpInv
  <1>1. /\ Len(PassTasks) = 5 /\ \A i \in 1 .. 4 : PassTasks[i] \in Inert
        /\ PassTasks[5] = Mark("start_new_pass") /\ todo = PassTasks
    BY PassList DEF Init
  <1>2. /\ PassTasks[5].do # "get_var_code"
        /\ \A i \in 1 .. 4 : PassTasks[i].do # "get_var_code"
    BY <1>1 DEF Inert, Mark
  <1>3. pass_index # PASS_INDEX_TO_WRITE
    BY DEF Init, PASS_INDEX_TO_WRITE
  <1> HIDE DEF PassTasks
  <1>4. Len(todo) = 5
    BY <1>1
  <1>5. \A i \in 2 .. Len(todo) : i \in 1 .. 4 \/ i = 5
    BY <1>4
  <1> QED
    BY <1>1, <1>2, <1>3, <1>5 DEF LookUpInv

-----------------------------------------------------------------------------
(* Jumps and calls: none leads out of the code.                            *)

LEMMA TransfersOn ==
    ASSUME TypeInv, OperandInv, LookUpInv, CallsDefined, OnPath, pass_index = PASS_INDEX_TO_WRITE,
           NEW z, NEW b, NEW c, Facts(z, b, "transfers"), z.labels \in Nat,
           cur_label_index' <= z.labels
    PROVE  Facts(z, c, "transfers")'
  <1>1. Next /\ status = "running" /\ ~start_new_pass /\ ~(get_var_code /\ Undeclared)
    BY DEF OnPath
  <1>2. /\ \A l \in 0 .. z.labels - 1 : Within(z, Target(l))
        /\ \A i \in 1 .. Len(func_label_transl.mappings) :
              Within(z, func_label_transl.mappings[i].new_addr)
        /\ \A i \in 1 .. Len(todo) :
              todo[i].do = "emit" /\ IsTransfer(todo[i].ins) => Within(z, todo[i].ins.imm_arg)
        /\ \A i \in 1 .. Len(ir_code) :
              IsTransfer(ir_code[i]) => Within(z, ir_code[i].imm_arg)
    BY DEF Facts
  <1>3. UNCHANGED transl /\ pass_index' = pass_index
    <2>1. pass_index # PASS_INDEX_TO_CALC_OFFSETS
      BY DEF PASS_INDEX_TO_WRITE, PASS_INDEX_TO_CALC_OFFSETS
    <2>2. register_numeric_label \/ register_function_label => UNCHANGED transl
      BY <2>1 DEF register_numeric_label, register_function_label, transl
    <2> QED
      BY <1>1, <2>2, TranslStep, PassIndexStep DEF vars
  <1>4. /\ \A l \in 0 .. z.labels - 1 : Within(z, Target(l)')
        /\ \A i \in 1 .. Len(func_label_transl'.mappings) :
              Within(z, func_label_transl'.mappings[i].new_addr)
    BY <1>2, <1>3 DEF transl, Target
  <1>5. \A i \in 1 .. Len(todo') :
           todo'[i].do = "emit" /\ IsTransfer(todo'[i].ins) => Within(z, todo'[i].ins.imm_arg)
    <2>1. CASE UNCHANGED vars
      BY <1>2, <2>1 DEF vars
    <2>2. ASSUME NEW L, NEW k, Expands(L, k), NEW i \in 1 .. Len(todo'), todo'[i].do = "emit",
                 IsTransfer(todo'[i].ins)
          PROVE  Within(z, todo'[i].ins.imm_arg)
      <3>1. ASSUME NEW v \in LeadsTo PROVE Within(z, v)
        <4>1. ASSUME NEW l \in cur_label_index .. cur_label_index' - 1, v = Target(l)
              PROVE  Within(z, v)
          <5>1. cur_label_index \in Nat /\ cur_label_index' \in Nat
            BY <2>2 DEF Expands, TypeInv, TypeOK
          <5>2. \A p, q, r \in Nat : q <= r => \A m \in p .. q - 1 : m \in 0 .. r - 1
            OBVIOUS
          <5>3. l \in 0 .. z.labels - 1
            BY <5>1, <5>2
          <5> QED
            BY <1>2, <4>1, <5>3
        <4>2. ASSUME Head(todo).do = "call", v = addr_transl_translate(func_label_transl, Node.data)
              PROVE  Within(z, v)
          <5>1. v # ERROR
            BY <1>1, <2>2, <4>2 DEF CallsDefined, At_, Expands
          <5>2. func_label_transl \in Translators
            BY DEF TypeInv, TypeOK
          <5>3. \E m \in 1 .. Len(func_label_transl.mappings) :
                   v = func_label_transl.mappings[m].new_addr
            BY <4>2, <5>1, <5>2, TranslateFinds
          <5> QED
            BY <1>2, <5>3
        <4> QED
          BY <4>1, <4>2 DEF LeadsTo
      <3>2. \A m \in 1 .. Len(L) : L[m].do = "emit" /\ IsTransfer(L[m].ins) => L[m].ins.imm_arg \in LeadsTo
        BY <2>2 DEF Expands, Makes, GoodList
      <3>3. CASE i \in 1 .. Len(L)
        <4>1. todo'[i] = L[i]
          BY <2>2, <3>3, Places
        <4> QED
          BY <2>2, <3>1, <3>2, <3>3, <4>1
      <3>4. ASSUME NEW j \in 2 .. Len(todo), i = Len(L) + j - 1
            PROVE  Within(z, todo'[i].ins.imm_arg)
        <4>1. todo'[i] = todo[j] /\ j \in 1 .. Len(todo)
          BY <2>2, <3>4, Places
        <4>2. todo[j].do = "emit" /\ IsTransfer(todo[j].ins)
          BY <2>2, <4>1
        <4> QED
          BY <1>2, <4>1, <4>2
      <3> QED
        BY <2>2, <3>3, <3>4, Places
    <2> QED
      BY <1>1, <2>1, <2>2, Steps DEF OnPath, Aborts
  <1>6. \A i \in 1 .. Len(ir_code') :
           IsTransfer(ir_code'[i]) => Within(z, ir_code'[i].imm_arg)
    <2>1. CASE emit_instruction
      <3>1. ir_code' = Append(ir_code, Head(todo).ins)
        BY <2>1 DEF emit_instruction, code_insert, PASS_INDEX_TO_WRITE, PASS_INDEX_TO_CALC_OFFSETS
      <3>2. todo # << >> /\ Head(todo).do = "emit"
        BY <2>1 DEF emit_instruction, At_
      <3>3. ir_code \in Seq(Instr) /\ Head(todo).ins \in Instr /\ Head(todo) = todo[1] /\ 1 \in 1 .. Len(todo)
        BY <3>2, HeadTask, TaskFields DEF TypeInv, TypeOK
      <3>4. /\ \A i \in 1 .. Len(ir_code) : ir_code'[i] = ir_code[i]
            /\ ir_code'[Len(ir_code) + 1] = Head(todo).ins
            /\ \A i \in 1 .. Len(ir_code') : i \in 1 .. Len(ir_code) \/ i = Len(ir_code) + 1
        BY <3>1, <3>3
      <3>5. IsTransfer(Head(todo).ins) => Within(z, Head(todo).ins.imm_arg)
        BY <1>2, <3>2, <3>3
      <3> QED
        BY <1>2, <3>4, <3>5
    <2>2. CASE get_var_code
      <3>1. /\ Len(ir_code') = Len(ir_code)
            /\ \A i \in 1 .. Len(ir_code) :
                  \/ ir_code'[i] = ir_code[i]
                  \/ i = Len(ir_code) /\ ir_code'[i].type = ir_code[i].type
        BY <1>1, <2>2, LookUpCode
      <3>2. ir_code[Len(ir_code)].type \in {"PUSH", "POP"}
        BY <1>1, <2>2 DEF LookUpInv, get_var_code
      <3>3. \A i \in 1 .. Len(ir_code') : ir_code'[i] = ir_code[i] \/ ~IsTransfer(ir_code'[i])
        BY <3>1, <3>2 DEF IsTransfer, Jumps
      <3> QED
        BY <1>2, <3>1, <3>3
    <2>3. CASE UNCHANGED ir_code
      BY <1>2, <2>3
    <2> QED
      BY <1>1, <2>1, <2>2, <2>3, CodeStep
  <1> QED
    BY <1>4, <1>5, <1>6 DEF Facts

\* When the first pass is over, every label is registered, before its end.
LEMMA TransfersBegin ==
    ASSUME TypeInv, WalkInv, OperandInv, LabelInv, start_new_pass, status' = "running",
           NEW a, Match(a, 0), NEW b
    PROVE  Facts(a, b, "transfers")'
  <1>1. /\ pass_index = PASS_INDEX_TO_CALC_OFFSETS /\ todo' = PassTasks
        /\ UNCHANGED << transl, ir_code >>
    BY NewPass
  <1>2. status = "running" /\ todo # << >> /\ At_("start_new_pass") /\ Len(todo) = 1
    BY PassEnds DEF start_new_pass, At_
  <1>3. a.labels = cur_label_index /\ a.count = current_instruction_index
    BY <1>1 DEF Match, Emitted
  <1>4. Head(todo) = todo[1] /\ Head(todo).do = "start_new_pass" /\ \A i \in 1 .. Len(todo) : i = 1
    BY <1>2, HeadTask DEF At_
  <1>5. \A i \in 1 .. Len(todo) : todo[i].do # "numeric_label"
    BY <1>4
  <1>6. \A l \in 0 .. cur_label_index - 1 : HasOld(indexed_label_transl, l)
    BY <1>1, <1>2, <1>5 DEF LabelInv
  <1>7. \A t \in {indexed_label_transl, func_label_transl} :
           \A i \in 1 .. Len(t.mappings) :
              t.mappings[i].new_addr \in 0 .. current_instruction_index - 1
    BY <1>1, <1>2 DEF LabelInv
  <1>8. indexed_label_transl \in Translators
    BY DEF TypeInv, TypeOK
  <1>9. \A l \in 0 .. a.labels - 1 : Within(a, Target(l)')
    <2> TAKE l \in 0 .. a.labels - 1
    <2>1. HasOld(indexed_label_transl, l)
      BY <1>3, <1>6
    <2>2. PICK i \in 1 .. Len(indexed_label_transl.mappings) :
             addr_transl_translate(indexed_label_transl, l) = indexed_label_transl.mappings[i].new_addr
      BY <1>8, <2>1, TranslateFinds
    <2>3. Target(l) \in 0 .. current_instruction_index - 1
      BY <1>7, <2>2 DEF Target
    <2>4. Target(l)' = Target(l)
      BY <1>1 DEF transl, Target
    <2> QED
      BY <1>3, <2>3, <2>4 DEF Within
  <1>10. \A i \in 1 .. Len(func_label_transl'.mappings) :
            Within(a, func_label_transl'.mappings[i].new_addr)
    BY <1>1, <1>3, <1>7 DEF transl, Within
  <1>11. \A i \in 1 .. Len(todo') : ~(todo'[i].do = "emit" /\ IsTransfer(todo'[i].ins))
    <2>1. /\ Len(PassTasks) = 5 /\ \A i \in 1 .. 4 : PassTasks[i] \in Inert
          /\ PassTasks[5] = Mark("start_new_pass")
      BY PassList DEF TypeInv, TypeOK
    <2>2. /\ PassTasks[5].do # "emit"
          /\ \A i \in 1 .. 4 : ~(PassTasks[i].do = "emit" /\ IsTransfer(PassTasks[i].ins))
      BY <2>1 DEF Inert, Mark
    <2> HIDE DEF PassTasks
    <2>3. \A i \in 1 .. 5 : i \in 1 .. 4 \/ i = 5
      OBVIOUS
    <2>4. \A i \in 1 .. 5 : ~(PassTasks[i].do = "emit" /\ IsTransfer(PassTasks[i].ins))
      BY <2>2, <2>3
    <2>5. Len(todo') = 5
      BY <1>1, <2>1
    <2> QED
      BY <1>1, <2>4, <2>5
  <1>12. Len(ir_code') = 0
    <2>1. ir_code' = << >>
      BY <1>1 DEF OperandInv
    <2> QED
      BY <2>1
  <1> QED
    BY <1>9, <1>10, <1>11, <1>12 DEF Facts

LEMMA TransfersStep ==
    ASSUME TypeInv, WalkInv, OperandInv, LabelInv, LookUpInv, NoErrorDropped, CallsDefined, Next,
           PassInv("transfers")
    PROVE  PassInv("transfers")'
  <1>1. \A a : Known(a, "transfers")'
    BY DEF Known
  <1>2. ASSUME NEW a, NEW b, NEW y, NEW z,
               OnPath, Match(a, b), Match(Succ(a), b)', Facts(z, b, "transfers"),
               pass_index = PASS_INDEX_TO_WRITE =>
                  /\ y = z /\ Known(a, "transfers")
                  /\ z.labels \in Nat /\ Succ(a).labels <= z.labels
        PROVE  Facts(y, b, "transfers")'
    <2>1. CASE pass_index = PASS_INDEX_TO_WRITE
      <3>1. Succ(a).labels = cur_label_index'
        BY <1>2 DEF Match
      <3> QED
        BY <1>2, <2>1, <3>1, TransfersOn
    <2>2. CASE pass_index # PASS_INDEX_TO_WRITE
      <3>1. pass_index' # PASS_INDEX_TO_WRITE
        BY <1>2, <2>2, PassIndexStep DEF OnPath
      <3> QED
        BY <3>1 DEF Facts
    <2> QED
      BY <2>1, <2>2
  <1>3. ASSUME NEW a, start_new_pass, status' = "running", Match(a, 0)
        PROVE  Facts(a, a.globals, "transfers")'
    BY <1>3, TransfersBegin
  <1> QED
    BY <1>1, <1>2, <1>3, PassStep

\* The second pass has come to the end of the path.
LEMMA TransfersEnd ==
    ASSUME TypeInv, WalkInv, PassInv("transfers"), [Next]_vars, TransfersInside
    PROVE  TransfersInside'
  <1> SUFFICES ASSUME status' = "OK" PROVE TransfersInside'
    BY DEF TransfersInside
  <1>1. CASE status = "OK"
    <2>1. ir_code' = ir_code
      <3>1. CASE UNCHANGED vars
        BY <3>1 DEF vars, output
      <3>2. CASE Next
        BY <1>1, <3>1, <3>2, Steps DEF Aborts, output, start_new_pass, get_var_code, At_, Expands
      <3> QED
        BY <3>1, <3>2
    <2> QED
      BY <1>1, <2>1 DEF TransfersInside
  <1>2. CASE status # "OK"
    <2>1. start_new_pass
      <3>1. ~(UNCHANGED vars)
        BY <1>2 DEF vars
      <3>2. get_var_code /\ Undeclared => status' \in {status, "ERROR"}
        BY DEF get_var_code, Undeclared, Unwind
      <3> QED
        BY <1>2, <3>1, <3>2, Steps DEF Aborts, Expands
    <2>2. /\ status = "running" /\ todo # << >> /\ Head(todo).do = "start_new_pass"
          /\ ir_code' = ir_code /\ pass_index = PASS_INDEX_TO_WRITE
      BY <2>1 DEF start_new_pass, At_, TypeInv, TypeOK, TOTAL_PASS_COUNT, PASS_INDEX_TO_WRITE,
                  PASS_INDEX_TO_CALC_OFFSETS
    <2>3. PICK tr, n, s, b :
             /\ Path(tr, n) /\ s \in 1 .. n /\ Match(tr[s], b) /\ Facts(tr[n], b, "transfers")
      BY <2>2 DEF PassInv
    <2>4. s = n
      <3>1. Head(tr[s].todo).do = "start_new_pass"
        BY <2>2, <2>3, HeadMatch
      <3>2. ~(s \in 1 .. n - 1) /\ n \in Nat
        BY <2>3, <3>1 DEF Path
      <3> QED
        BY <2>3, <3>2
    <2>5. tr[n].count = Len(ir_code)
      BY <2>2, <2>3, <2>4 DEF Match, Emitted, PASS_INDEX_TO_WRITE, PASS_INDEX_TO_CALC_OFFSETS
    <2>6. \A i \in 1 .. Len(ir_code) : IsTransfer(ir_code[i]) => Within(tr[n], ir_code[i].imm_arg)
      BY <2>2, <2>3 DEF Facts
    <2>7. DOMAIN ir_code = 1 .. Len(ir_code)
      BY SeqElement DEF TypeInv, TypeOK
    <2> QED
      BY <2>2, <2>5, <2>6, <2>7 DEF TransfersInside, Within, Inside
  <1> QED
    BY <1>1, <1>2

\* No jump or call leads out of the code, for every set of trees: whatever a
\* program nests in what, every label that a handler takes is registered before
\* the HALT of the first pass, also the one behind the last statement, as long as
\* realloc succeeds and the functions that are called exist.
THEOREM TransfersStayInside ==
    ~AllocMayFail /\ Spec /\ []NoErrorDropped /\ []CallsDefined => []TransfersInside
  <1> SUFFICES ASSUME ~AllocMayFail
               PROVE  Spec /\ []NoErrorDropped /\ []CallsDefined => []TransfersInside
    OBVIOUS
  <1> DEFINE I == /\ TypeInv /\ WalkInv /\ OperandInv /\ LabelInv /\ LookUpInv
                  /\ PassInv("transfers") /\ TransfersInside
  <1>1. Init => I
    <2> SUFFICES ASSUME Init PROVE I
      OBVIOUS
    <2>1. Facts(Start, 0, "transfers")
      BY DEF Facts, Init, PASS_INDEX_TO_WRITE, PASS_INDEX_TO_CALC_OFFSETS
    <2>2. TransfersInside
      BY DEF Init, TransfersInside
    <2> QED
      BY <2>1, <2>2, TypeInit, WalkInit, OperandInit, LabelInit, LookUpInit, PassInit
  <1>2. I /\ NoErrorDropped /\ CallsDefined /\ [Next]_vars => I'
    <2> SUFFICES ASSUME I, NoErrorDropped, CallsDefined, [Next]_vars PROVE I'
      OBVIOUS
    <2>1. TypeInv' /\ WalkInv' /\ OperandInv' /\ LabelInv' /\ LookUpInv'
      BY TypeStep, WalkStep, OperandStep, LabelStep1, LookUpKept
    <2>2. PassInv("transfers")' /\ TransfersInside'
      BY TransfersStep, TransfersEnd, Unmoved
    <2> QED
      BY <2>1, <2>2
  <1>3. I => TransfersInside
    OBVIOUS
  <1> HIDE DEF I
  <1> QED
    BY <1>1, <1>2, <1>3, PTL DEF Spec
=============================================================================
