---------------------------- MODULE AstConverter ----------------------------
(***************************************************************************)
(* The front half of the compiler (src/src/ir/ast_converter.cpp and        *)
(* ast_converter_generators.cpp): from_ast walks the AST twice.  The first *)
(* pass counts instructions and registers where labels and functions are;  *)
(* the second emits the instructions, with the jumps that the first made   *)
(* known.                                                                  *)
(*                                                                         *)
(* The recursion of subtree_convert is a work list, `todo`: a handler      *)
(* replaces its task by the calls it makes, in order.  UNWRAP_ERROR leaves *)
(* every handler up to the one that ignores the result, which has left a   *)
(* "catch" on the list; without one from_ast returns the error.            *)
(***************************************************************************)
EXTENDS Ast, Ir, AddrTransl

CONSTANTS Nodes,    \* the AST nodes
          Trees     \* the head nodes of the trees to compile

\* What the front end and load_tree produce: an assignment has its variable, and
\* an IF has its ELSE.
ASSUME NodesAssumption ==
    /\ nullptr \notin Nodes
    /\ \A n \in Nodes :
         /\ n.type \in NodeTypes
         /\ n.data \in (IF n.type = "OP" THEN OpNames ELSE Int)
         /\ n.left = nullptr \/ n.left \in Nodes
         /\ n.right = nullptr \/ n.right \in Nodes
         /\ n.type = "OP" /\ n.data = "ASSIG" => n.left \in Nodes /\ n.left.type = "VAR"
         /\ n.type = "IF" => n.right \in Nodes /\ n.right.type = "ELSE"
ASSUME TreesAssumption == Trees \subseteq Nodes

PASS_INDEX_TO_CALC_OFFSETS == 0
PASS_INDEX_TO_WRITE        == 1
ThreePasses                == 3
TOTAL_PASS_COUNT           == 2

REG_RAX == 0
REG_RBX == 1
REG_RDX == 3

VARIABLES
    tree,                                \* the argument; it never changes
    pass_index, cur_label_index, current_instruction_index,
    frame_size, global_frame_size_store, in_func,
    global_vars, local_vars,             \* name_indexes[0 .. size - 1]
    indexed_label_transl, func_label_transl,
    ir_code,
    args_counters,                       \* args_counter of the calls in progress
    todo,
    status                               \* "running", "OK", "ERROR", "abort"

transl == << indexed_label_transl, func_label_transl >>
scopes == << frame_size, global_frame_size_store, in_func, global_vars, local_vars >>
output == << current_instruction_index, ir_code >>
vars   == << tree, pass_index, cur_label_index, scopes, transl, output, args_counters,
             todo, status >>
-----------------------------------------------------------------------------
(* Tasks.                                                                  *)

MaybeNodes == Nodes \cup {nullptr}
Tasks == [do : {"subtree_convert"}, node : MaybeNodes, result_used : BOOLEAN]
           \cup [do : {"if", "emit_assig", "call_args", "call", "def_args"}, node : MaybeNodes]
           \cup [do : {"emit"}, ins : Instr]
           \cup [do : {"numeric_label", "function_label", "get_var_code"}, num : Int]
           \cup [do : {"push_true_false"}, jmp_type : Jumps]
           \cup [do : {"operands_done", "catch", "leave_func", "start_new_pass"}]

Convert(n, used)  == [do |-> "subtree_convert", node |-> n, result_used |-> used]
Rest(handler, n)  == [do |-> handler, node |-> n]
Emit(i)           == [do |-> "emit", ins |-> i]
Label(l)          == [do |-> "numeric_label", num |-> l]
FunctionLabel(f)  == [do |-> "function_label", num |-> f]
GetVarCode(v)     == [do |-> "get_var_code", num |-> v]
PushTrueFalse(j)  == [do |-> "push_true_false", jmp_type |-> j]
Mark(m)           == [do |-> m]

At_(handler) == status = "running" /\ todo # << >> /\ Head(todo).do = handler
\* The current task is replaced by others.
Continue(tasks) == todo' = tasks \o Tail(todo)

\* UNWRAP_ERROR, up to the caller that ignores the result.
Unwind ==
    LET catches == {i \in DOMAIN todo : todo[i].do = "catch"}
    IN  IF catches = {} THEN todo' = << >> /\ status' = "ERROR"
        ELSE /\ todo' = SubSeq(todo, CHOOSE i \in catches : \A j \in catches : i <= j, Len(todo))
             /\ UNCHANGED status

NoFinalHalt ==
    << Emit(WithImm("PUSH", 0)), Emit(WithReg("POP", REG_RDX)), Convert(tree, FALSE),
       Mark("start_new_pass") >>
\* One pass of from_ast: emit_code_begin, the tree, emit_code_end.
PassTasks ==
    << Emit(WithImm("PUSH", 0)), Emit(WithReg("POP", REG_RDX)), Convert(tree, FALSE),
       Emit(Plain("HALT")), Mark("start_new_pass") >>

\* converter_new.
Init ==
    /\ tree \in Trees
    /\ pass_index = 0 /\ cur_label_index = 0 /\ current_instruction_index = 0
    /\ frame_size = 0 /\ global_frame_size_store = 0 /\ in_func = FALSE
    /\ global_vars = << >> /\ local_vars = << >>
    /\ indexed_label_transl = addr_transl_new /\ func_label_transl = addr_transl_new
    /\ ir_code = code_new /\ args_counters = << >>
    /\ todo = PassTasks /\ status = "running"
-----------------------------------------------------------------------------
(* ast_converter.cpp                                                       *)

emit_instruction ==
    /\ At_("emit") /\ Continue(<< >>)
    /\ IF pass_index = PASS_INDEX_TO_CALC_OFFSETS
       THEN current_instruction_index' = current_instruction_index + 1 /\ UNCHANGED ir_code
       ELSE ir_code' = code_insert(ir_code, Head(todo).ins) /\ UNCHANGED current_instruction_index
    /\ UNCHANGED << tree, pass_index, cur_label_index, scopes, transl, args_counters, status >>

\* Nobody looks at the result of the insertion.
register_numeric_label ==
    /\ At_("numeric_label") /\ Continue(<< >>)
    /\ IF pass_index = PASS_INDEX_TO_CALC_OFFSETS
       THEN \E o \in addr_transl_insert(indexed_label_transl, Head(todo).num,
                                        current_instruction_index) : indexed_label_transl' = o.t
       ELSE UNCHANGED indexed_label_transl
    /\ UNCHANGED << tree, pass_index, cur_label_index, scopes, func_label_transl, output,
                    args_counters, status >>

register_function_label ==
    /\ At_("function_label") /\ Continue(<< >>)
    /\ IF pass_index = PASS_INDEX_TO_CALC_OFFSETS
       THEN \E o \in addr_transl_insert(func_label_transl, Head(todo).num,
                                        current_instruction_index) : func_label_transl' = o.t
       ELSE UNCHANGED func_label_transl
    /\ UNCHANGED << tree, pass_index, cur_label_index, scopes, indexed_label_transl, output,
                    args_counters, status >>

\* GET_LABEL for the next n labels, and the instruction a label stands for, as
\* far as it is known.
GetLabels(n) == cur_label_index' = cur_label_index + n
Target(l)    == addr_transl_translate(indexed_label_transl, l)

LabelsNotReset ==
    /\ At_("start_new_pass")
    /\ IF pass_index + 1 < TOTAL_PASS_COUNT
       THEN /\ pass_index' = pass_index + 1 /\ current_instruction_index' = 0
            /\ frame_size' = 0 /\ global_frame_size_store' = 0
            /\ todo' = PassTasks /\ UNCHANGED status
       ELSE /\ todo' = << >> /\ status' = "OK"
            /\ UNCHANGED << pass_index, current_instruction_index, frame_size,
                            global_frame_size_store >>
    /\ UNCHANGED << tree, cur_label_index, in_func, global_vars, local_vars, transl, ir_code,
                    args_counters >>
\* The variables that were registered are not forgotten between the passes.
start_new_pass ==
    /\ At_("start_new_pass")
    /\ IF pass_index + 1 < TOTAL_PASS_COUNT
       THEN /\ pass_index' = pass_index + 1
            /\ cur_label_index' = 0 /\ current_instruction_index' = 0
            /\ frame_size' = 0 /\ global_frame_size_store' = 0
            /\ todo' = PassTasks /\ UNCHANGED status
       ELSE /\ todo' = << >> /\ status' = "OK"
            /\ UNCHANGED << pass_index, cur_label_index, current_instruction_index, frame_size,
                            global_frame_size_store >>
    /\ UNCHANGED << tree, in_func, global_vars, local_vars, transl, ir_code, args_counters >>
-----------------------------------------------------------------------------
(* ast_converter_generators.cpp: variables.                                *)

register_var(v) ==
    /\ IF in_func THEN local_vars' = Append(local_vars, v) /\ UNCHANGED global_vars
                  ELSE global_vars' = Append(global_vars, v) /\ UNCHANGED local_vars
    /\ frame_size' = frame_size + 1
    /\ UNCHANGED << in_func, global_frame_size_store >>

Slots(names, v) == {i \in DOMAIN names : names[i] = v}
FirstSlot(names, v) == (CHOOSE i \in Slots(names, v) : \A j \in Slots(names, v) : i <= j) - 1

\* update_last_instruction_args, in the second pass: [rdx + slot] or [slot].
Operand(i, v) ==
    IF Slots(local_vars, v) # {} THEN WithMem(i.type, REG_RDX, FirstSlot(local_vars, v))
    ELSE [WithImm(i.type, FirstSlot(global_vars, v)) EXCEPT !.need_mem_arg = TRUE]

UpdateInFirstPass ==
    /\ At_("get_var_code")
    /\ LET v == Head(todo).num
       IN  IF Slots(local_vars, v) \cup Slots(global_vars, v) = {}
           THEN Unwind /\ UNCHANGED ir_code
           ELSE /\ Continue(<< >>) /\ UNCHANGED status
                /\ ir_code' = IF pass_index = PASS_INDEX_TO_CALC_OFFSETS
                              THEN [ir_code EXCEPT ![Len(ir_code)] = Operand(@, v)]
                              ELSE ir_code
    /\ UNCHANGED << tree, pass_index, cur_label_index, scopes, transl,
                    current_instruction_index, args_counters >>
LookUpInSecondPass ==
    /\ At_("get_var_code")
    /\ LET v == Head(todo).num
       IN  IF pass_index = PASS_INDEX_TO_CALC_OFFSETS
           THEN Continue(<< >>) /\ UNCHANGED << ir_code, status >>
           ELSE IF Slots(local_vars, v) \cup Slots(global_vars, v) = {}
           THEN Unwind /\ UNCHANGED ir_code
           ELSE /\ Continue(<< >>) /\ UNCHANGED status
                /\ ir_code' = [ir_code EXCEPT ![Len(ir_code)] = Operand(@, v)]
    /\ UNCHANGED << tree, pass_index, cur_label_index, scopes, transl,
                    current_instruction_index, args_counters >>
get_var_code ==
    /\ At_("get_var_code")
    /\ LET v == Head(todo).num
       IN  IF Slots(local_vars, v) \cup Slots(global_vars, v) = {}
           THEN Unwind /\ UNCHANGED ir_code
           ELSE /\ Continue(<< >>) /\ UNCHANGED status
                /\ ir_code' = IF pass_index = PASS_INDEX_TO_WRITE
                              THEN [ir_code EXCEPT ![Len(ir_code)] = Operand(@, v)]
                              ELSE ir_code
    /\ UNCHANGED << tree, pass_index, cur_label_index, scopes, transl,
                    current_instruction_index, args_counters >>
-----------------------------------------------------------------------------
(* ast_converter_generators.cpp: subtree_convert and what it calls.        *)

Node == Head(todo).node
\* A node of this type is about to be converted.
AtNode(type) == At_("subtree_convert") /\ Node # nullptr /\ Node.type = type

\* The task makes the control go on with others, and changes nothing else.
GoOn(tasks) ==
    /\ Continue(tasks)
    /\ UNCHANGED << tree, pass_index, cur_label_index, scopes, transl, output, args_counters,
                    status >>

ResultOnTop(n) ==
    CASE n.type = "FICTIOUS" -> << Convert(n.left, FALSE), Convert(n.right, FALSE) >>
      [] n.type = "VAL" -> << Emit(WithImm("PUSH", n.data)) >>
      [] n.type = "VAR" -> << Emit(Plain("PUSH")), GetVarCode(n.data) >>
      [] n.type = "RETURN" ->
            << Convert(n.right, TRUE), Emit(WithReg("POP", REG_RAX)), Emit(WithReg("POP", REG_RBX)),
               Emit(WithReg("PUSH", REG_RBX)), Emit(WithReg("PUSH", REG_RAX)), Emit(Plain("RET")) >>
\* The handlers that only emit instructions and convert children.
SimpleTasks(n) ==
    CASE n.type = "FICTIOUS" -> << Convert(n.left, FALSE), Convert(n.right, FALSE) >>
      [] n.type = "VAL" -> << Emit(WithImm("PUSH", n.data)) >>
      [] n.type = "VAR" -> << Emit(Plain("PUSH")), GetVarCode(n.data) >>
      [] n.type = "RETURN" ->
            << Convert(n.right, TRUE), Emit(WithReg("POP", REG_RAX)), Emit(WithReg("POP", REG_RBX)),
               Emit(WithReg("PUSH", REG_RAX)), Emit(WithReg("PUSH", REG_RBX)), Emit(Plain("RET")) >>

JumpOf(comparator) ==
    CASE comparator = "EQ" -> "JE"  [] comparator = "GT" -> "JA"  [] comparator = "LT"  -> "JB"
      [] comparator = "GE" -> "JAE" [] comparator = "LE" -> "JBE" [] comparator = "NEQ" -> "JNE"

Boolify(n) == << Convert(n, TRUE), Emit(WithImm("PUSH", 0)), PushTrueFalse("JNE") >>
\* The control runs off the end of convert_logical_operands, which has no
\* return at line 490; its result, good or bad, is ignored.
LogicalOperands(n) ==
    Boolify(n.left) \o Boolify(n.right) \o << Mark("operands_done"), Mark("catch") >>

OpTasks(n) ==
    LET op == n.data
        both == << Convert(n.left, TRUE), Convert(n.right, TRUE) >>
        operand == << Convert(n.right, TRUE) >>
    IN  CASE op \in BinaryOps   -> both \o << Emit(Plain(op)) >>
          [] op \in UnaryOps    -> operand \o << Emit(Plain(op)) >>
          [] op \in Comparators -> both \o << PushTrueFalse(JumpOf(op)) >>
          [] op = "INPUT"  -> << Emit(Plain("INP")) >>
          [] op = "OUTPUT" ->
                operand \o << Emit(WithReg("POP", REG_RAX)), Emit(WithReg("PUSH", REG_RAX)),
                              Emit(WithReg("PUSH", REG_RAX)), Emit(Plain("OUT")) >>
          [] op = "ASSIG"  -> operand \o << Rest("emit_assig", n.left) >>
          [] op = "NOT"    -> operand \o << Emit(WithImm("PUSH", 0)), PushTrueFalse("JE") >>
          [] op = "OR"     -> LogicalOperands(n) \o << Emit(Plain("ADD")) >>
          [] op = "AND"    -> LogicalOperands(n) \o << PushTrueFalse("JE") >>

ConvertNull == At_("subtree_convert") /\ Node = nullptr /\ GoOn(<< >>)

ConvertSimple ==
    /\ \E type \in {"FICTIOUS", "VAL", "VAR", "RETURN"} : AtNode(type)
    /\ GoOn(SimpleTasks(Node))

convert_op == AtNode("OP") /\ GoOn(OpTasks(Node))

ConvertVarDef ==
    /\ AtNode("VAR_DEF") /\ Continue(<< >>) /\ register_var(Node.data)
    /\ UNCHANGED << tree, pass_index, cur_label_index, transl, output, args_counters, status >>

\* An ELSE is reached only through its IF.
ConvertElse ==
    /\ AtNode("ELSE") /\ status' = "abort"
    /\ UNCHANGED << tree, pass_index, cur_label_index, scopes, transl, output, args_counters,
                    todo >>

\* The result of get_var_code is dropped by convert_op (line 203).
emit_assig ==
    /\ At_("emit_assig")
    /\ GoOn(<< Emit(Plain("POP")), GetVarCode(Node.data), Mark("catch") >>)

Catch == At_("catch") /\ GoOn(<< >>)

\* Undefined behaviour: the build of CMakeLists.txt stops (-fsanitize=return),
\* one without the sanitizer goes on.
OperandsDone ==
    /\ At_("operands_done")
    /\ \/ Continue(<< >>) /\ UNCHANGED status
       \/ status' = "abort" /\ UNCHANGED todo
    /\ UNCHANGED << tree, pass_index, cur_label_index, scopes, transl, output, args_counters >>

emit_push_true_false ==
    /\ At_("push_true_false")
    /\ LET push_one == cur_label_index
           end      == cur_label_index + 1
       IN  Continue(<< Emit(WithImm(Head(todo).jmp_type, Target(push_one))),
                       Emit(WithImm("PUSH", 0)), Emit(WithImm("JMP", Target(end))),
                       Label(push_one), Emit(WithImm("PUSH", 1)), Label(end) >>)
    /\ GetLabels(2)
    /\ UNCHANGED << tree, pass_index, scopes, transl, output, args_counters, status >>

convert_if ==
    /\ AtNode("IF")
    /\ GoOn(<< Convert(Node.left, TRUE), Emit(WithImm("PUSH", 0)), Rest("if", Node.right) >>)

\* ... after the condition, at its ELSE node.
ConvertBranches ==
    /\ At_("if")
    /\ LET end   == cur_label_index
           else_ == cur_label_index + 1
       IN  IF Node.left # nullptr
           THEN /\ GetLabels(2)
                /\ Continue(<< Emit(WithImm("JE", Target(else_))), Convert(Node.left, TRUE),
                               Emit(WithImm("JMP", Target(end))), Label(else_),
                               Convert(Node.right, TRUE), Label(end) >>)
           ELSE /\ GetLabels(1)
                /\ Continue(<< Emit(WithImm("JE", Target(end))), Convert(Node.right, TRUE),
                               Label(end) >>)
    /\ UNCHANGED << tree, pass_index, scopes, transl, output, args_counters, status >>

ExitLeadsToBegin ==
    /\ AtNode("WHILE")
    /\ LET beg == cur_label_index
           end == cur_label_index + 1
       IN  Continue(<< Label(beg), Convert(Node.left, TRUE), Emit(WithImm("PUSH", 0)),
                       Emit(WithImm("JE", Target(beg))), Convert(Node.right, TRUE),
                       Emit(WithImm("JMP", Target(beg))), Label(end) >>)
    /\ GetLabels(2)
    /\ UNCHANGED << tree, pass_index, scopes, transl, output, args_counters, status >>
convert_while ==
    /\ AtNode("WHILE")
    /\ LET beg == cur_label_index
           end == cur_label_index + 1
       IN  Continue(<< Label(beg), Convert(Node.left, TRUE), Emit(WithImm("PUSH", 0)),
                       Emit(WithImm("JE", Target(end))), Convert(Node.right, TRUE),
                       Emit(WithImm("JMP", Target(beg))), Label(end) >>)
    /\ GetLabels(2)
    /\ UNCHANGED << tree, pass_index, scopes, transl, output, args_counters, status >>
-----------------------------------------------------------------------------
(* ast_converter_generators.cpp: functions.                                *)

convert_func_def ==
    /\ AtNode("FUNC_DEF")
    /\ global_frame_size_store' = frame_size /\ frame_size' = 0 /\ in_func' = TRUE
    /\ GetLabels(1)
    /\ Continue(<< Emit(WithImm("JMP", Target(cur_label_index))), FunctionLabel(Node.data),
                   Rest("def_args", Node.left), Convert(Node.right, TRUE),
                   Label(cur_label_index), Mark("leave_func") >>)
    /\ UNCHANGED << tree, pass_index, global_vars, local_vars, transl, output, args_counters,
                    status >>

convert_func_def_args ==
    /\ At_("def_args")
    /\ \/ /\ Node = nullptr /\ Continue(<< >>) /\ UNCHANGED << scopes, status >>
       \/ /\ Node # nullptr /\ Node.type = "FICTIOUS"
          /\ Continue(<< Rest("def_args", Node.left), Rest("def_args", Node.right) >>)
          /\ UNCHANGED << scopes, status >>
       \/ /\ Node # nullptr /\ Node.type = "VAR"
          /\ Continue(<< >>) /\ register_var(Node.data) /\ UNCHANGED status
       \/ /\ Node # nullptr /\ Node.type \notin {"FICTIOUS", "VAR"}
          /\ status' = "abort" /\ UNCHANGED << scopes, todo >>
    /\ UNCHANGED << tree, pass_index, cur_label_index, transl, output, args_counters >>

FrameNotRestored ==
    /\ At_("leave_func") /\ Continue(<< >>)
    /\ in_func' = FALSE /\ local_vars' = << >>
    /\ UNCHANGED << tree, pass_index, cur_label_index, frame_size, global_frame_size_store,
                    global_vars, transl, output, args_counters, status >>
LeaveFunc ==
    /\ At_("leave_func") /\ Continue(<< >>)
    /\ in_func' = FALSE /\ local_vars' = << >> /\ frame_size' = global_frame_size_store
    /\ UNCHANGED << tree, pass_index, cur_label_index, global_frame_size_store, global_vars,
                    transl, output, args_counters, status >>

\* A result that is not used is popped into rax, at line 130.
ConvertFuncCall ==
    /\ AtNode("FUNC_CALL")
    /\ args_counters' = << 0 >> \o args_counters
    /\ Continue(<< Rest("call_args", Node.right), Rest("call", Node) >>
                  \o (IF Head(todo).result_used THEN << >> ELSE << Emit(WithReg("POP", REG_RAX)) >>))
    /\ UNCHANGED << tree, pass_index, cur_label_index, scopes, transl, output, status >>

\* An argument that cannot be converted counts all the same.
convert_func_call_args ==
    /\ At_("call_args")
    /\ \/ /\ Node = nullptr /\ Continue(<< >>) /\ UNCHANGED args_counters
       \/ /\ Node # nullptr /\ Node.type = "FICTIOUS"
          /\ Continue(<< Rest("call_args", Node.left), Rest("call_args", Node.right) >>)
          /\ UNCHANGED args_counters
       \/ /\ Node # nullptr /\ Node.type # "FICTIOUS"
          /\ Continue(<< Convert(Node, TRUE), Mark("catch") >>)
          /\ args_counters' = [args_counters EXCEPT ![1] = @ + 1]
    /\ UNCHANGED << tree, pass_index, cur_label_index, scopes, transl, output, status >>

\* rdx +- frame_size, in the units of the IR.
MoveFrame(op) == << Emit(WithReg("PUSH", REG_RDX)), Emit(WithImm("PUSH", frame_size)),
                    Emit(Plain(op)), Emit(WithReg("POP", REG_RDX)) >>

FirstArgumentOnTop ==
    /\ At_("call")
    /\ LET n == Head(args_counters)
       IN  Continue(MoveFrame("ADD")
                    \o [i \in 1 .. n |-> Emit(WithMem("POP", REG_RDX, i - 1))]
                    \o << Emit(WithImm("CALL", addr_transl_translate(func_label_transl, Node.data))) >>
                    \o MoveFrame("SUB"))
    /\ args_counters' = Tail(args_counters)
    /\ UNCHANGED << tree, pass_index, cur_label_index, scopes, transl, output, status >>
\* ... after the arguments: they are popped into the frame of the function.
convert_func_call ==
    /\ At_("call")
    /\ LET n == Head(args_counters)
       IN  Continue(MoveFrame("ADD")
                    \o [i \in 1 .. n |-> Emit(WithMem("POP", REG_RDX, n - i))]
                    \o << Emit(WithImm("CALL", addr_transl_translate(func_label_transl, Node.data))) >>
                    \o MoveFrame("SUB"))
    /\ args_counters' = Tail(args_counters)
    /\ UNCHANGED << tree, pass_index, cur_label_index, scopes, transl, output, status >>

Terminated == status # "running" /\ UNCHANGED vars

Next == \/ emit_instruction \/ register_numeric_label \/ register_function_label
        \/ start_new_pass \/ get_var_code
        \/ ConvertNull \/ ConvertSimple \/ convert_op \/ ConvertVarDef \/ ConvertElse
        \/ emit_assig \/ Catch \/ OperandsDone \/ emit_push_true_false
        \/ convert_if \/ ConvertBranches \/ convert_while
        \/ convert_func_def \/ convert_func_def_args \/ LeaveFunc
        \/ ConvertFuncCall \/ convert_func_call_args \/ convert_func_call
        \/ Terminated

Spec == Init /\ [][Next]_vars
-----------------------------------------------------------------------------
TypeOK ==
    /\ tree \in Trees /\ pass_index \in {PASS_INDEX_TO_CALC_OFFSETS, PASS_INDEX_TO_WRITE}
    /\ cur_label_index \in Nat /\ current_instruction_index \in Nat
    /\ frame_size \in Nat /\ global_frame_size_store \in Nat /\ in_func \in BOOLEAN
    /\ global_vars \in Seq(Int) /\ local_vars \in Seq(Int)
    /\ indexed_label_transl \in Translators /\ func_label_transl \in Translators
    /\ ir_code \in Seq(Instr) /\ args_counters \in Seq(Nat)
    /\ todo \in Seq(Tasks)
    /\ status \in {"running", "OK", "ERROR", "abort"}

\* The second pass comes to a label or to a function at the instruction where
\* the first one registered it: the jumps that have been emitted meanwhile lead
\* where the comments of the generators say they do.
LabelsAgree ==
    status = "running" /\ pass_index = PASS_INDEX_TO_WRITE =>
        /\ Head(todo).do = "numeric_label" => Target(Head(todo).num) = Len(ir_code)
        /\ Head(todo).do = "function_label" =>
              addr_transl_translate(func_label_transl, Head(todo).num) = Len(ir_code)

\* No jump or call leads out of the code: every label that a handler takes is
\* registered, even the one behind the last statement.
TransfersInside ==
    status = "OK" =>
        \A i \in DOMAIN ir_code : IsTransfer(ir_code[i]) => Inside(ir_code, ir_code[i].imm_arg)

\* Every variable of the scope that this pass has come past lies below the
\* frame_size that a call would add to rdx: the frame of the function that is
\* called never overlaps a variable its caller has.  The frame of the globals
\* has to come back when a function definition ends, and in the second pass
\* global_vars holds every global of the first one once more.
SlotsBelowFrame ==
    LET own == IF in_func THEN local_vars ELSE global_vars
    IN  /\ frame_size <= Len(own)
        /\ \A j \in (Len(own) - frame_size + 1) .. Len(own) : FirstSlot(own, own[j]) < frame_size

\* The PUSH and POP that are emitted before their variable is looked up all
\* have operands in the end.
OperandsFilled ==
    status = "OK" => \A i \in DOMAIN ir_code :
                        ir_code[i].type \in {"PUSH", "POP"} =>
                            \/ ir_code[i].need_imm_arg \/ ir_code[i].need_reg_arg

\* An undeclared variable is found out in the first pass: from_ast never fails
\* after it has emitted an instruction.
ErrorsEmitNothing == status = "ERROR" => ir_code = << >>
=============================================================================
