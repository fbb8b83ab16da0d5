-------------------------------- MODULE Ast ---------------------------------
(***************************************************************************)
(* The syntax tree that the front end dumps and load_tree reads            *)
(* (src/src/lib/tree.h).  A node is a record [type, data, left, right];    *)
(* `data` names an operation, or is a number: a literal, or the name of a  *)
(* variable or of a function.                                              *)
(***************************************************************************)
EXTENDS Integers, Sequences

CONSTANT nullptr

NodeTypes == {"FICTIOUS", "VAL", "VAR", "IF", "ELSE", "WHILE", "OP", "VAR_DEF",
              "FUNC_DEF", "FUNC_CALL", "RETURN"}
BinaryOps   == {"ADD", "SUB", "MUL", "DIV"}
UnaryOps    == {"SQRT", "SIN", "COS"}
Comparators == {"EQ", "GT", "LT", "GE", "LE", "NEQ"}
OpNames     == BinaryOps \cup UnaryOps \cup Comparators
                 \cup {"INPUT", "OUTPUT", "NOT", "AND", "OR", "ASSIG"}
=============================================================================
