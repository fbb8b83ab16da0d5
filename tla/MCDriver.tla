------------------------------ MODULE MCDriver ------------------------------
(***************************************************************************)
(* Small trees for Driver: leaves, nodes with two children, with a right   *)
(* one, with a left one, and these below each other.                       *)
(***************************************************************************)
EXTENDS Driver, RevLang

DumpedTrees == {Val(1), Op("ADD", Var(1), Val(2)), Op1("INPUT", nullptr), Return(Op1("NOT", Var(1))),
            If(Var(1), Assign(1, Val(0))), List(Let(1, Val(2)), nullptr),
            List(List(Var(1), nullptr), List(nullptr, Var(2))),
            While(Op("GT", Var(1), Val(0)), Output(Var(1)))}
DumpedNodes == UNION {Subtrees(t) : t \in DumpedTrees}
\* (TLC evaluates a definition once, but the one a cfg names at every use.)
MCTrees == DumpedTrees
MCNodes == DumpedNodes
=============================================================================
