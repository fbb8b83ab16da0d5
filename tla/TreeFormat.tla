----------------------------- MODULE TreeFormat -----------------------------
(***************************************************************************)
(* The dump of a syntax tree (src/src/lib/tree.cpp): save_tree, as the     *)
(* front end and the optimizer call it, and load_tree, with which the      *)
(* compiler reads it.  A dump is a sequence of tokens without the white    *)
(* space between them: braces, the pair of numbers behind an opening brace, *)
(* and anything else.                                                      *)
(***************************************************************************)
EXTENDS Ast

CONSTANT Nodes   \* the nodes of the trees that are saved

ASSUME NodesAssumption ==
    \A n \in Nodes : n.left \in Nodes \cup {nullptr} /\ n.right \in Nodes \cup {nullptr}

\* The number of nodes on the longest way down from a node: trees are finite.
Depth ==
    LET depth[n \in Nodes \cup {nullptr}] ==
          IF n = nullptr THEN 0
          ELSE 1 + (IF depth[n.left] > depth[n.right] THEN depth[n.left] ELSE depth[n.right])
    IN  depth

ASSUME FiniteAssumption ==
    \A n \in Nodes : /\ Depth[n] \in Nat
                     /\ \A child \in {n.left, n.right} \ {nullptr} : Depth[child] < Depth[n]

Token(kind, type, data) == [kind |-> kind, type |-> type, data |-> data]
OpenBrace  == Token("{", "NOT_SET", -1)
CloseBrace == Token("}", "NOT_SET", -1)
Junk       == Token("junk", "NOT_SET", -1)
Numbers(n) == Token("numbers", n.type, n.data)
-----------------------------------------------------------------------------
\* The two calls of a walk at a node: fprintf before its children, and after.
dump_pre(n)  == << OpenBrace, Numbers(n) >>
dump_post(n) == << CloseBrace >>

\* What a walk writes: dfs_recursion visits the left child before the right
\* one, and says nothing of a child that is not there.
dfs_recursion ==
    LET visit[n \in Nodes \cup {nullptr}] ==
          IF n = nullptr THEN << >>
          ELSE dump_pre(n) \o visit[n.left] \o visit[n.right] \o dump_post(n)
    IN  visit

save_tree(start_node) == dfs_recursion[start_node]
-----------------------------------------------------------------------------
Is(dump, i, kind) == i \in DOMAIN dump /\ dump[i].kind = kind

new_node(type, data, left, right) ==
    [type |-> type, data |-> data, left |-> left, right |-> right]

\* What load_subtree yields at a position: a node and where the reading goes
\* on, or a null pointer and nowhere.
Refused      == [node |-> nullptr, next |-> 0]
Read(n, pos) == [node |-> n, next |-> pos]

ClosedUnchecked(dump, numbers, first, second, pos) ==
    Read(IF second # nullptr THEN new_node(numbers.type, numbers.data, first, second)
         ELSE new_node(numbers.type, numbers.data, nullptr, first), pos + 1)
\* The closing brace of a node whose children were `first` and `second`: an
\* only child becomes the right one.
Closed(dump, numbers, first, second, pos) ==
    IF ~Is(dump, pos, "}") THEN Refused
    ELSE Read(IF second # nullptr THEN new_node(numbers.type, numbers.data, first, second)
              ELSE new_node(numbers.type, numbers.data, nullptr, first), pos + 1)


\* sscanf leaves type and data at -1, and reads nothing, unless both numbers
\* are there.  A child is there if a brace opens; a third one is refused.
load_subtree(dump) ==
    LET load[i \in 1 .. Len(dump) + 1] ==
          LET numbers == IF Is(dump, i + 1, "numbers") THEN dump[i + 1] ELSE Junk
              body    == IF Is(dump, i + 1, "numbers") THEN i + 2 ELSE i + 1
          IN  IF ~Is(dump, i, "{") THEN Refused
              ELSE IF ~Is(dump, body, "{") THEN Closed(dump, numbers, nullptr, nullptr, body)
              ELSE LET first == load[body]
                   IN  IF first = Refused THEN Refused
                       ELSE IF ~Is(dump, first.next, "{")
                            THEN Closed(dump, numbers, first.node, nullptr, first.next)
                            ELSE LET second == load[first.next]
                                 IN  IF second = Refused THEN Refused
                                     ELSE Closed(dump, numbers, first.node, second.node, second.next)
    IN  load

\* load_tree looks for the first brace, and does not stop at the end of the
\* dump: without one it leaves the file (HasTree is FALSE).  What follows the
\* tree is not read.
HasTree(dump)   == \E i \in DOMAIN dump : dump[i].kind = "{"
load_tree(dump) ==
    LET start == CHOOSE i \in DOMAIN dump :
                    dump[i].kind = "{" /\ \A j \in 1 .. i - 1 : dump[j].kind # "{"
    IN  load_subtree(dump)[start].node
-----------------------------------------------------------------------------
\* For the properties: the tree with every only child on the right.
Straightened ==
    LET s[n \in Nodes \cup {nullptr}] ==
          IF n = nullptr THEN nullptr
          ELSE IF n.right = nullptr THEN new_node(n.type, n.data, nullptr, s[n.left])
          ELSE new_node(n.type, n.data, s[n.left], s[n.right])
    IN  s

\* A null pointer is no node, of a tree that was saved or of one that is loaded.
ASSUME NullAssumption == nullptr \notin Nodes /\ \A n \in Nodes : Straightened[n] # nullptr
=============================================================================
