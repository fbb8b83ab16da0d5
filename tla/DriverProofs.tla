---------------------------- MODULE DriverProofs ----------------------------
(***************************************************************************)
(* Theorems about the tree format and about Driver.  First, what load_tree *)
(* makes of a dump of save_tree, for every finite tree; then the driver, for *)
(* all trees, damages, sizes of code and of buffers.  Files is the inductive *)
(* invariant of the driver: what has been written, or waits in the buffer of *)
(* the stream, at each call.                                               *)
(***************************************************************************)
EXTENDS Driver, WellFoundedInduction, TLAPS

\* A set of numbers has a least one.
LEMMA LeastNumber ==
    ASSUME NEW S, S \subseteq Nat, S # {}
    PROVE  \E m \in S : \A n \in S : m <= n
  <1> DEFINE R == {ss \in Nat \X Nat : ss[1] < ss[2]}
  <1>1. IsWellFoundedOn(R, Nat)
    <2>1. R = OpToRel(<, Nat)
      BY DEF OpToRel
    <2> QED
      BY <2>1, NatLessThanWellFounded
  <1>2. \E m \in S : \A n \in S : ~(<< n, m >> \in R)
    <2> HIDE DEF R
    <2> QED
      BY <1>1, WFMin
  <1>3. \A m, n \in Nat : ~(<< n, m >> \in R) => m <= n
    OBVIOUS
  <1> QED
    BY <1>2, <1>3
-----------------------------------------------------------------------------
(* Finite trees: dfs_recursion and Straightened exist.                     *)

Tree0 == Nodes \cup {nullptr}

\* The children of a node are nearer to the leaves.
LEMMA ChildFacts ==
    ASSUME NEW n \in Nodes
    PROVE  /\ n.left \in Tree0 /\ n.right \in Tree0 /\ n # nullptr
           /\ Depth[n] \in Nat
           /\ \A child \in {n.left, n.right} : child # nullptr => child \in Nodes /\ Depth[child] < Depth[n]
  BY NodesAssumption, FiniteAssumption, NullAssumption DEF Tree0

\* In a set of nodes one has the least depth.
LEMMA LeastNode ==
    ASSUME NEW S, S \subseteq Nodes, S # {}
    PROVE  \E n \in S : \A m \in S : Depth[n] <= Depth[m]
  <1> DEFINE Depths == {Depth[n] : n \in S}
  <1>1. Depths \subseteq Nat /\ Depths # {}
    BY FiniteAssumption
  <1>2. \E d \in Depths : \A e \in Depths : d <= e
    <2> HIDE DEF Depths
    <2> QED
      BY <1>1, LeastNumber
  <1> QED
    BY <1>2

\* Both functions at once: what is written at a node, and what is read there.
AtNode(f, n) ==
    IF n = nullptr THEN << << >>, nullptr >>
    ELSE << dump_pre(n) \o f[n.left][1] \o f[n.right][1] \o dump_post(n),
            IF n.right = nullptr THEN new_node(n.type, n.data, nullptr, f[n.left][2])
            ELSE new_node(n.type, n.data, f[n.left][2], f[n.right][2]) >>

\* AtNode looks at the children only.
LEMMA AtNodeLocal ==
    ASSUME NEW f, NEW g, NEW n \in Tree0,
           n # nullptr => f[n.left] = g[n.left] /\ f[n.right] = g[n.right]
    PROVE  AtNode(f, n) = AtNode(g, n)
  <1>1. CASE n = nullptr
    BY <1>1 DEF AtNode
  <1>2. CASE n # nullptr
    BY <1>2 DEF AtNode
  <1> QED
    BY <1>1, <1>2

\* The nodes of depth less than m, and a function that is right on them.
Shallow(m) == {n \in Nodes : Depth[n] < m} \cup {nullptr}
RightOn(f, m) == f = [n \in Shallow(m) |-> f[n]] /\ \A n \in Shallow(m) : f[n] = AtNode(f, n)

LEMMA ShallowFacts ==
    ASSUME NEW m \in Nat
    PROVE  /\ Shallow(m) \subseteq Tree0 /\ nullptr \in Shallow(m)
           /\ \A n \in Shallow(m) : n # nullptr => n.left \in Shallow(m) /\ n.right \in Shallow(m)
           /\ \A n \in Shallow(m + 1) : n # nullptr => n.left \in Shallow(m) /\ n.right \in Shallow(m)
           /\ Shallow(m) \subseteq Shallow(m + 1)
  <1>1. \A n \in Nodes : Depth[n] \in Nat
    BY FiniteAssumption
  <1>2. \A a, b, c \in Nat : (a < b /\ b < c => a < c) /\ (a < b /\ b < c + 1 => a < c) /\ (a < c => a < c + 1)
    OBVIOUS
  <1>3. Shallow(m) \subseteq Tree0 /\ nullptr \in Shallow(m) /\ Shallow(m) \subseteq Shallow(m + 1)
    BY <1>1, <1>2 DEF Shallow, Tree0
  <1>4. ASSUME NEW n \in Nodes, NEW child \in {n.left, n.right}
        PROVE  /\ Depth[n] < m => child \in Shallow(m)
               /\ Depth[n] < m + 1 => child \in Shallow(m)
    <2>1. CASE child = nullptr
      BY <2>1 DEF Shallow
    <2>2. CASE child # nullptr
      <3>1. child \in Nodes /\ Depth[child] < Depth[n] /\ Depth[child] \in Nat /\ Depth[n] \in Nat
        BY <2>2, <1>1, ChildFacts
      <3> QED
        BY <3>1, <1>2 DEF Shallow
    <2> QED
      BY <2>1, <2>2
  <1> QED
    BY <1>3, <1>4 DEF Shallow

\* Two functions that are right agree.
LEMMA RightAgree ==
    ASSUME NEW f, NEW g, NEW k \in Nat, NEW m \in Nat, RightOn(f, k), RightOn(g, m),
           NEW n \in Shallow(k) \cap Shallow(m)
    PROVE  f[n] = g[n]
  <1> DEFINE Wrong == {x \in Shallow(k) \cap Shallow(m) : f[x] # g[x]}
  <1>1. f[nullptr] = g[nullptr]
    BY ShallowFacts, AtNodeLocal DEF RightOn, AtNode
  <1>2. SUFFICES ASSUME Wrong # {} PROVE FALSE
    OBVIOUS
  <1>3. Wrong \subseteq Nodes
    BY <1>1 DEF Shallow
  <1>4. PICK x \in Wrong : \A y \in Wrong : Depth[x] <= Depth[y]
    <2> HIDE DEF Wrong
    <2> QED
      BY <1>2, <1>3, LeastNode
  <1>5. ASSUME NEW y \in {x.left, x.right} PROVE f[y] = g[y]
    <2>1. CASE y = nullptr
      BY <2>1, <1>1
    <2>2. CASE y # nullptr
      <3>1. x \in Nodes /\ y \in Nodes /\ Depth[y] < Depth[x] /\ Depth[y] \in Nat /\ Depth[x] \in Nat
        BY <1>3, <2>2, ChildFacts, FiniteAssumption
      <3>2. y \in Shallow(k) /\ y \in Shallow(m)
        BY <3>1, ShallowFacts, ChildFacts
      <3>3. y \notin Wrong
        <4>1. \A a, b \in Nat : a < b => ~(b <= a)
          OBVIOUS
        <4> HIDE DEF Wrong
        <4> QED
          BY <1>4, <3>1, <4>1
      <3> QED
        BY <3>2, <3>3
    <2> QED
      BY <2>1, <2>2
  <1>6. x \in Tree0 /\ AtNode(f, x) = AtNode(g, x)
    BY <1>3, <1>5, AtNodeLocal DEF Tree0
  <1> QED
    BY <1>6 DEF RightOn

LEMMA RightExists ==
    ASSUME NEW m \in Nat
    PROVE  \E f : RightOn(f, m)
  <1> DEFINE Missing == {k \in Nat : ~\E f : RightOn(f, k)}
  <1>1. SUFFICES ASSUME Missing # {} PROVE FALSE
    OBVIOUS
  <1>2. PICK k \in Missing : \A j \in Missing : k <= j
    <2>1. Missing \subseteq Nat
      OBVIOUS
    <2> HIDE DEF Missing
    <2> QED
      BY <1>1, <2>1, LeastNumber
  <1>3. CASE k = 0
    <2> DEFINE f == [n \in Shallow(0) |-> << << >>, nullptr >>]
    <2>1. \A n \in Shallow(0) : n = nullptr
      BY FiniteAssumption DEF Shallow
    <2>2. RightOn(f, 0)
      BY <2>1 DEF RightOn, AtNode
    <2> QED
      BY <1>3, <2>2
  <1>4. CASE k # 0
    <2>1. k - 1 \in Nat /\ (k - 1) + 1 = k /\ ~(k <= k - 1)
      BY <1>4
    <2>2. k - 1 \notin Missing
      <3> HIDE DEF Missing
      <3> QED
        BY <1>2, <2>1
    <2>3. PICK f : RightOn(f, k - 1)
      BY <2>1, <2>2
    <2> DEFINE j == k - 1
               g == [n \in Shallow(k) |-> AtNode(f, n)]
    <2>4. j \in Nat /\ j + 1 = k /\ RightOn(f, j)
      BY <2>1, <2>3
    <2> HIDE DEF j
    <2>5. Shallow(j) \subseteq Shallow(k) /\ Shallow(k) \subseteq Tree0
      BY <2>4, ShallowFacts
    <2>6. ASSUME NEW n \in Shallow(j) PROVE g[n] = f[n]
      BY <2>4, <2>5 DEF RightOn
    <2>7. ASSUME NEW n \in Shallow(k) PROVE g[n] = AtNode(g, n)
      <3>1. n # nullptr => n.left \in Shallow(j) /\ n.right \in Shallow(j)
        BY <2>4, ShallowFacts
      <3>2. n # nullptr => f[n.left] = g[n.left] /\ f[n.right] = g[n.right]
        BY <3>1, <2>6
      <3>3. n \in Tree0
        BY <2>5
      <3>4. AtNode(f, n) = AtNode(g, n)
        <4> HIDE DEF g
        <4> QED
          BY <3>2, <3>3, AtNodeLocal
      <3> QED
        BY <3>4
    <2>8. RightOn(g, k)
      BY <2>7 DEF RightOn
    <2> QED
      BY <2>8
  <1> QED
    BY <1>3, <1>4

\* One function is right on all nodes.
Rank(n)  == IF n = nullptr THEN 0 ELSE Depth[n] + 1
UpTo(n)  == CHOOSE f : RightOn(f, Rank(n))
Everywhere == [n \in Tree0 |-> UpTo(n)[n]]

LEMMA EverywhereRight ==
    ASSUME NEW n \in Tree0
    PROVE  Everywhere[n] = AtNode(Everywhere, n)
  <1>1. ASSUME NEW x \in Tree0
        PROVE  Rank(x) \in Nat /\ RightOn(UpTo(x), Rank(x)) /\ x \in Shallow(Rank(x))
    <2>1. Rank(x) \in Nat /\ x \in Shallow(Rank(x))
      BY FiniteAssumption DEF Rank, Shallow, Tree0
    <2>2. RightOn(UpTo(x), Rank(x))
      BY <2>1, RightExists DEF UpTo
    <2> QED
      BY <2>1, <2>2
  <1>2. Everywhere[n] = AtNode(UpTo(n), n)
    BY <1>1 DEF Everywhere, RightOn
  <1>3. ASSUME n # nullptr, NEW c \in {n.left, n.right}
        PROVE  UpTo(n)[c] = Everywhere[c]
    <2>1. c \in Tree0 /\ c \in Shallow(Rank(n))
      <3>1. Rank(n) \in Nat /\ n \in Shallow(Rank(n))
        BY <1>1
      <3>2. n.left \in Shallow(Rank(n)) /\ n.right \in Shallow(Rank(n)) /\ Shallow(Rank(n)) \subseteq Tree0
        BY <1>3, <3>1, ShallowFacts
      <3> QED
        BY <3>2
    <2>2. UpTo(n)[c] = UpTo(c)[c]
      BY <1>1, <2>1, RightAgree
    <2> QED
      BY <2>1, <2>2 DEF Everywhere
  <1>4. AtNode(UpTo(n), n) = AtNode(Everywhere, n)
    BY <1>3, AtNodeLocal
  <1> QED
    BY <1>2, <1>4

\* What the walk writes, and the tree with every only child on the right.
LEMMA DumpOf ==
    /\ dfs_recursion[nullptr] = << >>
    /\ \A n \in Nodes :
          dfs_recursion[n] = dump_pre(n) \o dfs_recursion[n.left] \o dfs_recursion[n.right] \o dump_post(n)
  <1> DEFINE W(f, n) == IF n = nullptr THEN << >>
                        ELSE dump_pre(n) \o f[n.left] \o f[n.right] \o dump_post(n)
             w == [n \in Tree0 |-> Everywhere[n][1]]
  <1>1. ASSUME NEW n \in Tree0 PROVE w[n] = W(w, n)
    <2>1. n # nullptr => n.left \in Tree0 /\ n.right \in Tree0
      BY ChildFacts DEF Tree0
    <2>2. w[n] = AtNode(Everywhere, n)[1]
      BY EverywhereRight
    <2>3. n = nullptr => w[n] = << >>
      BY <2>2 DEF AtNode
    <2>4. n # nullptr => w[n] = dump_pre(n) \o Everywhere[n.left][1] \o Everywhere[n.right][1] \o dump_post(n)
      BY <2>2 DEF AtNode
    <2> QED
      BY <2>1, <2>3, <2>4
  <1>2. w = [n \in Tree0 |-> W(w, n)]
    BY <1>1
  <1>3. dfs_recursion = CHOOSE visit : visit = [n \in Tree0 |-> W(visit, n)]
    BY DEF dfs_recursion, Tree0
  <1>4. dfs_recursion = [n \in Tree0 |-> W(dfs_recursion, n)]
    <2> HIDE DEF W, w
    <2> QED
      BY <1>2, <1>3
  <1> QED
    BY <1>4, NullAssumption DEF Tree0

LEMMA StraightOf ==
    /\ Straightened[nullptr] = nullptr
    /\ \A n \in Nodes :
          /\ n.right = nullptr =>
               Straightened[n] = new_node(n.type, n.data, nullptr, Straightened[n.left])
          /\ n.right # nullptr =>
               Straightened[n] = new_node(n.type, n.data, Straightened[n.left], Straightened[n.right])
  <1> DEFINE S(f, n) == IF n = nullptr THEN nullptr
                        ELSE IF n.right = nullptr THEN new_node(n.type, n.data, nullptr, f[n.left])
                        ELSE new_node(n.type, n.data, f[n.left], f[n.right])
             t == [n \in Tree0 |-> Everywhere[n][2]]
  <1>1. ASSUME NEW n \in Tree0 PROVE t[n] = S(t, n)
    <2>1. n # nullptr => n.left \in Tree0 /\ n.right \in Tree0
      BY ChildFacts DEF Tree0
    <2>2. t[n] = AtNode(Everywhere, n)[2]
      BY EverywhereRight
    <2>3. n = nullptr => t[n] = nullptr
      BY <2>2 DEF AtNode
    <2>4. n # nullptr =>
            t[n] = IF n.right = nullptr THEN new_node(n.type, n.data, nullptr, Everywhere[n.left][2])
                   ELSE new_node(n.type, n.data, Everywhere[n.left][2], Everywhere[n.right][2])
      BY <2>2 DEF AtNode
    <2> QED
      BY <2>1, <2>3, <2>4
  <1>2. t = [n \in Tree0 |-> S(t, n)]
    BY <1>1
  <1>3. Straightened = CHOOSE s : s = [n \in Tree0 |-> S(s, n)]
    BY DEF Straightened, Tree0
  <1>4. Straightened = [n \in Tree0 |-> S(Straightened, n)]
    <2> HIDE DEF S, t
    <2> QED
      BY <1>2, <1>3
  <1> QED
    BY <1>4, NullAssumption DEF Tree0
-----------------------------------------------------------------------------
(* The places of a dump.                                                   *)

Tokens == {OpenBrace, CloseBrace, Junk} \cup {Numbers(n) : n \in Nodes}

\* What stands where in two sequences, one behind the other.
LEMMA Behind ==
    ASSUME NEW s \in Seq(Tokens), NEW t \in Seq(Tokens)
    PROVE  /\ s \o t \in Seq(Tokens)
           /\ Len(s \o t) = Len(s) + Len(t)
           /\ \A j \in 1 .. Len(s) : (s \o t)[j] = s[j]
           /\ \A j \in 1 .. Len(t) : (s \o t)[Len(s) + j] = t[j]
  OBVIOUS

\* A node's tokens stand around those of its children.
LEMMA AroundChildren ==
    ASSUME NEW a \in Tokens, NEW b \in Tokens, NEW c \in Tokens,
           NEW l \in Seq(Tokens), NEW r \in Seq(Tokens),
           NEW s, s = << a, b >> \o l \o r \o << c >>
    PROVE  /\ s \in Seq(Tokens)
           /\ Len(s) = Len(l) + Len(r) + 3
           /\ s[1] = a /\ s[2] = b /\ s[Len(l) + Len(r) + 3] = c
           /\ \A j \in 1 .. Len(l) : s[2 + j] = l[j]
           /\ \A j \in 1 .. Len(r) : s[2 + Len(l) + j] = r[j]
  <1> DEFINE x == << a, b >>
             y == x \o l
             z == y \o r
             e == << c >>
             w == z \o e
  <1>1. x \in Seq(Tokens) /\ Len(x) = 2 /\ x[1] = a /\ x[2] = b /\ e \in Seq(Tokens) /\ Len(e) = 1 /\ e[1] = c
    OBVIOUS
  <1>2. Len(l) \in Nat /\ Len(r) \in Nat
    OBVIOUS
  <1> HIDE DEF x, e
  <1>3. /\ y \in Seq(Tokens) /\ Len(y) = 2 + Len(l) /\ y[1] = a /\ y[2] = b
        /\ \A j \in 1 .. Len(l) : y[2 + j] = l[j]
    <2>1. /\ y \in Seq(Tokens) /\ Len(y) = Len(x) + Len(l)
          /\ \A j \in 1 .. Len(x) : y[j] = x[j]
          /\ \A j \in 1 .. Len(l) : y[Len(x) + j] = l[j]
      BY <1>1, Behind
    <2> HIDE DEF y
    <2> QED
      BY <1>1, <2>1
  <1> HIDE DEF y
  <1>4. /\ z \in Seq(Tokens) /\ Len(z) = 2 + Len(l) + Len(r)
        /\ \A j \in 1 .. 2 + Len(l) : z[j] = y[j]
        /\ \A j \in 1 .. Len(r) : z[2 + Len(l) + j] = r[j]
    <2>1. /\ z \in Seq(Tokens) /\ Len(z) = Len(y) + Len(r)
          /\ \A j \in 1 .. Len(y) : z[j] = y[j]
          /\ \A j \in 1 .. Len(r) : z[Len(y) + j] = r[j]
      BY <1>3, Behind
    <2> HIDE DEF z
    <2> QED
      BY <1>3, <2>1
  <1> HIDE DEF z
  <1>5. s = w
    BY DEF z, y, x, e
  <1>6. /\ s \in Seq(Tokens) /\ Len(s) = 2 + Len(l) + Len(r) + 1
        /\ \A j \in 1 .. 2 + Len(l) + Len(r) : s[j] = z[j]
        /\ s[2 + Len(l) + Len(r) + 1] = c
    <2>1. /\ w \in Seq(Tokens) /\ Len(w) = Len(z) + Len(e)
          /\ \A j \in 1 .. Len(z) : w[j] = z[j]
          /\ \A j \in 1 .. Len(e) : w[Len(z) + j] = e[j]
      BY <1>1, <1>4, Behind
    <2> HIDE DEF w
    <2>2. /\ w \in Seq(Tokens) /\ Len(w) = 2 + Len(l) + Len(r) + 1
          /\ \A j \in 1 .. 2 + Len(l) + Len(r) : w[j] = z[j]
          /\ w[2 + Len(l) + Len(r) + 1] = c
      BY <1>1, <1>4, <2>1
    <2> QED
      BY <1>5, <2>2
  <1>7. s[1] = a /\ s[2] = b
    BY <1>2, <1>3, <1>4, <1>6
  <1>8. ASSUME NEW j \in 1 .. Len(l) PROVE s[2 + j] = l[j]
    <2>1. 2 + j \in 1 .. 2 + Len(l) /\ 2 + j \in 1 .. 2 + Len(l) + Len(r)
      BY <1>2
    <2> QED
      BY <1>3, <1>4, <1>6, <2>1
  <1>9. ASSUME NEW j \in 1 .. Len(r) PROVE s[2 + Len(l) + j] = r[j]
    <2>1. 2 + Len(l) + j \in 1 .. 2 + Len(l) + Len(r)
      BY <1>2
    <2> QED
      BY <1>4, <1>6, <2>1
  <1>10. 2 + Len(l) + Len(r) + 1 = Len(l) + Len(r) + 3
    BY <1>2
  <1> QED
    BY <1>6, <1>7, <1>8, <1>9, <1>10

\* A dump is a sequence of tokens.
LEMMA DumpIsTokens ==
    ASSUME NEW n \in Tree0
    PROVE  dfs_recursion[n] \in Seq(Tokens)
  <1> DEFINE Wrong == {x \in Nodes : dfs_recursion[x] \notin Seq(Tokens)}
  <1>1. dfs_recursion[nullptr] \in Seq(Tokens)
    BY DumpOf
  <1>2. ASSUME Wrong # {} PROVE FALSE
    <2>1. PICK x \in Wrong : \A y \in Wrong : Depth[x] <= Depth[y]
      <3>1. Wrong \subseteq Nodes
        OBVIOUS
      <3> HIDE DEF Wrong
      <3> QED
        BY <1>2, <3>1, LeastNode
    <2>2. ASSUME NEW y \in {x.left, x.right} PROVE dfs_recursion[y] \in Seq(Tokens)
      <3>1. CASE y = nullptr
        BY <3>1, <1>1
      <3>2. CASE y # nullptr
        <4>1. x \in Nodes /\ y \in Nodes /\ Depth[y] < Depth[x] /\ Depth[y] \in Nat /\ Depth[x] \in Nat
          BY <3>2, ChildFacts, FiniteAssumption
        <4>2. ~(Depth[x] <= Depth[y])
          BY <4>1
        <4>3. y \notin Wrong
          <5> HIDE DEF Wrong
          <5> QED
            BY <2>1, <4>2
        <4> QED
          BY <4>1, <4>3
      <3> QED
        BY <3>1, <3>2
    <2>3. x \in Nodes /\ OpenBrace \in Tokens /\ CloseBrace \in Tokens /\ Numbers(x) \in Tokens
      BY DEF Tokens
    <2>4. dfs_recursion[x]
            = << OpenBrace, Numbers(x) >> \o dfs_recursion[x.left] \o dfs_recursion[x.right] \o << CloseBrace >>
      BY <2>3, DumpOf DEF dump_pre, dump_post
    <2>5. dfs_recursion[x] \in Seq(Tokens)
      <3> HIDE DEF Wrong
      <3> QED
        BY <2>2, <2>3, <2>4, AroundChildren
    <2> QED
      BY <2>5
  <1> QED
    BY <1>1, <1>2 DEF Tree0

Size(n) == Len(dfs_recursion[n])

\* What stands where in the dump of a node.
LEMMA DumpPlaces ==
    ASSUME NEW n \in Nodes
    PROVE  LET d == dfs_recursion[n] IN
           /\ d \in Seq(Tokens) /\ Size(n.left) \in Nat /\ Size(n.right) \in Nat
           /\ Size(n) = Size(n.left) + Size(n.right) + 3
           /\ d[1] = OpenBrace /\ d[2] = Numbers(n) /\ d[Size(n.left) + Size(n.right) + 3] = CloseBrace
           /\ \A j \in 1 .. Size(n.left) : d[2 + j] = dfs_recursion[n.left][j]
           /\ \A j \in 1 .. Size(n.right) : d[2 + Size(n.left) + j] = dfs_recursion[n.right][j]
  <1>1. OpenBrace \in Tokens /\ CloseBrace \in Tokens /\ Numbers(n) \in Tokens
    BY DEF Tokens
  <1>2. dfs_recursion[n]
          = << OpenBrace, Numbers(n) >> \o dfs_recursion[n.left] \o dfs_recursion[n.right] \o << CloseBrace >>
    BY DumpOf DEF dump_pre, dump_post
  <1>3. dfs_recursion[n.left] \in Seq(Tokens) /\ dfs_recursion[n.right] \in Seq(Tokens)
    BY ChildFacts, DumpIsTokens
  <1>4. Size(n.left) \in Nat /\ Size(n.right) \in Nat
    BY <1>3 DEF Size
  <1> DEFINE d == dfs_recursion[n]
             l == dfs_recursion[n.left]
             r == dfs_recursion[n.right]
  <1>5. /\ d \in Seq(Tokens)
        /\ Len(d) = Len(l) + Len(r) + 3
        /\ d[1] = OpenBrace /\ d[2] = Numbers(n) /\ d[Len(l) + Len(r) + 3] = CloseBrace
        /\ \A j \in 1 .. Len(l) : d[2 + j] = l[j]
        /\ \A j \in 1 .. Len(r) : d[2 + Len(l) + j] = r[j]
    <2>1. d = << OpenBrace, Numbers(n) >> \o l \o r \o << CloseBrace >> /\ l \in Seq(Tokens) /\ r \in Seq(Tokens)
      BY <1>2, <1>3
    <2> HIDE DEF d, l, r
    <2> QED
      BY <1>1, <2>1, AroundChildren
  <1> QED
    BY <1>4, <1>5 DEF Size

\* The kinds of the tokens tell them apart.
LEMMA Kinds ==
    /\ OpenBrace.kind = "{" /\ CloseBrace.kind = "}" /\ Junk.kind = "junk"
    /\ \A n \in Nodes : Numbers(n).kind = "numbers" /\ Numbers(n).type = n.type /\ Numbers(n).data = n.data
  BY DEF OpenBrace, CloseBrace, Junk, Numbers, Token
-----------------------------------------------------------------------------
(* load_subtree exists: the calls of one reading go forward in the dump.   *)

NumbersAt(d, i) == IF Is(d, i + 1, "numbers") THEN d[i + 1] ELSE Junk
BodyAt(d, i)    == IF Is(d, i + 1, "numbers") THEN i + 2 ELSE i + 1

\* What load_subtree yields at i, if it yields f behind i.
LoadAt(d, f, i) ==
    LET numbers == NumbersAt(d, i)
        body    == BodyAt(d, i)
    IN  IF ~Is(d, i, "{") THEN Refused
        ELSE IF ~Is(d, body, "{") THEN Closed(d, numbers, nullptr, nullptr, body)
        ELSE LET first == f[body]
             IN  IF first = Refused THEN Refused
                 ELSE IF ~Is(d, first.next, "{")
                      THEN Closed(d, numbers, first.node, nullptr, first.next)
                      ELSE LET second == f[first.next]
                           IN  IF second = Refused THEN Refused
                               ELSE Closed(d, numbers, first.node, second.node, second.next)

\* The reading goes on behind i, if it goes on.
Onward(d, result, i) == result = Refused \/ result.next \in i + 1 .. Len(d) + 1

\* f is what load_subtree yields at k and behind it.
Loads(d, f, k) ==
    /\ f = [i \in k .. Len(d) + 1 |-> f[i]]
    /\ \A i \in k .. Len(d) + 1 : f[i] = LoadAt(d, f, i) /\ Onward(d, f[i], i)

\* A token that is found is in the dump.
LEMMA Found ==
    ASSUME NEW d \in Seq(Tokens), NEW i, NEW kind, Is(d, i, kind)
    PROVE  i \in 1 .. Len(d) /\ Len(d) \in Nat /\ i \in Nat /\ d[i].kind = kind
  <1>1. DOMAIN d = 1 .. Len(d) /\ Len(d) \in Nat
    OBVIOUS
  <1> QED
    BY <1>1 DEF Is

LEMMA ClosedOnward ==
    ASSUME NEW d \in Seq(Tokens), NEW i \in Nat, NEW pos \in Nat, i < pos, NEW numbers, NEW first, NEW second
    PROVE  Onward(d, Closed(d, numbers, first, second, pos), i)
  <1>1. CASE ~Is(d, pos, "}")
    BY <1>1 DEF Closed, Onward
  <1>2. CASE Is(d, pos, "}")
    <2>1. pos \in 1 .. Len(d)
      BY <1>2, Found
    <2>2. Closed(d, numbers, first, second, pos).next = pos + 1
      BY <1>2 DEF Closed, Read
    <2>3. pos + 1 \in i + 1 .. Len(d) + 1
      BY <2>1
    <2> QED
      BY <2>2, <2>3 DEF Onward
  <1> QED
    BY <1>1, <1>2

\* LoadAt looks only behind i, and goes on behind i.
LEMMA LoadAtOnward ==
    ASSUME NEW d \in Seq(Tokens), NEW i \in Nat, i <= Len(d) + 1, NEW f, NEW g,
           \A j \in i + 1 .. Len(d) + 1 : f[j] = g[j] /\ Onward(d, f[j], j)
    PROVE  LoadAt(d, f, i) = LoadAt(d, g, i) /\ Onward(d, LoadAt(d, f, i), i)
  <1> DEFINE numbers == NumbersAt(d, i)
             body    == BodyAt(d, i)
             first   == f[body]
             second  == f[first.next]
  <1>1. body \in Nat /\ i < body
    BY DEF BodyAt
  <1>2. CASE ~Is(d, i, "{")
    BY <1>2 DEF LoadAt, Onward
  <1>3. CASE Is(d, i, "{") /\ ~Is(d, body, "{")
    <2>1. LoadAt(d, f, i) = Closed(d, numbers, nullptr, nullptr, body)
      BY <1>3 DEF LoadAt
    <2>2. LoadAt(d, g, i) = Closed(d, numbers, nullptr, nullptr, body)
      BY <1>3 DEF LoadAt
    <2> HIDE DEF numbers, body
    <2> QED
      BY <1>1, <2>1, <2>2, ClosedOnward
  <1>4. CASE Is(d, i, "{") /\ Is(d, body, "{")
    <2>1. body \in i + 1 .. Len(d) + 1
      <3>1. body \in 1 .. Len(d) /\ Len(d) \in Nat
        BY <1>4, Found
      <3> HIDE DEF body
      <3> QED
        BY <1>1, <3>1
    <2>2. first = g[body] /\ Onward(d, first, body)
      BY <2>1
    <2>3. CASE first = Refused
      BY <1>4, <2>2, <2>3 DEF LoadAt, Onward
    <2>4. CASE first # Refused /\ ~Is(d, first.next, "{")
      <3>1. first.next \in Nat /\ i < first.next
        <4> HIDE DEF body, first
        <4>1. first.next \in body + 1 .. Len(d) + 1
          BY <2>2, <2>4 DEF Onward
        <4> QED
          BY <1>1, <4>1
      <3>2. LoadAt(d, f, i) = Closed(d, numbers, first.node, nullptr, first.next)
        BY <1>4, <2>4 DEF LoadAt
      <3>3. LoadAt(d, g, i) = Closed(d, numbers, first.node, nullptr, first.next)
        BY <1>4, <2>2, <2>4 DEF LoadAt
      <3> HIDE DEF numbers, first
      <3> QED
        BY <3>1, <3>2, <3>3, ClosedOnward
    <2>5. CASE first # Refused /\ Is(d, first.next, "{")
      <3>1. first.next \in i + 1 .. Len(d) + 1 /\ first.next \in Nat /\ i < first.next
        <4> HIDE DEF body, first
        <4>1. first.next \in body + 1 .. Len(d) + 1
          BY <2>2, <2>5 DEF Onward
        <4>2. Len(d) \in Nat
          OBVIOUS
        <4>3. \A p \in body + 1 .. Len(d) + 1 : p \in i + 1 .. Len(d) + 1 /\ p \in Nat /\ i < p
          BY <1>1, <4>2
        <4> QED
          BY <4>1, <4>3
      <3>2. second = g[first.next] /\ Onward(d, second, first.next)
        BY <3>1
      <3>3. CASE second = Refused
        BY <1>4, <2>2, <2>5, <3>2, <3>3 DEF LoadAt, Onward
      <3>4. CASE second # Refused
        <4>1. second.next \in Nat /\ i < second.next
          <5>1. second.next \in first.next + 1 .. Len(d) + 1 /\ Len(d) \in Nat
            BY <3>2, <3>4 DEF Onward
          <5> HIDE DEF first, second
          <5> QED
            BY <3>1, <5>1
        <4>2. LoadAt(d, f, i) = Closed(d, numbers, first.node, second.node, second.next)
          BY <1>4, <2>5, <3>4 DEF LoadAt
        <4>3. LoadAt(d, g, i) = Closed(d, numbers, first.node, second.node, second.next)
          BY <1>4, <2>2, <2>5, <3>2, <3>4 DEF LoadAt
        <4> HIDE DEF numbers, first, second
        <4> QED
          BY <4>1, <4>2, <4>3, ClosedOnward
      <3> QED
        BY <3>3, <3>4
    <2> QED
      BY <2>3, <2>4, <2>5
  <1> QED
    BY <1>2, <1>3, <1>4

LEMMA LoadsExists ==
    ASSUME NEW d \in Seq(Tokens)
    PROVE  \E f : Loads(d, f, 1)
  <1> DEFINE L == Len(d) + 1
             Missing == {c \in 0 .. L : ~\E f : Loads(d, f, L + 1 - c)}
  <1>1. L \in Nat /\ Len(d) \in Nat
    OBVIOUS
  <1> HIDE DEF L
  <1>2. SUFFICES Missing = {}
    <2>1. L \in 0 .. L /\ L + 1 - L = 1
      BY <1>1
    <2>2. L \notin Missing
      BY <1>2
    <2> QED
      BY <2>1, <2>2
  <1>3. SUFFICES ASSUME Missing # {} PROVE FALSE
    OBVIOUS
  <1>4. PICK c \in Missing : \A b \in Missing : c <= b
    <2>1. Missing \subseteq Nat
      BY <1>1
    <2> HIDE DEF Missing
    <2> QED
      BY <1>3, <2>1, LeastNumber
  <1>5. CASE c = 0
    <2> DEFINE f == [i \in L + 1 .. L |-> Refused]
    <2>1. L + 1 .. L = {}
      BY <1>1
    <2>2. Loads(d, f, L + 1)
      BY <2>1 DEF Loads, L
    <2>3. L + 1 - c = L + 1
      BY <1>1, <1>5
    <2> QED
      BY <2>2, <2>3
  <1>6. CASE c # 0
    <2> DEFINE b == c - 1
               k == L + 1 - c
    <2>1. b \in 0 .. L /\ ~(c <= b) /\ L + 1 - b = k + 1 /\ k \in 1 .. L
      BY <1>1, <1>6
    <2>2. b \notin Missing
      <3> HIDE DEF Missing, b
      <3> QED
        BY <1>4, <2>1
    <2>3. PICK g : Loads(d, g, k + 1)
      <3>1. \E f : Loads(d, f, L + 1 - b)
        BY <2>1, <2>2
      <3> QED
        BY <2>1, <3>1
    <2> HIDE DEF b, k
    <2> DEFINE f == [i \in k .. L |-> IF i = k THEN LoadAt(d, g, k) ELSE g[i]]
    <2>4. \A i \in k .. L : i = k \/ i \in k + 1 .. L
      BY <1>1, <2>1
    <2>5. \A i \in k + 1 .. L : i \in k .. L /\ i # k /\ f[i] = g[i] /\ Onward(d, g[i], i) /\ g[i] = LoadAt(d, g, i)
      <3>1. \A i \in k + 1 .. L : i \in k .. L /\ i # k
        BY <1>1, <2>1
      <3> QED
        BY <2>3, <3>1 DEF Loads, L
    <2>6. f[k] = LoadAt(d, g, k)
      BY <1>1, <2>1
    <2>7. ASSUME NEW i \in k .. L
          PROVE  LoadAt(d, g, i) = LoadAt(d, f, i) /\ Onward(d, LoadAt(d, g, i), i)
      <3>1. i \in Nat /\ i <= Len(d) + 1 /\ i + 1 .. L \subseteq k + 1 .. L
        BY <1>1, <2>1 DEF L
      <3>2. \A j \in i + 1 .. Len(d) + 1 : g[j] = f[j] /\ Onward(d, g[j], j)
        BY <2>5, <3>1 DEF L
      <3> HIDE DEF f
      <3> QED
        BY <3>1, <3>2, LoadAtOnward
    <2>8. \A i \in k .. L : f[i] = LoadAt(d, g, i)
      <3> HIDE DEF f
      <3> QED
        BY <2>4, <2>5, <2>6
    <2>9. f = [i \in k .. L |-> f[i]]
      OBVIOUS
    <2>10. Loads(d, f, k)
      <3> HIDE DEF f
      <3> QED
        BY <2>7, <2>8, <2>9 DEF Loads, L
    <2> QED
      BY <2>10 DEF k
  <1> QED
    BY <1>5, <1>6

LEMMA LoadOf ==
    ASSUME NEW d \in Seq(Tokens)
    PROVE  \A i \in 1 .. Len(d) + 1 : load_subtree(d)[i] = LoadAt(d, load_subtree(d), i)
  <1>1. PICK f : Loads(d, f, 1)
    BY LoadsExists
  <1>2. f = [i \in 1 .. Len(d) + 1 |-> LoadAt(d, f, i)]
    BY <1>1 DEF Loads
  <1>3. load_subtree(d) = CHOOSE load : load = [i \in 1 .. Len(d) + 1 |-> LoadAt(d, load, i)]
    BY DEF load_subtree, LoadAt, NumbersAt, BodyAt
  <1>4. load_subtree(d) = [i \in 1 .. Len(d) + 1 |-> LoadAt(d, load_subtree(d), i)]
    BY <1>2, <1>3
  <1> QED
    BY <1>4
-----------------------------------------------------------------------------
(* What load_subtree makes of the dump of a tree, or of the part of it     *)
(* that is there.                                                          *)

\* From i on the dump is that of n, as far as it goes.
Agrees(d, i, n) ==
    \A j \in 1 .. Size(n) : i + j - 1 <= Len(d) => d[i + j - 1] = dfs_recursion[n][j]

Expected(d, i, n) ==
    IF i + Size(n) <= Len(d) + 1 THEN Read(Straightened[n], i + Size(n)) ELSE Refused

ReadsAs(d, n) ==
    \A i \in 1 .. Len(d) + 1 : Agrees(d, i, n) => load_subtree(d)[i] = Expected(d, i, n)

LEMMA ReadIsNot ==
    ASSUME NEW x, NEW p
    PROVE  Read(x, p).node = x /\ Read(x, p).next = p /\ (x # nullptr => Read(x, p) # Refused)
  <1>1. Read(x, p).node = x /\ Read(x, p).next = p /\ Refused.node = nullptr
    BY DEF Read, Refused
  <1> QED
    BY <1>1

\* A closing brace, or the end of the dump.
LEMMA AtTheEnd ==
    ASSUME NEW d \in Seq(Tokens), NEW pos \in Nat, 1 <= pos, pos <= Len(d) => d[pos] = CloseBrace
    PROVE  ~Is(d, pos, "{") /\ (Is(d, pos, "}") <=> pos <= Len(d))
  <1>1. Len(d) \in Nat /\ DOMAIN d = 1 .. Len(d)
    OBVIOUS
  <1>2. CASE pos > Len(d)
    <2>1. pos \notin 1 .. Len(d) /\ ~(pos <= Len(d))
      BY <1>1, <1>2
    <2> QED
      BY <1>1, <2>1 DEF Is
  <1>3. CASE pos <= Len(d)
    <2>1. pos \in 1 .. Len(d)
      BY <1>1, <1>3
    <2> QED
      BY <1>1, <1>3, <2>1, Kinds DEF Is
  <1>4. pos > Len(d) \/ pos <= Len(d)
    BY <1>1
  <1> QED
    BY <1>2, <1>3, <1>4

\* Nothing is behind the end of a dump.
LEMMA NothingBehind ==
    ASSUME NEW d \in Seq(Tokens), NEW pos \in Nat, pos > Len(d), NEW kind
    PROVE  ~Is(d, pos, kind)
  <1>1. Len(d) \in Nat
    OBVIOUS
  <1>2. pos \notin 1 .. Len(d)
    BY <1>1
  <1> QED
    BY <1>2, Found

\* A child that is there.
LEMMA ChildReads ==
    ASSUME NEW d \in Seq(Tokens), NEW c \in Nodes, ReadsAs(d, c), NEW pos \in Nat,
           1 <= pos, pos <= Len(d), Agrees(d, pos, c)
    PROVE  /\ Is(d, pos, "{")
           /\ Size(c) \in Nat /\ 3 <= Size(c)
           /\ pos + Size(c) > Len(d) + 1 => load_subtree(d)[pos] = Refused
           /\ pos + Size(c) <= Len(d) + 1 =>
                /\ load_subtree(d)[pos] # Refused
                /\ load_subtree(d)[pos].node = Straightened[c]
                /\ load_subtree(d)[pos].next = pos + Size(c)
  <1>1. Len(d) \in Nat /\ DOMAIN d = 1 .. Len(d)
    OBVIOUS
  <1>2. Size(c) \in Nat /\ 3 <= Size(c) /\ dfs_recursion[c][1] = OpenBrace
    BY DumpPlaces
  <1>3. pos \in 1 .. Len(d) /\ pos \in 1 .. Len(d) + 1 /\ 1 \in 1 .. Size(c) /\ pos + 1 - 1 = pos
    BY <1>1, <1>2
  <1>4. d[pos] = OpenBrace
    BY <1>2, <1>3 DEF Agrees
  <1>5. Is(d, pos, "{")
    BY <1>1, <1>3, <1>4, Kinds DEF Is
  <1>6. load_subtree(d)[pos] = Expected(d, pos, c)
    BY <1>3 DEF ReadsAs
  <1>7. CASE pos + Size(c) > Len(d) + 1
    <2>1. ~(pos + Size(c) <= Len(d) + 1)
      BY <1>1, <1>2, <1>7
    <2>2. load_subtree(d)[pos] = Refused
      BY <1>6, <2>1 DEF Expected
    <2> QED
      BY <1>2, <1>5, <2>1, <2>2
  <1>8. CASE pos + Size(c) <= Len(d) + 1
    <2>1. ~(pos + Size(c) > Len(d) + 1)
      BY <1>1, <1>2, <1>8
    <2>2. load_subtree(d)[pos] = Read(Straightened[c], pos + Size(c)) /\ Straightened[c] # nullptr
      BY <1>6, <1>8, NullAssumption DEF Expected
    <2> DEFINE next == pos + Size(c)
    <2>3. /\ load_subtree(d)[pos] # Refused
          /\ load_subtree(d)[pos].node = Straightened[c]
          /\ load_subtree(d)[pos].next = next
      <3>1. load_subtree(d)[pos] = Read(Straightened[c], next)
        BY <2>2
      <3> HIDE DEF next
      <3> QED
        BY <2>2, <3>1, ReadIsNot
    <2> QED
      BY <1>2, <1>5, <2>1, <2>3
  <1>9. pos + Size(c) > Len(d) + 1 \/ pos + Size(c) <= Len(d) + 1
    BY <1>1, <1>2
  <1> QED
    BY <1>7, <1>8, <1>9

\* A node is read as expected if its children are.
LEMMA NodeReads ==
    ASSUME NEW d \in Seq(Tokens), NEW n \in Nodes,
           n.left # nullptr => ReadsAs(d, n.left), n.right # nullptr => ReadsAs(d, n.right)
    PROVE  ReadsAs(d, n)
  <1>1. SUFFICES ASSUME NEW i \in 1 .. Len(d) + 1, Agrees(d, i, n)
                 PROVE  load_subtree(d)[i] = Expected(d, i, n)
    BY DEF ReadsAs
  <1> DEFINE f == load_subtree(d)
             L == Len(d)
             a == Size(n.left)
             b == Size(n.right)
             end == i + 2 + a + b
             dn == dfs_recursion[n]
  <1>2. /\ L \in Nat /\ a \in Nat /\ b \in Nat /\ i \in Nat /\ 1 <= i /\ i <= L + 1
        /\ Size(n) = a + b + 3
    BY DumpPlaces
  <1>3. /\ dn[1] = OpenBrace /\ dn[2] = Numbers(n) /\ dn[a + b + 3] = CloseBrace
        /\ \A j \in 1 .. a : dn[2 + j] = dfs_recursion[n.left][j]
        /\ \A j \in 1 .. b : dn[2 + a + j] = dfs_recursion[n.right][j]
    BY DumpPlaces
  <1>4. \A j \in 1 .. a + b + 3 : i + j - 1 <= L => d[i + j - 1] = dn[j]
    BY <1>1, <1>2 DEF Agrees
  <1>5. DOMAIN d = 1 .. L
    OBVIOUS
  <1> HIDE DEF L, a, b, dn
  <1>6. i <= L => Is(d, i, "{")
    <2>1. 1 \in 1 .. a + b + 3 /\ i + 1 - 1 = i /\ (i <= L => i \in 1 .. L)
      BY <1>2
    <2> QED
      BY <1>3, <1>4, <1>5, <2>1, Kinds DEF Is
  <1>7. i + 1 <= L => NumbersAt(d, i) = Numbers(n) /\ BodyAt(d, i) = i + 2
    <2>1. 2 \in 1 .. a + b + 3 /\ i + 2 - 1 = i + 1 /\ (i + 1 <= L => i + 1 \in 1 .. L)
      BY <1>2
    <2>2. i + 1 <= L => d[i + 1] = Numbers(n)
      BY <1>3, <1>4, <2>1
    <2> QED
      BY <1>5, <2>1, <2>2, Kinds DEF Is, NumbersAt, BodyAt
  <1>8. Agrees(d, i + 2, n.left)
    <2>1. SUFFICES ASSUME NEW j \in 1 .. a, i + 2 + j - 1 <= L
                   PROVE  d[i + 2 + j - 1] = dfs_recursion[n.left][j]
      BY DEF Agrees, L, a
    <2>2. 2 + j \in 1 .. a + b + 3 /\ i + (2 + j) - 1 = i + 2 + j - 1
      BY <1>2
    <2> QED
      BY <1>3, <1>4, <2>1, <2>2
  <1>9. Agrees(d, i + 2 + a, n.right)
    <2>1. SUFFICES ASSUME NEW j \in 1 .. b, i + 2 + a + j - 1 <= L
                   PROVE  d[i + 2 + a + j - 1] = dfs_recursion[n.right][j]
      BY DEF Agrees, L, b
    <2>2. 2 + a + j \in 1 .. a + b + 3 /\ i + (2 + a + j) - 1 = i + 2 + a + j - 1
      BY <1>2
    <2> QED
      BY <1>3, <1>4, <2>1, <2>2
  <1>10. end \in Nat /\ 1 <= end /\ (end <= L => d[end] = CloseBrace)
    <2>1. a + b + 3 \in 1 .. a + b + 3 /\ i + (a + b + 3) - 1 = end /\ end \in Nat /\ 1 <= end
      BY <1>2
    <2> QED
      BY <1>3, <1>4, <2>1
  <1>18. ASSUME NEW first, NEW second
         PROVE  /\ ~Is(d, end, "{")
                /\ end > L => Closed(d, Numbers(n), first, second, end) = Refused
                /\ end <= L /\ second # nullptr =>
                     Closed(d, Numbers(n), first, second, end)
                        = Read(new_node(n.type, n.data, first, second), end + 1)
                /\ end <= L /\ second = nullptr =>
                     Closed(d, Numbers(n), first, second, end)
                        = Read(new_node(n.type, n.data, nullptr, first), end + 1)
    <2>1. ~Is(d, end, "{") /\ (Is(d, end, "}") <=> end <= L)
      <3>1. end \in Nat /\ 1 <= end /\ (end <= Len(d) => d[end] = CloseBrace)
        BY <1>10 DEF L
      <3> HIDE DEF end
      <3> QED
        BY <3>1, AtTheEnd DEF L
    <2>2. end > L => ~(end <= L)
      BY <1>2, <1>10
    <2>3. Numbers(n).type = n.type /\ Numbers(n).data = n.data
      BY Kinds
    <2> HIDE DEF end
    <2> QED
      BY <2>1, <2>2, <2>3 DEF Closed
  <1>11. f[i] = LoadAt(d, f, i)
    BY LoadOf
  <1>12. /\ end <= L => Expected(d, i, n) = Read(Straightened[n], end + 1)
         /\ end > L => Expected(d, i, n) = Refused
    <2>1. i + Size(n) = end + 1 /\ (end <= L => end + 1 <= L + 1) /\ (end > L => ~(end + 1 <= L + 1))
      BY <1>2
    <2> QED
      BY <2>1 DEF Expected, L
  <1>13. CASE i = L + 1
    <2>1. end > L /\ i > Len(d) /\ i \in Nat
      BY <1>2, <1>13 DEF L
    <2>2. ~Is(d, i, "{")
      BY <2>1, NothingBehind
    <2> QED
      BY <1>11, <1>12, <2>1, <2>2 DEF LoadAt
  <1>14. CASE i = L
    <2>1. end > L /\ i <= L /\ i + 1 > Len(d) /\ i + 1 \in Nat
      BY <1>2, <1>14 DEF L
    <2>2. BodyAt(d, i) = i + 1 /\ ~Is(d, i + 1, "{") /\ ~Is(d, i + 1, "}")
      BY <2>1, NothingBehind DEF BodyAt
    <2>3. Is(d, i, "{")
      BY <1>6, <2>1
    <2>4. LoadAt(d, f, i) = Refused
      BY <2>2, <2>3 DEF LoadAt, Closed
    <2> QED
      BY <1>11, <1>12, <2>1, <2>4
  <1>15. CASE i + 1 = L
    <2>1. end > L /\ i <= L /\ i + 1 <= L /\ i + 2 > Len(d) /\ i + 2 \in Nat
      BY <1>2, <1>15 DEF L
    <2>2. BodyAt(d, i) = i + 2 /\ ~Is(d, i + 2, "{") /\ ~Is(d, i + 2, "}")
      BY <1>7, <2>1, NothingBehind
    <2>3. Is(d, i, "{")
      BY <1>6, <2>1
    <2>4. LoadAt(d, f, i) = Refused
      BY <2>2, <2>3 DEF LoadAt, Closed
    <2> QED
      BY <1>11, <1>12, <2>1, <2>4
  <1>16. CASE i + 2 <= L
    <2>1. i <= L /\ i + 1 <= L /\ i + 2 \in Nat /\ 1 <= i + 2 /\ i + 2 <= Len(d)
      BY <1>2, <1>16 DEF L
    <2>2. Is(d, i, "{") /\ NumbersAt(d, i) = Numbers(n) /\ BodyAt(d, i) = i + 2
      BY <1>6, <1>7, <2>1
    <2>3. n.left \in Tree0 /\ n.right \in Tree0
      BY ChildFacts
    <2>4. CASE n.left = nullptr /\ n.right = nullptr
      <3>1. a = 0 /\ b = 0
        BY <2>4, DumpOf DEF Size, a, b
      <3>2. end = i + 2
        BY <1>2, <3>1
      <3>3. Straightened[n] = new_node(n.type, n.data, nullptr, nullptr)
        BY <2>4, StraightOf
      <3>4. BodyAt(d, i) = end /\ end <= L
        BY <1>16, <2>2, <3>2
      <3> HIDE DEF end
      <3>5. ~Is(d, end, "{") /\ Closed(d, Numbers(n), nullptr, nullptr, end) = Read(Straightened[n], end + 1)
        BY <1>18, <3>3, <3>4
      <3>6. LoadAt(d, f, i) = Read(Straightened[n], end + 1)
        BY <2>2, <3>4, <3>5 DEF LoadAt
      <3> QED
        BY <1>11, <1>12, <3>4, <3>6
    <2>5. ASSUME NEW c \in Nodes, ReadsAs(d, c), Agrees(d, i + 2, c), end = i + 2 + Size(c),
                 Straightened[n] = new_node(n.type, n.data, nullptr, Straightened[c])
          PROVE  f[i] = Expected(d, i, n)
      <3> DEFINE first == f[i + 2]
      <3>1. /\ Is(d, i + 2, "{")
            /\ i + 2 + Size(c) > Len(d) + 1 => first = Refused
            /\ i + 2 + Size(c) <= Len(d) + 1 =>
                 first # Refused /\ first.node = Straightened[c] /\ first.next = i + 2 + Size(c)
        BY <2>1, <2>5, ChildReads
      <3>2. CASE end > L + 1
        <4>1. first = Refused /\ end > L
          <5>1. end > L
            BY <1>2, <1>10, <3>2
          <5>2. first = Refused
            BY <2>5, <3>1, <3>2 DEF L
          <5> QED
            BY <5>1, <5>2
        <4>2. LoadAt(d, f, i) = Refused
          BY <2>2, <3>1, <4>1 DEF LoadAt
        <4> QED
          BY <1>11, <1>12, <4>1, <4>2
      <3>3. CASE end <= L + 1
        <4>1. first # Refused /\ first.node = Straightened[c] /\ first.next = end
          BY <2>5, <3>1, <3>3 DEF L
        <4>2. /\ ~Is(d, end, "{")
              /\ end > L => Closed(d, Numbers(n), Straightened[c], nullptr, end) = Refused
              /\ end <= L => Closed(d, Numbers(n), Straightened[c], nullptr, end) = Read(Straightened[n], end + 1)
          <5> HIDE DEF end
          <5> QED
            BY <1>18, <2>5
        <4> HIDE DEF end
        <4>3. LoadAt(d, f, i) = Closed(d, Numbers(n), Straightened[c], nullptr, end)
          BY <2>2, <3>1, <4>1, <4>2 DEF LoadAt
        <4>4. end > L \/ end <= L
          BY <1>2, <1>10
        <4> QED
          BY <1>11, <1>12, <4>2, <4>3, <4>4
      <3>4. end > L + 1 \/ end <= L + 1
        BY <1>2, <1>10
      <3> QED
        BY <3>2, <3>3, <3>4
    <2>6. CASE n.left # nullptr /\ n.right = nullptr
      <3>1. b = 0 /\ n.left \in Nodes
        BY <2>3, <2>6, DumpOf DEF Size, b, Tree0
      <3>2. end = i + 2 + Size(n.left)
        BY <1>2, <3>1 DEF a
      <3>3. Straightened[n] = new_node(n.type, n.data, nullptr, Straightened[n.left])
        BY <2>6, StraightOf
      <3> HIDE DEF end
      <3> QED
        BY <1>8, <2>5, <2>6, <3>1, <3>2, <3>3
    <2>7. CASE n.left = nullptr /\ n.right # nullptr
      <3>1. a = 0 /\ n.right \in Nodes
        BY <2>3, <2>7, DumpOf DEF Size, a, Tree0
      <3>2. end = i + 2 + Size(n.right) /\ i + 2 + a = i + 2
        BY <1>2, <3>1 DEF b
      <3>3. Straightened[n] = new_node(n.type, n.data, nullptr, Straightened[n.right])
        BY <2>7, StraightOf
      <3> HIDE DEF end
      <3> QED
        BY <1>9, <2>5, <2>7, <3>1, <3>2, <3>3
    <2>8. CASE n.left # nullptr /\ n.right # nullptr
      <3> DEFINE first  == f[i + 2]
                 mid    == i + 2 + a
                 second == f[mid]
      <3>1. n.left \in Nodes /\ n.right \in Nodes
        BY <2>3, <2>8 DEF Tree0
      <3>2. /\ Is(d, i + 2, "{")
            /\ mid > L + 1 => first = Refused
            /\ mid <= L + 1 => first # Refused /\ first.node = Straightened[n.left] /\ first.next = mid
        BY <1>8, <2>1, <2>8, <3>1, ChildReads DEF L, a
      <3>3. mid \in Nat /\ 1 <= mid /\ end = mid + b
        BY <1>2
      <3>4. 3 <= b
        BY <3>1, DumpPlaces DEF b
      <3> HIDE DEF mid, end
      <3>5. Straightened[n] = new_node(n.type, n.data, Straightened[n.left], Straightened[n.right])
        BY <2>8, StraightOf
      <3>6. CASE mid > L + 1
        <4>1. first = Refused /\ end > L
          <5>1. end > L
            BY <1>2, <3>3, <3>4, <3>6
          <5> QED
            BY <3>2, <3>6, <5>1
        <4>2. LoadAt(d, f, i) = Refused
          BY <2>2, <3>2, <4>1 DEF LoadAt
        <4> QED
          BY <1>11, <1>12, <4>1, <4>2
      <3>7. CASE mid = L + 1
        <4>1. first # Refused /\ first.next = mid /\ first.node = Straightened[n.left] /\ end > L /\ mid > Len(d)
          <5>1. mid <= L + 1 /\ end > L /\ mid > L
            BY <1>2, <3>3, <3>4, <3>7
          <5> QED
            BY <3>2, <5>1 DEF L
        <4>2. ~Is(d, mid, "{") /\ ~Is(d, mid, "}")
          BY <3>3, <4>1, NothingBehind
        <4>3. LoadAt(d, f, i) = Refused
          BY <2>2, <3>2, <4>1, <4>2 DEF LoadAt, Closed
        <4> QED
          BY <1>11, <1>12, <4>1, <4>3
      <3>8. CASE mid <= L
        <4>1. first # Refused /\ first.next = mid /\ first.node = Straightened[n.left] /\ mid <= Len(d)
          <5>1. mid <= L + 1
            BY <1>2, <3>3, <3>8
          <5> QED
            BY <3>2, <3>8, <5>1 DEF L
        <4>2. /\ Is(d, mid, "{")
              /\ end > L + 1 => second = Refused
              /\ end <= L + 1 => second # Refused /\ second.node = Straightened[n.right] /\ second.next = end
          BY <1>9, <2>8, <3>1, <3>3, <4>1, ChildReads DEF L, b, mid
        <4>3. CASE end > L + 1
          <5>1. second = Refused /\ end > L
            <6>1. end > L
              BY <1>2, <1>10, <4>3
            <6> QED
              BY <4>2, <4>3, <6>1
          <5>2. LoadAt(d, f, i) = Refused
            BY <2>2, <3>2, <4>1, <4>2, <5>1 DEF LoadAt
          <5> QED
            BY <1>11, <1>12, <5>1, <5>2
        <4>4. CASE end <= L + 1
          <5>1. second # Refused /\ second.node = Straightened[n.right] /\ second.next = end
            BY <4>2, <4>4
          <5>2. LoadAt(d, f, i) = Closed(d, Numbers(n), Straightened[n.left], Straightened[n.right], end)
            BY <2>2, <3>2, <4>1, <4>2, <5>1 DEF LoadAt
          <5>3. Straightened[n.right] # nullptr
            BY <3>1, NullAssumption
          <5>4. /\ end > L => Closed(d, Numbers(n), Straightened[n.left], Straightened[n.right], end) = Refused
                /\ end <= L => Closed(d, Numbers(n), Straightened[n.left], Straightened[n.right], end)
                                 = Read(Straightened[n], end + 1)
            BY <1>18, <3>5, <5>3
          <5>5. end > L \/ end <= L
            BY <1>2, <1>10
          <5> QED
            BY <1>11, <1>12, <5>2, <5>4, <5>5
        <4>5. end > L + 1 \/ end <= L + 1
          BY <1>2, <1>10
        <4> QED
          BY <4>3, <4>4, <4>5
      <3>9. mid > L + 1 \/ mid = L + 1 \/ mid <= L
        BY <1>2, <3>3
      <3> QED
        BY <3>6, <3>7, <3>8, <3>9
    <2> QED
      BY <2>4, <2>6, <2>7, <2>8
  <1>17. i = L + 1 \/ i = L \/ i + 1 = L \/ i + 2 <= L
    BY <1>2
  <1> QED
    BY <1>13, <1>14, <1>15, <1>16, <1>17

\* A dump that agrees with that of a tree is read as expected.
LEMMA TreeReads ==
    ASSUME NEW d \in Seq(Tokens), NEW n \in Nodes
    PROVE  ReadsAs(d, n)
  <1> DEFINE Wrong == {x \in Nodes : ~ReadsAs(d, x)}
  <1>1. SUFFICES ASSUME Wrong # {} PROVE FALSE
    OBVIOUS
  <1>2. PICK x \in Wrong : \A y \in Wrong : Depth[x] <= Depth[y]
    <2>1. Wrong \subseteq Nodes
      OBVIOUS
    <2> HIDE DEF Wrong
    <2> QED
      BY <1>1, <2>1, LeastNode
  <1>3. ASSUME NEW y \in {x.left, x.right}, y # nullptr PROVE ReadsAs(d, y)
    <2>1. x \in Nodes /\ y \in Nodes /\ Depth[y] < Depth[x] /\ Depth[y] \in Nat /\ Depth[x] \in Nat
      BY <1>3, ChildFacts, FiniteAssumption
    <2>2. ~(Depth[x] <= Depth[y])
      BY <2>1
    <2>3. y \notin Wrong
      <3> HIDE DEF Wrong
      <3> QED
        BY <1>2, <2>2
    <2> QED
      BY <2>1, <2>3
  <1>4. ReadsAs(d, x)
    BY <1>3, NodeReads
  <1> QED
    BY <1>4
-----------------------------------------------------------------------------
(* What load_tree makes of a dump.                                         *)

\* No brace opens before i.
NoneOpens(d, i) == \A j \in 1 .. i - 1 : d[j].kind # "{"

LEMMA LengthFacts ==
    ASSUME NEW d \in Seq(Tokens)
    PROVE  Len(d) \in Nat /\ DOMAIN d = 1 .. Len(d)
  OBVIOUS

\* The arithmetic of places.
LEMMA PlaceFacts ==
    ASSUME NEW L \in Nat, NEW i \in 1 .. L
    PROVE  /\ i \in Nat /\ i \in 1 .. L + 1 /\ i + 1 - 1 = i /\ i <= L
           /\ \A k \in 1 .. L : ~(k \in 1 .. i - 1) /\ ~(i \in 1 .. k - 1) => k = i
           /\ \A z \in Nat : i + z > L + 1 => ~(i + z <= L + 1)
           /\ \A z \in Nat : 3 <= z => 1 \in 1 .. z
  OBVIOUS

LEMMA SizeFacts ==
    ASSUME NEW n \in Nodes
    PROVE  Size(n) \in Nat /\ 3 <= Size(n) /\ dfs_recursion[n][1] = OpenBrace
  BY DumpPlaces

LEMMA LoadAgreeing ==
    ASSUME NEW d \in Seq(Tokens), NEW n \in Nodes, NEW i \in 1 .. Len(d), Agrees(d, i, n),
           NoneOpens(d, i)
    PROVE  /\ HasTree(d)
           /\ i + Size(n) <= Len(d) + 1 => load_tree(d) = Straightened[n]
           /\ i + Size(n) > Len(d) + 1 => load_tree(d) = nullptr
  <1>0. Len(d) \in Nat /\ DOMAIN d = 1 .. Len(d)
    BY LengthFacts
  <1>1. Len(d) \in Nat /\ DOMAIN d = 1 .. Len(d) /\ i \in Nat /\ i \in 1 .. Len(d) + 1
    BY <1>0, PlaceFacts
  <1>2. Size(n) \in Nat /\ 1 \in 1 .. Size(n) /\ dfs_recursion[n][1] = OpenBrace /\ i + 1 - 1 = i /\ i <= Len(d)
    <2>1. Size(n) \in Nat /\ 3 <= Size(n) /\ dfs_recursion[n][1] = OpenBrace
      BY SizeFacts
    <2>2. 1 \in 1 .. Size(n) /\ i + 1 - 1 = i /\ i <= Len(d)
      BY <1>1, <2>1, PlaceFacts
    <2> QED
      BY <2>1, <2>2
  <1>3. i \in DOMAIN d /\ d[i].kind = "{"
    BY <1>1, <1>2, Kinds DEF Agrees
  <1> DEFINE Start(k) == d[k].kind = "{" /\ \A j \in 1 .. k - 1 : d[j].kind # "{"
  <1>4. ASSUME NEW k \in DOMAIN d, Start(k) PROVE k = i
    <2>1. ~(k \in 1 .. i - 1) /\ ~(i \in 1 .. k - 1)
      BY <1>3, <1>4 DEF NoneOpens
    <2>2. k \in 1 .. Len(d) /\ i \in 1 .. Len(d)
      BY <1>1
    <2> HIDE DEF Start
    <2> QED
      BY <1>1, <2>1, <2>2, PlaceFacts
  <1>5. (CHOOSE k \in DOMAIN d : Start(k)) = i
    <2>1. Start(i)
      BY <1>3 DEF NoneOpens
    <2> HIDE DEF Start
    <2> QED
      BY <1>3, <1>4, <2>1
  <1>6. load_tree(d) = load_subtree(d)[i].node
    BY <1>5 DEF load_tree
  <1>7. load_subtree(d)[i] = Expected(d, i, n)
    BY <1>1, TreeReads DEF ReadsAs
  <1>8. i + Size(n) > Len(d) + 1 => ~(i + Size(n) <= Len(d) + 1)
    BY <1>1, <1>2, PlaceFacts
  <1>9. HasTree(d)
    BY <1>3 DEF HasTree
  <1> DEFINE fits == i + Size(n) <= Len(d) + 1
             next == i + Size(n)
  <1>10. load_tree(d) = IF fits THEN Read(Straightened[n], next).node ELSE Refused.node
    BY <1>6, <1>7 DEF Expected
  <1> HIDE DEF fits, next
  <1>11. (fits => load_tree(d) = Straightened[n]) /\ (~fits => load_tree(d) = nullptr)
    BY <1>10 DEF Read, Refused
  <1> QED
    BY <1>8, <1>9, <1>11 DEF fits

\* The places of a dump that stands somewhere in a file.
LEMMA SurroundedAgrees ==
    ASSUME NEW before \in Seq(Tokens), NEW n \in Nodes, NEW after \in Seq(Tokens)
    PROVE  LET d == before \o save_tree(n) \o after IN
           /\ d \in Seq(Tokens)
           /\ Len(d) = Len(before) + Size(n) + Len(after)
           /\ Len(before) \in Nat /\ Size(n) \in Nat /\ Len(after) \in Nat
           /\ \A j \in 1 .. Len(before) : d[j] = before[j]
           /\ Agrees(d, Len(before) + 1, n)
  <1> DEFINE t == save_tree(n)
             u == before \o t
             d == u \o after
  <1>1. t \in Seq(Tokens) /\ Size(n) = Len(t)
    BY DumpIsTokens DEF save_tree, Size, Tree0
  <1> HIDE DEF t
  <1>2. Len(before) \in Nat /\ Len(t) \in Nat /\ Len(after) \in Nat
    BY <1>1
  <1>3. /\ u \in Seq(Tokens) /\ Len(u) = Len(before) + Len(t)
        /\ \A j \in 1 .. Len(before) : u[j] = before[j]
        /\ \A j \in 1 .. Len(t) : u[Len(before) + j] = t[j]
    BY <1>1, Behind
  <1> HIDE DEF u
  <1>4. /\ d \in Seq(Tokens) /\ Len(d) = Len(u) + Len(after)
        /\ \A j \in 1 .. Len(u) : d[j] = u[j]
    BY <1>3, Behind
  <1> HIDE DEF d
  <1>5. ASSUME NEW j \in 1 .. Len(before) PROVE d[j] = before[j]
    <2>1. j \in 1 .. Len(u)
      BY <1>2, <1>3
    <2> QED
      BY <1>3, <1>4, <2>1
  <1>6. ASSUME NEW j \in 1 .. Len(t) PROVE d[Len(before) + 1 + j - 1] = t[j]
    <2>1. Len(before) + j \in 1 .. Len(u) /\ Len(before) + 1 + j - 1 = Len(before) + j
      BY <1>2, <1>3
    <2> QED
      BY <1>3, <1>4, <2>1
  <1>7. Agrees(d, Len(before) + 1, n)
    <2>1. t = dfs_recursion[n]
      BY DEF t, save_tree
    <2> QED
      BY <1>1, <1>6, <2>1 DEF Agrees
  <1>8. Len(d) = Len(before) + Size(n) + Len(after)
    BY <1>1, <1>2, <1>3, <1>4
  <1>9. d = before \o save_tree(n) \o after
    BY DEF d, u, t
  <1> QED
    BY <1>1, <1>2, <1>4, <1>5, <1>7, <1>8, <1>9

\* A tree that save_tree has written, with any text around it that does not
\* open a brace before it, is the tree that load_tree reads, with every only
\* child on the right (src/src/lib/tree.cpp: load_tree, load_subtree).
THEOREM SavedTreesLoad ==
    ASSUME NEW before \in Seq(Tokens), NEW n \in Nodes, NEW after \in Seq(Tokens),
           NoneOpens(before, Len(before) + 1)
    PROVE  load_tree(before \o save_tree(n) \o after) = Straightened[n]
  <1> DEFINE d == before \o save_tree(n) \o after
             L == Len(d)
             x == Len(before)
             y == Size(n)
             z == Len(after)
             i == x + 1
  <1>1. /\ d \in Seq(Tokens)
        /\ L = x + y + z
        /\ x \in Nat /\ y \in Nat /\ z \in Nat
        /\ \A j \in 1 .. x : d[j] = before[j]
        /\ Agrees(d, i, n)
    BY SurroundedAgrees
  <1>2. 3 <= y
    BY SizeFacts
  <1> HIDE DEF d, L, x, y, z
  <1>4. i \in 1 .. L /\ i + y <= L + 1 /\ i - 1 = x
    <2>1. L = x + y + z /\ x \in Nat /\ y \in Nat /\ z \in Nat
      BY <1>1
    <2>2. x + 1 <= L /\ 1 <= x + 1 /\ L \in Nat
      BY <1>2, <2>1
    <2>3. i + y <= L + 1
      BY <1>2, <2>1
    <2>4. i - 1 = x
      BY <2>1
    <2> QED
      BY <2>1, <2>2, <2>3, <2>4
  <1>5. NoneOpens(d, i)
    BY <1>1, <1>4 DEF NoneOpens, x
  <1> HIDE DEF i
  <1>6. load_tree(d) = Straightened[n]
    BY <1>1, <1>4, <1>5, LoadAgreeing DEF L, y
  <1> QED
    BY <1>6 DEF d

\* A dump that was cut off, wherever that was, is refused.
THEOREM CutTreesAreRefused ==
    ASSUME NEW n \in Nodes, NEW k \in 1 .. Len(save_tree(n)) - 1
    PROVE  load_tree(SubSeq(save_tree(n), 1, k)) = nullptr
  <1> DEFINE t == save_tree(n)
             d == SubSeq(t, 1, k)
  <1>1. t \in Seq(Tokens) /\ Size(n) = Len(t) /\ t = dfs_recursion[n]
    BY DumpIsTokens DEF save_tree, Size, Tree0
  <1> HIDE DEF t
  <1>2. Len(t) \in Nat /\ k \in Nat /\ 1 <= k /\ k < Len(t)
    BY <1>1 DEF t
  <1>3. d \in Seq(Tokens) /\ Len(d) = k /\ \A j \in 1 .. k : d[j] = t[j]
    BY <1>1, <1>2
  <1> HIDE DEF d
  <1>4. Agrees(d, 1, n)
    <2>1. ASSUME NEW j \in 1 .. Size(n), 1 + j - 1 <= Len(d) PROVE d[1 + j - 1] = t[j]
      <3>1. 1 + j - 1 = j /\ j \in 1 .. k
        BY <1>1, <1>2, <1>3, <2>1
      <3> QED
        BY <1>3, <3>1
    <2> QED
      BY <1>1, <2>1 DEF Agrees
  <1>5. 1 \in 1 .. Len(d) /\ 1 + Size(n) > Len(d) + 1 /\ NoneOpens(d, 1)
    BY <1>1, <1>2, <1>3 DEF NoneOpens
  <1>6. load_tree(d) = nullptr
    BY <1>3, <1>4, <1>5, LoadAgreeing
  <1> QED
    BY <1>6 DEF d, t

\* So are its dump alone, with text before it, and with anything behind it.
LEMMA LoadFirst ==
    ASSUME NEW d \in Seq(Tokens), NEW n \in Nodes, Size(n) <= Len(d),
           \A j \in 1 .. Size(n) : d[j] = save_tree(n)[j]
    PROVE  load_tree(d) = Straightened[n]
  <1>1. Size(n) \in Nat /\ 3 <= Size(n) /\ Len(d) \in Nat
    BY SizeFacts, LengthFacts
  <1>2. Agrees(d, 1, n)
    <2>1. ASSUME NEW j \in 1 .. Size(n) PROVE d[1 + j - 1] = dfs_recursion[n][j]
      <3>1. 1 + j - 1 = j
        OBVIOUS
      <3> QED
        BY <3>1 DEF save_tree
    <2> QED
      BY <2>1 DEF Agrees
  <1>3. 1 \in 1 .. Len(d) /\ 1 + Size(n) <= Len(d) + 1 /\ NoneOpens(d, 1)
    BY <1>1 DEF NoneOpens
  <1> QED
    BY <1>2, <1>3, LoadAgreeing

LEMMA LoadSecond ==
    ASSUME NEW d \in Seq(Tokens), NEW n \in Nodes, Size(n) + 1 <= Len(d), d[1] = Junk,
           \A j \in 1 .. Size(n) : d[1 + j] = save_tree(n)[j]
    PROVE  load_tree(d) = Straightened[n]
  <1>1. Size(n) \in Nat /\ 3 <= Size(n) /\ Len(d) \in Nat
    BY SizeFacts, LengthFacts
  <1>2. Agrees(d, 2, n)
    <2>1. ASSUME NEW j \in 1 .. Size(n) PROVE d[2 + j - 1] = dfs_recursion[n][j]
      <3>1. 2 + j - 1 = 1 + j
        OBVIOUS
      <3> QED
        BY <3>1 DEF save_tree
    <2> QED
      BY <2>1 DEF Agrees
  <1>3. 2 \in 1 .. Len(d) /\ 2 + Size(n) <= Len(d) + 1
    BY <1>1
  <1>4. NoneOpens(d, 2)
    <2>1. \A j \in 1 .. 2 - 1 : j = 1
      OBVIOUS
    <2> QED
      BY <2>1, Kinds DEF NoneOpens
  <1> QED
    BY <1>2, <1>3, <1>4, LoadAgreeing
-----------------------------------------------------------------------------

Before  == {"main", "mmap_file_or_warn", "load_tree", "ir_code_new", "from_ast", "x64_code_new",
            "translate_from_ir", "open_file_or_warn"}
Writing == {"write_headers", "seek_stdlib", "load_stdlib", "seek_code", "write_code", "fclose"}

Written(part) == disk_full \/ part \in binary \cup stream

\* After an error the file is the earlier one, or the disk has refused data.
Failed == \/ binary = {"earlier"} /\ disk_full = FALSE
          \/ binary \subseteq Parts /\ "code" \notin binary /\ disk_full = TRUE

Concluded ==
    \/ res = "none" /\ binary = {"earlier"} /\ disk_full = FALSE /\ "parameters" \in printed
    \/ res = "ERROR" /\ Failed /\ "failed" \in printed
    \/ /\ res = "OK" /\ binary \subseteq Parts /\ exec_buf_size \in CodeSizes
       /\ disk_full \/ ({"headers", "code"} \subseteq binary /\ (stdlib_found => "stdlib" \in binary))

Files ==
    /\ at \in Calls /\ stream \subseteq Parts /\ disk_full \in BOOLEAN /\ stdlib_found \in BOOLEAN
    /\ at \in Before =>
         res = "none" /\ binary = {"earlier"} /\ stream = {} /\ disk_full = FALSE
    /\ at = "open_file_or_warn" => exec_buf_size \in CodeSizes
    /\ at \in Writing =>
         res = "none" /\ binary \subseteq Parts /\ exec_buf_size \in CodeSizes
    /\ at \in Writing \ {"fclose"} => "code" \notin binary \cup stream
    /\ at \in Writing \ {"write_headers"} => Written("headers")
    /\ at \in {"seek_code", "write_code", "fclose"} /\ stdlib_found => Written("stdlib")
    /\ at = "fclose" => Written("code") /\ ("code" \in binary => stream = {})
    /\ at = "report" => res = "ERROR" /\ Failed
    /\ at = "return" => Concluded
    /\ exit_code = "signal" => at = "exit"
    /\ at = "exit" => Concluded \/ (exit_code = "signal" /\ res = "none" /\ binary = {"earlier"})
-----------------------------------------------------------------------------
\* What a flush does: the parts are in the file, or the disk is full.
LEMMA FlushWrites ==
    ASSUME NEW STATE parts, Flush(parts), disk_full \in BOOLEAN
    PROVE  /\ disk_full' \in BOOLEAN
           /\ disk_full = TRUE => disk_full' = TRUE
           /\ binary \subseteq binary' /\ binary' \subseteq binary \cup parts
           /\ disk_full' = TRUE \/ binary' = binary \cup parts
           /\ binary' = binary \/ disk_full' = FALSE
  <1>1. CASE parts = {} /\ UNCHANGED << binary, disk_full >>
    BY <1>1
  <1>2. CASE parts # {} /\ ~disk_full /\ binary' = binary \cup parts /\ UNCHANGED disk_full
    <2>1. disk_full = FALSE
      BY <1>2
    <2> QED
      BY <1>2, <2>1
  <1>3. CASE parts # {} /\ disk_full' = TRUE /\ UNCHANGED binary
    BY <1>3
  <1> QED BY <1>1, <1>2, <1>3 DEF Flush

\* fwrite: the part, and what was in the buffer, are in the file, in the
\* buffer, or lost to a full disk.
LEMMA FwriteWrites ==
    ASSUME NEW CONSTANT part \in Parts, Fwrite(part), disk_full \in BOOLEAN, stream \subseteq Parts
    PROVE  /\ disk_full' \in BOOLEAN /\ stream' \subseteq Parts
           /\ disk_full = TRUE => disk_full' = TRUE
           /\ binary \subseteq binary'
           /\ binary' \cup stream' \subseteq binary \cup stream \cup {part}
           /\ disk_full' = TRUE \/ binary' \cup stream' = binary \cup stream \cup {part}
           /\ binary' = binary \/ disk_full' = FALSE
           /\ stream' = {} \/ binary' = binary
           /\ Refused_(part) => disk_full' = TRUE /\ stream' = {}
  <1>1. CASE Buffered(part)
    BY <1>1 DEF Fwrite, Refused_
  <1>2. CASE ~Buffered(part)
    <2>1. stream' = {} /\ Flush(stream \cup {part})
      BY <1>2 DEF Fwrite
    <2>2. /\ disk_full' \in BOOLEAN
          /\ disk_full = TRUE => disk_full' = TRUE
          /\ binary \subseteq binary' /\ binary' \subseteq binary \cup (stream \cup {part})
          /\ disk_full' = TRUE \/ binary' = binary \cup (stream \cup {part})
          /\ binary' = binary \/ disk_full' = FALSE
      BY <2>1, FlushWrites
    <2>3. ASSUME Refused_(part) PROVE disk_full' = TRUE
      <3>1. disk_full'
        BY <2>3 DEF Refused_
      <3> QED
        BY <2>2, <3>1
    <2>4. Refused_(part) => disk_full' = TRUE
      BY <2>3
    <2> QED
      BY <2>1, <2>2, <2>4
  <1> QED BY <1>1, <1>2
-----------------------------------------------------------------------------
LEMMA FilesInit == Init => Files
  BY DEF Init, Files, Before, Writing, Calls, Parts

\* The calls before the file is opened leave it alone.
LEMMA FilesBefore ==
    ASSUME Files,
           main \/ mmap_file_or_warn \/ load_tree_ \/ ir_code_new \/ from_ast \/ x64_code_new
             \/ translate_from_ir
    PROVE  Files'
  <1> USE DEF Files, Before, Writing, Calls, Then, Unwrap, Killed, files, objects, inputs
  <1>1. CASE main
    <2>1. Log("ERROR", "parameters") = {"parameters"}
      BY DEF Log, Logged, Level, LOG_LEVEL
    <2> QED
      BY <1>1, <2>1 DEF main, Concluded, Failed
  <1>2. CASE mmap_file_or_warn
    BY <1>2 DEF mmap_file_or_warn, Failed
  <1>3. CASE load_tree_
    BY <1>3 DEF load_tree_, Failed
  <1>4. CASE ir_code_new
    BY <1>4 DEF ir_code_new, Failed
  <1>5. CASE from_ast
    BY <1>5 DEF from_ast, Failed
  <1>6. CASE x64_code_new
    BY <1>6 DEF x64_code_new, Failed
  <1>7. CASE translate_from_ir
    BY <1>7 DEF translate_from_ir, Failed
  <1> QED
    BY <1>1, <1>2, <1>3, <1>4, <1>5, <1>6, <1>7

\* The calls of save.
LEMMA FilesWriting ==
    ASSUME Files,
           open_file_or_warn \/ write_headers \/ seek_stdlib \/ load_stdlib \/ seek_code
             \/ write_code \/ fclose
    PROVE  Files'
  <1> USE DEF Files, Before, Writing, Calls, Then, Unwrap, files, objects, inputs
  <1>p. "headers" \in Parts /\ "stdlib" \in Parts /\ "code" \in Parts
    BY DEF Parts
  <1>1. CASE open_file_or_warn
    BY <1>1 DEF open_file_or_warn, Failed
  <1>2. CASE write_headers
    <2>1. Fwrite("headers")
      BY <1>2 DEF write_headers
    <2>2. /\ disk_full' \in BOOLEAN /\ stream' \subseteq Parts
          /\ disk_full = TRUE => disk_full' = TRUE
          /\ binary \subseteq binary'
          /\ binary' \cup stream' \subseteq binary \cup stream \cup {"headers"}
          /\ disk_full' = TRUE \/ binary' \cup stream' = binary \cup stream \cup {"headers"}
          /\ binary' = binary \/ disk_full' = FALSE
          /\ Refused_("headers") => disk_full' = TRUE /\ stream' = {}
      BY <2>1, <1>p, FwriteWrites
    <2>3. CASE Refused_("headers")
      BY <1>2, <2>2, <2>3, <1>p DEF write_headers, Failed
    <2>4. CASE ~Refused_("headers")
      BY <1>2, <2>2, <2>4, <1>p DEF write_headers, Written
    <2> QED
      BY <2>3, <2>4
  <1>3. CASE seek_stdlib
    BY <1>3, FlushWrites DEF seek_stdlib, Fseek, Written
  <1>4. CASE load_stdlib
    <2>1. CASE stdlib_found = TRUE
      <3>1. Fwrite("stdlib")
        BY <1>4, <2>1 DEF load_stdlib
      <3>2. /\ disk_full' \in BOOLEAN /\ stream' \subseteq Parts
            /\ disk_full = TRUE => disk_full' = TRUE
            /\ binary \subseteq binary'
            /\ binary' \cup stream' \subseteq binary \cup stream \cup {"stdlib"}
            /\ disk_full' = TRUE \/ binary' \cup stream' = binary \cup stream \cup {"stdlib"}
            /\ binary' = binary \/ disk_full' = FALSE
            /\ Refused_("stdlib") => disk_full' = TRUE /\ stream' = {}
        BY <3>1, <1>p, FwriteWrites
      <3> QED
        BY <1>4, <2>1, <3>2, <1>p DEF load_stdlib, Written
    <2>2. CASE stdlib_found = FALSE
      BY <1>4, <2>2 DEF load_stdlib, Written
    <2> QED
      BY <2>1, <2>2
  <1>5. CASE seek_code
    BY <1>5, FlushWrites DEF seek_code, Fseek, Written
  <1>6. CASE write_code
    <2>1. Fwrite("code")
      BY <1>6 DEF write_code
    <2>2. /\ disk_full' \in BOOLEAN /\ stream' \subseteq Parts
          /\ disk_full = TRUE => disk_full' = TRUE
          /\ binary \subseteq binary'
          /\ binary' \cup stream' \subseteq binary \cup stream \cup {"code"}
          /\ disk_full' = TRUE \/ binary' \cup stream' = binary \cup stream \cup {"code"}
          /\ binary' = binary \/ disk_full' = FALSE
          /\ stream' = {} \/ binary' = binary
          /\ Refused_("code") => disk_full' = TRUE /\ stream' = {}
      BY <2>1, <1>p, FwriteWrites
    <2>3. CASE Refused_("code")
      BY <1>6, <2>2, <2>3, <1>p DEF write_code, Failed
    <2>4. CASE ~Refused_("code")
      BY <1>6, <2>2, <2>4, <1>p DEF write_code, Written
    <2> QED
      BY <2>3, <2>4
  <1>7. CASE fclose
    BY <1>7, FlushWrites DEF fclose, Concluded, Written
  <1> QED
    BY <1>1, <1>2, <1>3, <1>4, <1>5, <1>6, <1>7

LEMMA FilesNext == Files /\ [Next]_vars => Files'
  <1> SUFFICES ASSUME Files, [Next]_vars PROVE Files'
    OBVIOUS
  <1>1. CASE report
    <2>1. Log("ERROR", "failed") = {"failed"}
      BY DEF Log, Logged, Level, LOG_LEVEL
    <2> QED
      BY <1>1, <2>1 DEF report, Files, Before, Writing, Calls, Then, files, objects, Concluded, Failed
  <1>2. CASE return
    BY <1>2 DEF return, Files, Before, Writing, Calls, Then, files, objects, Concluded, Failed
  <1>3. CASE UNCHANGED vars
    BY <1>3 DEF vars, files, objects, Files, Concluded, Failed, Written
  <1> QED
    BY <1>1, <1>2, <1>3, FilesBefore, FilesWriting DEF Next, Ended
-----------------------------------------------------------------------------
\* The values that Promised gives to the variables of Delivery.
Stage  == IF "earlier" \in binary THEN "earlier" ELSE IF Executable THEN "whole" ELSE "begun"
Answer == IF at # "exit" THEN "none" ELSE IF exit_code = "signal" THEN "killed"
          ELSE IF res = "OK" THEN "success" ELSE "failure"

LEMMA Mapping ==
    /\ Promised!delivery = << Stage, Answer, disk_full >>
    /\ Promised!delivery' = << Stage', Answer', disk_full' >>
    /\ Promised!Begin <=> (Answer = "none" /\ Stage = "earlier" /\ Stage' = "begun"
                           /\ Answer' = Answer /\ disk_full' = disk_full)
    /\ Promised!Break <=> (Answer = "none" /\ Stage = "begun" /\ disk_full' = TRUE
                           /\ Stage' = Stage /\ Answer' = Answer)
    /\ Promised!Complete <=> (Answer = "none" /\ Stage = "begun" /\ ~disk_full /\ Stage' = "whole"
                              /\ Answer' = Answer /\ disk_full' = disk_full)
    /\ Promised!Announce <=> (Answer = "none" /\ (Stage = "whole" \/ (Stage = "begun" /\ disk_full))
                              /\ Answer' = "success" /\ Stage' = Stage /\ disk_full' = disk_full)
    /\ Promised!GiveUp <=> (Answer = "none" /\ Stage # "whole" /\ Answer' \in {"failure", "killed"}
                            /\ (Stage = "begun" => (Answer' = "failure" /\ disk_full))
                            /\ Stage' = Stage /\ disk_full' = disk_full)
  BY DEF Stage, Answer, Promised!delivery, Promised!Begin, Promised!Break, Promised!Complete,
         Promised!Announce, Promised!GiveUp

\* The calls of save only add to the file, and a full disk stays full.
LEMMA WritingAdds ==
    ASSUME Files, write_headers \/ seek_stdlib \/ load_stdlib \/ seek_code \/ write_code \/ fclose
    PROVE  /\ at \in Writing /\ at' # "exit" /\ exec_buf_size' = exec_buf_size
           /\ binary \subseteq binary' /\ binary' \subseteq Parts
           /\ disk_full \in BOOLEAN /\ disk_full' \in BOOLEAN
           /\ disk_full = TRUE => disk_full' = TRUE
           /\ binary' = binary \/ disk_full' = FALSE
           /\ "code" \in binary => binary' = binary /\ disk_full' = disk_full
  <1> USE DEF Files, Writing, Then, Unwrap, files, objects, inputs
  <1>p. "headers" \in Parts /\ "stdlib" \in Parts /\ "code" \in Parts
    BY DEF Parts
  <1>1. CASE write_headers
    <2>1. Fwrite("headers")
      BY <1>1 DEF write_headers
    <2> QED
      BY <1>1, <2>1, <1>p, FwriteWrites DEF write_headers
  <1>2. CASE seek_stdlib
    BY <1>2, FlushWrites DEF seek_stdlib, Fseek
  <1>3. CASE load_stdlib
    <2>1. CASE stdlib_found = TRUE
      <3>1. Fwrite("stdlib")
        BY <1>3, <2>1 DEF load_stdlib
      <3> QED
        BY <1>3, <3>1, <1>p, FwriteWrites DEF load_stdlib
    <2>2. CASE stdlib_found = FALSE
      BY <1>3, <2>2 DEF load_stdlib
    <2> QED
      BY <2>1, <2>2
  <1>4. CASE seek_code
    BY <1>4, FlushWrites DEF seek_code, Fseek
  <1>5. CASE write_code
    <2>1. Fwrite("code")
      BY <1>5 DEF write_code
    <2> QED
      BY <1>5, <2>1, <1>p, FwriteWrites DEF write_code
  <1>6. CASE fclose
    <2>1. CASE "code" \in binary
      <3>1. stream = {} /\ Flush(stream)
        BY <1>6, <2>1 DEF fclose
      <3>2. UNCHANGED << binary, disk_full >>
        BY <3>1 DEF Flush
      <3> QED
        BY <1>6, <2>1, <3>2 DEF fclose
    <2>2. CASE "code" \notin binary
      <3>1. Flush(stream)
        BY <1>6 DEF fclose
      <3>2. /\ disk_full' \in BOOLEAN
            /\ disk_full = TRUE => disk_full' = TRUE
            /\ binary \subseteq binary' /\ binary' \subseteq binary \cup stream
            /\ binary' = binary \/ disk_full' = FALSE
        BY <3>1, FlushWrites
      <3> QED
        BY <1>6, <2>2, <3>2 DEF fclose
    <2> QED
      BY <2>1, <2>2
  <1> QED
    BY <1>1, <1>2, <1>3, <1>4, <1>5, <1>6

\* Every step of the driver is one of Delivery, or changes nothing it sees.
LEMMA StepDelivers ==
    ASSUME Files, [Next]_vars
    PROVE  [Promised!DeliveryNext]_(Promised!delivery)
  <1> SUFFICES \/ Promised!Begin \/ Promised!Break \/ Promised!Complete \/ Promised!Announce
               \/ Promised!GiveUp
               \/ Stage' = Stage /\ Answer' = Answer /\ disk_full' = disk_full
    BY Mapping DEF Promised!DeliveryNext
  <1>1. CASE \/ main \/ mmap_file_or_warn \/ load_tree_ \/ ir_code_new \/ from_ast
             \/ x64_code_new \/ translate_from_ir
    <2>1. /\ at # "exit" /\ "earlier" \in binary /\ binary' = binary /\ disk_full' = disk_full
          /\ at' = "exit" => exit_code' = "signal"
      BY <1>1 DEF main, mmap_file_or_warn, load_tree_, ir_code_new, from_ast, x64_code_new,
                  translate_from_ir, Then, Unwrap, Killed, Files, Before, files
    <2>2. Stage = "earlier" /\ Stage' = Stage /\ Answer = "none" /\ Answer' \in {"none", "killed"}
      BY <2>1 DEF Stage, Answer
    <2> QED
      BY <2>1, <2>2, Mapping
  <1>2. CASE open_file_or_warn
    <2>1. /\ at # "exit" /\ at' # "exit" /\ "earlier" \in binary /\ disk_full' = disk_full
          /\ binary' = binary \/ binary' = {}
      BY <1>2 DEF open_file_or_warn, Then, Unwrap, Files, Before
    <2>2. /\ Stage = "earlier" /\ Stage' \in {"earlier", "begun"}
          /\ Answer = "none" /\ Answer' = Answer
      BY <2>1 DEF Stage, Answer, Executable
    <2> QED
      BY <2>1, <2>2, Mapping
  <1>3. CASE write_headers \/ seek_stdlib \/ load_stdlib \/ seek_code \/ write_code \/ fclose
    <2>1. /\ at \in Writing /\ at' # "exit" /\ exec_buf_size' = exec_buf_size
          /\ binary \subseteq binary' /\ binary' \subseteq Parts
          /\ disk_full \in BOOLEAN /\ disk_full' \in BOOLEAN
          /\ disk_full = TRUE => disk_full' = TRUE
          /\ binary' = binary \/ disk_full' = FALSE
          /\ "code" \in binary => binary' = binary /\ disk_full' = disk_full
      BY <1>3, WritingAdds
    <2>2. Answer = "none" /\ Answer' = Answer
      BY <2>1 DEF Answer, Writing
    <2>3. Stage \in {"begun", "whole"} /\ Stage' \in {"begun", "whole"}
      BY <2>1 DEF Stage, Parts
    <2>4. binary' = binary => Stage' = Stage
      BY <2>1 DEF Stage, Executable
    <2>5. Stage = "whole" => Stage' = Stage /\ disk_full' = disk_full
      BY <2>1, <2>4 DEF Stage, Executable
    <2>6. Stage' # Stage => disk_full = FALSE /\ disk_full' = FALSE
      BY <2>1, <2>4
    <2>7. disk_full' = disk_full \/ disk_full' = TRUE
      BY <2>1
    <2> QED
      BY <2>1, <2>2, <2>3, <2>5, <2>6, <2>7, Mapping
  <1>4. CASE report
    <2>1. /\ at # "exit" /\ at' # "exit" /\ binary' = binary /\ disk_full' = disk_full
          /\ exec_buf_size' = exec_buf_size
      BY <1>4 DEF report, Then, files, objects
    <2> QED
      BY <2>1 DEF Stage, Answer, Executable
  <1>5. CASE return
    <2>1. /\ at # "exit" /\ at' = "exit" /\ binary' = binary /\ disk_full' = disk_full
          /\ exec_buf_size' = exec_buf_size /\ res' = res /\ exit_code' # "signal"
          /\ Concluded
      BY <1>5 DEF return, Then, files, objects, Files
    <2>2. Answer = "none" /\ Stage' = Stage /\ Answer' = (IF res = "OK" THEN "success" ELSE "failure")
      BY <2>1 DEF Answer, Stage, Executable
    <2>3. CASE res = "OK"
      <3>1. Stage = "whole" \/ (Stage = "begun" /\ disk_full)
        BY <2>1, <2>3 DEF Concluded, Stage, Executable, Parts
      <3> QED
        BY <2>1, <2>2, <2>3, <3>1, Mapping
    <2>4. CASE res # "OK"
      <3>1. Stage = "earlier" \/ (Stage = "begun" /\ disk_full = TRUE)
        BY <2>1, <2>4 DEF Concluded, Failed, Stage, Executable, Parts
      <3> QED
        BY <2>1, <2>2, <2>4, <3>1, Mapping
    <2> QED
      BY <2>3, <2>4
  <1>6. CASE UNCHANGED vars
    BY <1>6 DEF vars, files, objects, Stage, Answer, Executable
  <1> QED
    BY <1>1, <1>2, <1>3, <1>4, <1>5, <1>6 DEF Next, Ended
-----------------------------------------------------------------------------
LEMMA FilesAlways == Spec => []Files
  BY FilesInit, FilesNext, PTL DEF Spec

\* The driver keeps the promises of Delivery, whichever of its calls fail: the
\* binary of an earlier run is not touched before there is code to write, and a
\* success is announced only with the whole code in the file, or a full disk.
THEOREM DriverDelivers == Spec => Implements
  <1>1. Init => Promised!DeliveryInit
    BY DEF Init, Promised!DeliveryInit
  <1>2. Files /\ [Next]_vars => [Promised!DeliveryNext]_(Promised!delivery)
    BY StepDelivers
  <1> QED
    BY <1>1, <1>2, FilesAlways, PTL DEF Spec, Implements, Promised!DeliverySpec

\* If the driver returns OK, the library was found and the disk was not full,
\* then all three parts are in the file.
THEOREM CompleteWhenOk == Spec => []OkMeansComplete
  <1>1. Files => OkMeansComplete
    BY DEF Files, Concluded, Failed, OkMeansComplete, Parts
  <1> QED
    BY <1>1, FilesAlways, PTL

\* A run that ends without a binary, and not by a signal, has told so.
THEOREM FailuresTold == Spec => []FailureReported
  <1>1. Files => FailureReported
    BY DEF Files, Concluded, FailureReported, Executable
  <1> QED
    BY <1>1, FilesAlways, PTL
-----------------------------------------------------------------------------
(* Types.                                                                  *)

\* What Files does not say of the variables.
Typed ==
    /\ argc \in Nat /\ tree \in Trees /\ fills_pages \in BOOLEAN
    /\ res \in {"none", "OK", "ERROR"}
    /\ exit_code \in {"none", "0", "255", "signal"} /\ printed \subseteq Messages
    /\ x64_code \in {"none", "valid", "nullptr"} /\ exec_buf_size \in CodeSizes \cup {0}
    /\ capacity \in Buffers \cup {0}

LEMMA TypedNext == Typed /\ [Next]_vars => Typed'
  <1> SUFFICES ASSUME Typed, [Next]_vars PROVE Typed'
    OBVIOUS
  <1>1. \A lvl \in DOMAIN Level, m \in Messages : Log(lvl, m) \subseteq Messages
    BY DEF Log
  <1>2. /\ Log("ERROR", "parameters") \subseteq Messages /\ Log("ERROR", "failed") \subseteq Messages
        /\ {"usage", "warning"} \subseteq Messages
    BY <1>1 DEF Level, Messages
  <1> USE DEF Typed, inputs, objects, files, Then, Unwrap, Killed
  <1>3. CASE main
    BY <1>2, <1>3 DEF main
  <1>4. CASE mmap_file_or_warn
    BY <1>2, <1>4 DEF mmap_file_or_warn
  <1>5. CASE load_tree_ \/ ir_code_new \/ from_ast \/ x64_code_new \/ translate_from_ir
    BY <1>5 DEF load_tree_, ir_code_new, from_ast, x64_code_new, translate_from_ir
  <1>6. CASE open_file_or_warn
    BY <1>2, <1>6 DEF open_file_or_warn
  <1>7. CASE write_headers \/ seek_stdlib \/ seek_code \/ write_code \/ fclose
    BY <1>7 DEF write_headers, seek_stdlib, seek_code, Fseek, write_code, fclose
  <1>8. CASE load_stdlib
    BY <1>2, <1>8 DEF load_stdlib
  <1>9. CASE report
    BY <1>2, <1>9 DEF report
  <1>10. CASE return
    BY <1>10 DEF return
  <1>11. CASE UNCHANGED vars
    BY <1>11 DEF vars
  <1> QED
    BY <1>3, <1>4, <1>5, <1>6, <1>7, <1>8, <1>9, <1>10, <1>11 DEF Next, Ended

LEMMA TypedAlways == Spec => []Typed
  <1>1. Init => Typed
    BY DEF Init, Typed
  <1> QED
    BY <1>1, TypedNext, PTL DEF Spec

\* Every reachable state of a run is well typed; in particular the file is an
\* earlier binary, or holds nothing but parts of this one.
THEOREM DriverTyped == Spec => []TypeOK
  <1>1. Files /\ Typed => TypeOK
    <2> SUFFICES ASSUME Files, Typed PROVE binary \in {{"earlier"}} \cup SUBSET Parts
      BY DEF Files, Typed, TypeOK
    <2>1. \/ at \in Before \/ at \in Writing \/ at \in {"report", "return", "exit"}
      BY DEF Files, Calls, Before, Writing
    <2> QED
      BY <2>1 DEF Files, Concluded, Failed
  <1> QED
    BY <1>1, FilesAlways, TypedAlways, PTL
-----------------------------------------------------------------------------
(* The image in memory.                                                    *)

\* The number of the page of an address behind the start of a page.
LEMMA Paged == ASSUME NEW b \in Nat, NEW i \in Nat PROVE (PAGE * b + i) \div PAGE = b + i \div PAGE
  BY DEF PAGE

\* Which segment a page of the image belongs to: the headers, the library, the
\* code; and RAM, which is mapped last and over the code.
LEMMA Loaded ==
    ASSUME NEW n \in Nat \ {0}, NEW a \in Nat
    PROVE  LET q == a \div PAGE
               M == Mappers(Phdrs(n), a)
               s == SegmentAt(Phdrs(n), a)
           IN  /\ q = 1029 => M # {} /\ s = Phdrs(n)[4]
               /\ q = 1025 => M # {} /\ s = Phdrs(n)[3]
               /\ q \in 1026 .. 1026 + (n - 1) \div PAGE /\ q # 1029 => M # {} /\ s = Phdrs(n)[2]
  <1> DEFINE q == a \div PAGE
             M == Mappers(Phdrs(n), a)
             s == SegmentAt(Phdrs(n), a)
             h == Phdrs(n)
  <1>1. q \in Nat
    BY DEF PAGE
  <1>2. DOMAIN h = 1 .. 4
    BY DEF Phdrs
  <1>3. /\ h[1].vaddr = PAGE * 1024 /\ h[1].memsz = 288
        /\ h[2].vaddr = PAGE * 1026 /\ h[2].memsz = n
        /\ h[3].vaddr = PAGE * 1025 /\ h[3].memsz = 689
        /\ h[4].vaddr = PAGE * 1029 /\ h[4].memsz = PAGE
    BY DEF Phdrs, Phdr, PAGE, SYSTEM_BASE_ADDR, CODE_BASE_ADDR, STDLIB_BASE_ADDR, RAM_BASE_ADDR,
           HEADERS_SIZE, SIZEOF_Ehdr, SIZEOF_Phdr, NUM_PHEADERS, STDLIB_SIZE, RAMSIZE
  <1> HIDE DEF h
  <1>4. /\ Pages(h[1]) = 1024 .. 1024 /\ Pages(h[2]) = 1026 .. 1026 + (n - 1) \div PAGE
        /\ Pages(h[3]) = 1025 .. 1025 /\ Pages(h[4]) = 1029 .. 1029
    <2>1. \A b, i \in Nat : (PAGE * b + i) \div PAGE = b + i \div PAGE
      BY Paged
    <2>2. /\ (PAGE * 1024) \div PAGE = 1024 /\ (PAGE * 1024 + 288 - 1) \div PAGE = 1024
          /\ (PAGE * 1025) \div PAGE = 1025 /\ (PAGE * 1025 + 689 - 1) \div PAGE = 1025
          /\ (PAGE * 1029) \div PAGE = 1029 /\ (PAGE * 1029 + PAGE - 1) \div PAGE = 1029
          /\ (PAGE * 1026) \div PAGE = 1026
      BY DEF PAGE
    <2>3. (PAGE * 1026 + n - 1) \div PAGE = 1026 + (n - 1) \div PAGE
      <3>1. n - 1 \in Nat /\ PAGE * 1026 + n - 1 = PAGE * 1026 + (n - 1)
        BY DEF PAGE
      <3> QED
        BY <2>1, <3>1
    <2> QED
      BY <1>3, <2>2, <2>3 DEF Pages
  <1>5. \A i : i \in M <=> \/ i = 1 /\ q = 1024
                           \/ i = 2 /\ q \in 1026 .. 1026 + (n - 1) \div PAGE
                           \/ i = 3 /\ q = 1025
                           \/ i = 4 /\ q = 1029
    <2>1. \A i : i \in M <=> i \in 1 .. 4 /\ Mapped(h[i], a)
      BY <1>2 DEF Mappers, h
    <2>2. \A i \in 1 .. 4 : Mapped(h[i], a) <=> q \in Pages(h[i])
      BY <1>3 DEF Mapped, PAGE
    <2> HIDE DEF M, q
    <2>3. \A i : i \in M <=> \/ i = 1 /\ q \in Pages(h[1])
                             \/ i = 2 /\ q \in Pages(h[2])
                             \/ i = 3 /\ q \in Pages(h[3])
                             \/ i = 4 /\ q \in Pages(h[4])
      <3>1. \A i : i \in 1 .. 4 <=> i = 1 \/ i = 2 \/ i = 3 \/ i = 4
        OBVIOUS
      <3> QED
        BY <2>1, <2>2, <3>1
    <2>4. /\ q \in Pages(h[1]) <=> q = 1024
          /\ q \in Pages(h[3]) <=> q = 1025
          /\ q \in Pages(h[4]) <=> q = 1029
      BY <1>1, <1>4
    <2> QED
      BY <1>4, <2>3, <2>4
  <1>6. ASSUME NEW i \in M, \A j \in M : j <= i, M \subseteq Nat
        PROVE  s = h[i]
    <2> DEFINE last == CHOOSE m \in M : \A j \in M : j <= m
    <2>1. s = h[last]
      BY DEF SegmentAt, h
    <2> HIDE DEF M
    <2>2. last \in M /\ \A j \in M : j <= last
      BY <1>6
    <2>3. last \in Nat /\ i \in Nat /\ last <= i /\ i <= last
      BY <1>6, <2>2
    <2> HIDE DEF last
    <2>4. last = i
      BY <2>3
    <2> QED
      BY <2>1, <2>4
  <1> HIDE DEF M, s, q
  <1>7. M \subseteq Nat
    BY <1>5
  <1>8. q = 1029 => M # {} /\ s = h[4]
    <2> SUFFICES ASSUME q = 1029 PROVE 4 \in M /\ \A j \in M : j <= 4
      BY <1>6, <1>7
    <2> QED
      BY <1>5
  <1>9. q = 1025 => M # {} /\ s = h[3]
    <2> SUFFICES ASSUME q = 1025 PROVE 3 \in M /\ \A j \in M : j <= 3
      BY <1>6, <1>7
    <2> QED
      BY <1>5
  <1>10. q \in 1026 .. 1026 + (n - 1) \div PAGE /\ q # 1029 => M # {} /\ s = h[2]
    <2> SUFFICES ASSUME q \in 1026 .. 1026 + (n - 1) \div PAGE, q # 1029
                 PROVE  2 \in M /\ \A j \in M : j <= 2
      BY <1>6, <1>7
    <2>1. q # 1025 /\ q # 1024
      BY <1>1
    <2> QED
      BY <1>5, <2>1
  <1> QED
    BY <1>8, <1>9, <1>10 DEF M, s, q, h

\* What is in the file at the places of its parts.
LEMMA FileBytes ==
    ASSUME NEW n \in Nat \ {0}, NEW i \in Nat
    PROVE  /\ i < n => FileByte(Parts, n, CODE_FILE_POS + i) = Byte("code", i)
           /\ i < STDLIB_SIZE => FileByte(Parts, n, STDLIB_FILE_POS + i) = Byte("stdlib", i)
  <1> DEFINE here(offset) ==
               {part \in Parts : offset - FilePos[part] \in 0 .. SizeOf(part, n) - 1}
  <1>1. /\ Parts = {"headers", "stdlib", "code"}
        /\ FilePos["headers"] = 0 /\ FilePos["stdlib"] = 4096 /\ FilePos["code"] = 8192
        /\ SizeOf("headers", n) = 288 /\ SizeOf("stdlib", n) = 689 /\ SizeOf("code", n) = n
    BY DEF Parts, FilePos, SizeOf, STDLIB_FILE_POS, CODE_FILE_POS, STDLIB_SIZE, HEADERS_SIZE,
           SIZEOF_Ehdr, SIZEOF_Phdr, NUM_PHEADERS
  <1>2. \A part \in Parts : \A offset : here(offset) = {part} =>
           FileByte(Parts, n, offset) = Byte(part, offset - FilePos[part])
    BY DEF FileByte
  <1>3. ASSUME i < n PROVE here(8192 + i) = {"code"} /\ 8192 + i - 8192 = i
    <2>1. /\ ~(8192 + i - 0 \in 0 .. 288 - 1) /\ ~(8192 + i - 4096 \in 0 .. 689 - 1)
          /\ 8192 + i - 8192 \in 0 .. n - 1
      BY <1>3
    <2> QED
      BY <1>1, <2>1
  <1>4. ASSUME i < 689 PROVE here(4096 + i) = {"stdlib"} /\ 4096 + i - 4096 = i
    <2>1. /\ ~(4096 + i - 0 \in 0 .. 288 - 1) /\ 4096 + i - 4096 \in 0 .. 689 - 1
          /\ ~(4096 + i - 8192 \in 0 .. n - 1)
      BY <1>4
    <2> QED
      BY <1>1, <2>1
  <1> HIDE DEF here
  <1> QED
    BY <1>1, <1>2, <1>3, <1>4 DEF CODE_FILE_POS, STDLIB_FILE_POS, STDLIB_SIZE

\* A byte of the code, of the library and of RAM, as the processor finds it.
LEMMA LoadedBytes ==
    ASSUME NEW n \in Nat \ {0}, NEW i \in Nat
    PROVE  /\ i < n /\ i \div PAGE # 3 =>
                LET a == CODE_BASE_ADDR + i
                IN  /\ Mappers(Phdrs(n), a) # {} /\ "X" \in SegmentAt(Phdrs(n), a).flags
                    /\ Memory(Parts, n, a) = Byte("code", i)
           /\ i < STDLIB_SIZE =>
                LET a == STDLIB_BASE_ADDR + i
                IN  /\ Mappers(Phdrs(n), a) # {} /\ "X" \in SegmentAt(Phdrs(n), a).flags
                    /\ Memory(Parts, n, a) = Byte("stdlib", i)
           /\ i < RAMSIZE =>
                LET a == RAM_BASE_ADDR + i
                IN  /\ Mappers(Phdrs(n), a) # {} /\ SegmentAt(Phdrs(n), a).flags = {"R", "W"}
                    /\ Memory({}, n, a) = Zero
  <1>1. /\ CODE_BASE_ADDR = PAGE * 1026 /\ STDLIB_BASE_ADDR = PAGE * 1025
        /\ RAM_BASE_ADDR = PAGE * 1029
    BY DEF CODE_BASE_ADDR, STDLIB_BASE_ADDR, RAM_BASE_ADDR, PAGE
  <1>2. /\ (CODE_BASE_ADDR + i) \div PAGE = 1026 + i \div PAGE
        /\ (STDLIB_BASE_ADDR + i) \div PAGE = 1025 + i \div PAGE
        /\ (RAM_BASE_ADDR + i) \div PAGE = 1029 + i \div PAGE
    BY <1>1, Paged
  <1>3. i \div PAGE \in Nat /\ (i < PAGE => i \div PAGE = 0)
        /\ (i < n => i \div PAGE <= (n - 1) \div PAGE)
    BY DEF PAGE
  <1>4. /\ CODE_BASE_ADDR + i \in Nat /\ STDLIB_BASE_ADDR + i \in Nat /\ RAM_BASE_ADDR + i \in Nat
    BY DEF CODE_BASE_ADDR, STDLIB_BASE_ADDR, RAM_BASE_ADDR
  <1>5. ASSUME i < n, i \div PAGE # 3
        PROVE  LET a == CODE_BASE_ADDR + i
               IN  /\ Mappers(Phdrs(n), a) # {} /\ "X" \in SegmentAt(Phdrs(n), a).flags
                   /\ Memory(Parts, n, a) = Byte("code", i)
    <2> DEFINE a == CODE_BASE_ADDR + i
               h == Phdrs(n)[2]
    <2>1. a \div PAGE \in 1026 .. 1026 + (n - 1) \div PAGE /\ a \div PAGE # 1029
      <3>1. (n - 1) \div PAGE \in Int
        BY DEF PAGE
      <3> QED
        BY <1>2, <1>3, <1>5, <3>1
    <2>2. Mappers(Phdrs(n), a) # {} /\ SegmentAt(Phdrs(n), a) = h
      BY <1>4, <2>1, Loaded
    <2>3. /\ h.flags = {"R", "X"} /\ h.filesz = n /\ h.offset = CODE_FILE_POS
          /\ h.vaddr = CODE_BASE_ADDR
      BY DEF Phdrs, Phdr
    <2>4. CODE_FILE_POS + a - CODE_BASE_ADDR = CODE_FILE_POS + i
      BY DEF CODE_FILE_POS, CODE_BASE_ADDR
    <2> HIDE DEF a, h
    <2>5. Memory(Parts, n, a) = FileByte(Parts, n, CODE_FILE_POS + i)
      BY <2>2, <2>3, <2>4 DEF Memory
    <2>6. Memory(Parts, n, a) = Byte("code", i)
      BY <1>5, <2>5, FileBytes
    <2> QED
      BY <2>2, <2>3, <2>6 DEF a
  <1>6. ASSUME i < STDLIB_SIZE
        PROVE  LET a == STDLIB_BASE_ADDR + i
               IN  /\ Mappers(Phdrs(n), a) # {} /\ "X" \in SegmentAt(Phdrs(n), a).flags
                   /\ Memory(Parts, n, a) = Byte("stdlib", i)
    <2> DEFINE a == STDLIB_BASE_ADDR + i
               h == Phdrs(n)[3]
    <2>1. a \div PAGE = 1025
      BY <1>2, <1>3, <1>6 DEF STDLIB_SIZE, PAGE
    <2>2. Mappers(Phdrs(n), a) # {} /\ SegmentAt(Phdrs(n), a) = h
      BY <1>4, <2>1, Loaded
    <2>3. /\ h.flags = {"R", "X"} /\ h.filesz = STDLIB_SIZE /\ h.offset = STDLIB_FILE_POS
          /\ h.vaddr = STDLIB_BASE_ADDR
      BY DEF Phdrs, Phdr
    <2>4. STDLIB_FILE_POS + a - STDLIB_BASE_ADDR = STDLIB_FILE_POS + i /\ STDLIB_SIZE # 0
      BY DEF STDLIB_FILE_POS, STDLIB_BASE_ADDR, STDLIB_SIZE
    <2> HIDE DEF a, h
    <2>5. Memory(Parts, n, a) = FileByte(Parts, n, STDLIB_FILE_POS + i)
      BY <2>2, <2>3, <2>4 DEF Memory
    <2>6. Memory(Parts, n, a) = Byte("stdlib", i)
      BY <1>6, <2>5, FileBytes
    <2> QED
      BY <2>2, <2>3, <2>6 DEF a
  <1>7. ASSUME i < RAMSIZE
        PROVE  LET a == RAM_BASE_ADDR + i
               IN  /\ Mappers(Phdrs(n), a) # {} /\ SegmentAt(Phdrs(n), a).flags = {"R", "W"}
                   /\ Memory({}, n, a) = Zero
    <2> DEFINE a == RAM_BASE_ADDR + i
               h == Phdrs(n)[4]
    <2>1. a \div PAGE = 1029
      BY <1>2, <1>3, <1>7 DEF RAMSIZE, PAGE
    <2>2. Mappers(Phdrs(n), a) # {} /\ SegmentAt(Phdrs(n), a) = h
      BY <1>4, <2>1, Loaded
    <2>3. h.flags = {"R", "W"} /\ h.filesz = 0
      BY DEF Phdrs, Phdr
    <2> HIDE DEF a, h
    <2>4. Memory({}, n, a) = Zero
      BY <2>2, <2>3 DEF Memory
    <2> QED
      BY <2>2, <2>3, <2>4 DEF a
  <1> QED
    BY <1>5, <1>6, <1>7

\* The parts of the image are in place exactly while the code ends below RAM.
LEMMA InPlace ==
    ASSUME NEW n \in Nat \ {0}
    PROVE  (/\ Placed(Parts, n, "code", CODE_BASE_ADDR)
            /\ Placed(Parts, n, "stdlib", STDLIB_BASE_ADDR)
            /\ RamPlaced(n)) <=> n <= CodeRoom
  <1>1. CodeRoom = 3 * PAGE
    BY DEF CodeRoom, RAM_BASE_ADDR, CODE_BASE_ADDR, PAGE
  <1>2. SizeOf("code", n) = n /\ SizeOf("stdlib", n) = STDLIB_SIZE
    BY DEF SizeOf
  <1>3. \A m \in Nat \ {0} : \A i \in Probes(m) : i \in Nat /\ i < m
    BY DEF Probes, PAGE
  <1>4. ASSUME n <= 3 * PAGE PROVE Placed(Parts, n, "code", CODE_BASE_ADDR)
    <2> SUFFICES ASSUME NEW i \in Probes(n)
                 PROVE  LET a == CODE_BASE_ADDR + i
                        IN  /\ Mappers(Phdrs(n), a) # {} /\ "X" \in SegmentAt(Phdrs(n), a).flags
                            /\ Memory(Parts, n, a) = Byte("code", i)
      BY <1>2 DEF Placed
    <2>1. i \in Nat /\ i < n
      BY <1>3
    <2>2. i \div PAGE # 3
      BY <1>4, <2>1 DEF PAGE
    <2> QED
      BY <2>1, <2>2, LoadedBytes
  <1>5. ASSUME ~(n <= 3 * PAGE) PROVE ~Placed(Parts, n, "code", CODE_BASE_ADDR)
    <2> DEFINE i == 3 * PAGE
    <2>1. i \in Probes(n)
      <3>1. 3 \in 0 .. (n - 1) \div PAGE /\ i = PAGE * 3
        BY <1>5 DEF PAGE
      <3> QED
        BY <3>1 DEF Probes
    <2>2. CODE_BASE_ADDR + i = RAM_BASE_ADDR + 0 /\ 0 < RAMSIZE
      BY DEF CODE_BASE_ADDR, RAM_BASE_ADDR, PAGE, RAMSIZE
    <2>3. SegmentAt(Phdrs(n), CODE_BASE_ADDR + i).flags = {"R", "W"}
      BY <2>2, LoadedBytes
    <2> HIDE DEF i
    <2> QED
      BY <1>2, <2>1, <2>3 DEF Placed
  <1>6. Placed(Parts, n, "stdlib", STDLIB_BASE_ADDR)
    <2> SUFFICES ASSUME NEW i \in Probes(STDLIB_SIZE)
                 PROVE  LET a == STDLIB_BASE_ADDR + i
                        IN  /\ Mappers(Phdrs(n), a) # {} /\ "X" \in SegmentAt(Phdrs(n), a).flags
                            /\ Memory(Parts, n, a) = Byte("stdlib", i)
      BY <1>2 DEF Placed
    <2>1. i \in Nat /\ i < STDLIB_SIZE
      BY <1>3 DEF STDLIB_SIZE
    <2> QED
      BY <2>1, LoadedBytes
  <1>7. RamPlaced(n)
    <2>1. ASSUME NEW i \in {0, RAMSIZE - 1}
          PROVE  LET a == RAM_BASE_ADDR + i
                 IN  /\ Mappers(Phdrs(n), a) # {} /\ "W" \in SegmentAt(Phdrs(n), a).flags
                     /\ Memory({}, n, a) = Zero
      <3>1. i \in Nat /\ i < RAMSIZE
        BY DEF RAMSIZE
      <3> QED
        BY <3>1, LoadedBytes
    <2>2. \A a \in {RAM_BASE_ADDR, RAM_BASE_ADDR + RAMSIZE - 1} :
             \E i \in {0, RAMSIZE - 1} : a = RAM_BASE_ADDR + i
      BY DEF RAM_BASE_ADDR, RAMSIZE
    <2> QED
      BY <2>1, <2>2 DEF RamPlaced
  <1> QED
    BY <1>1, <1>4, <1>5, <1>6, <1>7

\* Whatever the size of the code, a complete binary is loaded as the compiler
\* takes it to be as long as the code ends below RAM, and no longer: RAM is
\* mapped over its fourth page.
THEOREM ImageLoaded == Spec => []ImageInPlace
  <1>1. Files => (binary = Parts => exec_buf_size \in CodeSizes)
    <2> SUFFICES ASSUME Files, binary = Parts PROVE exec_buf_size \in CodeSizes
      OBVIOUS
    <2>1. binary # {"earlier"} /\ "code" \in binary
      BY DEF Parts
    <2>2. at \in Before \/ at \in Writing \/ at \in {"report", "return", "exit"}
      BY DEF Files, Calls, Before, Writing
    <2> QED
      BY <2>1, <2>2 DEF Files, Concluded, Failed
  <1>2. Files => ImageInPlace
    BY <1>1, InPlace, SizesAssumption DEF ImageInPlace
  <1> QED
    BY <1>2, FilesAlways, PTL
-----------------------------------------------------------------------------
(* What is read is the tree that was saved.                                *)

LEMMA DamagedLoads ==
    ASSUME NEW n \in Trees, NEW damage \in Damages, NEW k \in 0 .. Len(save_tree(n)) - 1,
           HasTree(Damaged(save_tree(n), damage, k))
    PROVE  load_tree(Damaged(save_tree(n), damage, k)) \in {nullptr, Straightened[n]}
  <1> DEFINE t == save_tree(n)
             d == Damaged(t, damage, k)
  <1>1. n \in Nodes /\ t \in Seq(Tokens) /\ Len(t) = Size(n) /\ Len(t) \in Nat
    <2>1. n \in Nodes
      BY TreesAssumption
    <2>2. t \in Seq(Tokens) /\ Len(t) = Size(n)
      BY <2>1, DumpIsTokens DEF save_tree, Size, Tree0
    <2> HIDE DEF t
    <2> QED
      BY <2>1, <2>2, LengthFacts
  <1>2. damage \in {"none", "cut", "headed", "tailed"}
    BY DamagesAssumption
  <1>3. CASE damage = "none"
    <2>1. d = t
      BY <1>3 DEF Damaged
    <2>2. load_tree(t) = Straightened[n]
      BY <1>1, LoadFirst
    <2> QED
      BY <2>1, <2>2
  <1>4. CASE damage = "cut"
    <2>1. d = SubSeq(t, 1, k)
      BY <1>4 DEF Damaged
    <2>2. CASE k = 0
      <3> HIDE DEF t
      <3>1. Len(SubSeq(t, 1, 0)) = 0 /\ SubSeq(t, 1, 0) \in Seq(Tokens)
        BY <1>1
      <3>2. DOMAIN SubSeq(t, 1, 0) = {}
        BY <3>1, LengthFacts
      <3>3. ~HasTree(SubSeq(t, 1, 0))
        BY <3>2 DEF HasTree
      <3> QED
        BY <2>1, <2>2, <3>3 DEF t
    <2>3. CASE k # 0
      <3>1. k \in 1 .. Len(save_tree(n)) - 1
        BY <1>1, <2>3
      <3>2. load_tree(SubSeq(save_tree(n), 1, k)) = nullptr
        BY <1>1, <3>1, CutTreesAreRefused
      <3> QED
        BY <2>1, <3>2
    <2> QED
      BY <2>2, <2>3
  <1>5. CASE damage = "headed"
    <2> DEFINE x == << Junk >>
               u == x \o t
    <2>1. d = u
      BY <1>5 DEF Damaged
    <2>2. x \in Seq(Tokens) /\ Len(x) = 1 /\ x[1] = Junk
      BY DEF Tokens
    <2> HIDE DEF x, t
    <2>3. /\ u \in Seq(Tokens) /\ Len(u) = Len(x) + Len(t)
          /\ \A j \in 1 .. Len(x) : u[j] = x[j]
          /\ \A j \in 1 .. Len(t) : u[Len(x) + j] = t[j]
      BY <1>1, <2>2, Behind
    <2> HIDE DEF u
    <2>4. /\ Size(n) + 1 <= Len(u) /\ u[1] = Junk
          /\ \A j \in 1 .. Size(n) : u[1 + j] = t[j]
      BY <1>1, <2>2, <2>3
    <2>5. load_tree(u) = Straightened[n]
      BY <1>1, <2>3, <2>4, LoadSecond DEF t
    <2> QED
      BY <2>1, <2>5 DEF t
  <1>6. CASE damage = "tailed"
    <2> DEFINE x == << Junk, OpenBrace >>
               u == t \o x
    <2>1. d = u
      BY <1>6 DEF Damaged
    <2>2. x \in Seq(Tokens) /\ Len(x) = 2
      BY DEF Tokens
    <2> HIDE DEF x, t
    <2>3. /\ u \in Seq(Tokens) /\ Len(u) = Len(t) + Len(x)
          /\ \A j \in 1 .. Len(t) : u[j] = t[j]
      BY <1>1, <2>2, Behind
    <2> HIDE DEF u
    <2>4. /\ Size(n) <= Len(u)
          /\ \A j \in 1 .. Size(n) : u[j] = t[j]
      BY <1>1, <2>2, <2>3
    <2>5. load_tree(u) = Straightened[n]
      BY <1>1, <2>3, <2>4, LoadFirst DEF t
    <2> QED
      BY <2>1, <2>5 DEF t
  <1> QED
    BY <1>2, <1>3, <1>4, <1>5, <1>6

\* The dump stays what has become of that of the tree.
Dumped ==
    /\ tree \in Trees
    /\ \E damage \in Damages, k \in 0 .. Len(save_tree(tree)) - 1 :
          dump = Damaged(save_tree(tree), damage, k)
    /\ OnlyWholeTrees

LEMMA DumpedNext == Dumped /\ [Next]_vars => Dumped'
  <1> SUFFICES ASSUME Dumped, [Next]_vars PROVE Dumped'
    OBVIOUS
  <1>1. tree' = tree /\ dump' = dump
    BY DEF Next, vars, inputs, main, mmap_file_or_warn, load_tree_, ir_code_new, from_ast, x64_code_new,
           translate_from_ir, open_file_or_warn, write_headers, seek_stdlib, load_stdlib, seek_code,
           write_code, fclose, report, return, Ended, Fseek
  <1>2. \/ ast' = ast
        \/ ast' = nullptr
        \/ HasTree(dump) /\ ast' = load_tree(dump)
    <2>1. CASE load_tree_
      BY <2>1 DEF load_tree_
    <2>2. CASE from_ast
      BY <2>2 DEF from_ast
    <2>3. CASE [Next]_vars /\ ~load_tree_ /\ ~from_ast
      BY <2>3 DEF Next, vars, objects, main, mmap_file_or_warn, ir_code_new, x64_code_new,
           translate_from_ir, open_file_or_warn, write_headers, seek_stdlib, load_stdlib, seek_code,
           write_code, fclose, report, return, Ended, Fseek
    <2> QED
      BY <2>1, <2>2, <2>3
  <1>3. HasTree(dump) => load_tree(dump) \in {nullptr, Straightened[tree]}
    BY DamagedLoads DEF Dumped
  <1>4. OnlyWholeTrees'
    BY <1>1, <1>2, <1>3 DEF Dumped, OnlyWholeTrees
  <1> QED
    BY <1>1, <1>4 DEF Dumped

\* What load_tree accepts is the tree that was saved: main.cpp:load_and_compile
\* works on nothing else, whatever became of the file.
THEOREM WholeTreesOnly == Spec => []OnlyWholeTrees
  <1>1. Init => Dumped
    BY DEF Init, Dumped, OnlyWholeTrees
  <1>2. Dumped => OnlyWholeTrees
    BY DEF Dumped
  <1> QED
    BY <1>1, <1>2, DumpedNext, PTL DEF Spec
=============================================================================
