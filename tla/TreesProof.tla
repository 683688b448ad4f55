----------------------------- MODULE TreesProof -----------------------------
(***************************************************************************)
(* Proofs about SearchTrees.  Of the search trees, for any keys and trees  *)
(* of any height: what a function does to a tree is proved by induction    *)
(* over the trees, from what it does to a node.  Of the binary tree, for   *)
(* any answers: what create_tree has made of them and what the walks print *)
(* of that, by induction over the answers and over the nodes.              *)
(***************************************************************************)
EXTENDS SearchTrees, Basics

-----------------------------------------------------------------------------
(* The set of trees.                                                       *)

\* The parts of a node.
LEMMA NodeParts ==
    ASSUME NEW l, NEW d, NEW r
    PROVE  /\ Left(Node(l, d, r)) = l /\ Data(Node(l, d, r)) = d /\ Right(Node(l, d, r)) = r
           /\ Node(l, d, r) # Empty
           /\ IsLeaf(Node(l, d, r)) <=> l = Empty /\ r = Empty
  BY DEF Node, Left, Data, Right, Empty, IsLeaf

\* The trees, level by level.
LEMMA TreesToIs ==
    /\ MaxHeight \in Nat /\ TreesTo[0] = {Empty}
    /\ \A n \in 1 .. MaxHeight :
          TreesTo[n] = {Empty} \cup (TreesTo[n - 1] \X Int \X TreesTo[n - 1])
<1>. DEFINE Up(f, n) == IF n = 0 THEN {Empty}
                        ELSE LET below == f[n - 1] IN {Empty} \cup (below \X Int \X below)
<1>1. MaxHeight \in Nat
  BY HeightAssumption
<1>2. ASSUME NEW f, NEW g, NEW n \in Levels, n # 0 => g[n - 1] = f[n - 1]
      PROVE  Up(g, n) = Up(f, n)
  BY <1>2
<1>. DEFINE Run(f, n) == f = [m \in Levels |-> f[m]] /\ \A m \in 0 .. n : f[m] = Up(f, m)
            K == {n \in Nat : n <= MaxHeight => \E f : Run(f, n)}
<1>. HIDE DEF Up
<1>3. 0 \in K
  <2>. DEFINE f == [m \in Levels |-> Up(Empty, 0)]
  <2>1. f = [m \in Levels |-> f[m]] /\ f[0] = Up(Empty, 0)
    BY <1>1 DEF Levels
  <2>2. Up(f, 0) = Up(Empty, 0)
    BY ONLY <1>1, <1>2 DEF Levels
  <2>. HIDE DEF f
  <2>3. Run(f, 0)
    BY <2>1, <2>2
  <2>. HIDE DEF Run
  <2>. QED
    BY <2>3
<1>4. ASSUME NEW n \in Nat, n \in K PROVE n + 1 \in K
  <2>. SUFFICES ASSUME n + 1 <= MaxHeight PROVE \E f : Run(f, n + 1)
    OBVIOUS
  <2>1. PICK f : Run(f, n)
    <3>. HIDE DEF Run
    <3>. QED
      BY <1>1, <1>4
  <2>. DEFINE g == [m \in Levels |-> IF m = n + 1 THEN Up(f, n + 1) ELSE f[m]]
  <2>2. \A m \in 0 .. n : g[m] = f[m]
    BY <1>1 DEF Levels
  <2>3. g[n + 1] = Up(f, n + 1) /\ g = [m \in Levels |-> g[m]]
    BY <1>1 DEF Levels
  <2>. HIDE DEF g
  <2>4. ASSUME NEW m \in 0 .. n + 1 PROVE g[m] = Up(g, m)
    <3>1. m \in Levels /\ (m # 0 => g[m - 1] = f[m - 1])
      BY <1>1, <2>2 DEF Levels
    <3>2. Up(g, m) = Up(f, m)
      BY <1>2, <3>1
    <3>. QED
      BY <2>1, <2>2, <2>3, <3>2
  <2>5. Run(g, n + 1)
    BY <2>3, <2>4
  <2>. HIDE DEF Run
  <2>. QED
    BY <2>5
<1>5. MaxHeight \in K
  <2>. HIDE DEF K
  <2>. QED
    BY <1>1, <1>3, <1>4, NatInduct
<1>6. PICK f : Run(f, MaxHeight)
  <2>. HIDE DEF Run
  <2>. QED
    BY <1>1, <1>5
<1>7. f = [m \in Levels |-> Up(f, m)]
  BY <1>6 DEF Levels
<1>. DEFINE r == CHOOSE to : to = [m \in Levels |-> Up(to, m)]
<1>8. r = [m \in Levels |-> Up(r, m)]
  BY <1>7
<1>9. TreesTo = [n \in Levels |-> r[n]]
  BY DEF TreesTo, Up
<1>. HIDE DEF r
<1>. QED
  BY <1>1, <1>8, <1>9 DEF Levels, Up

\* A tree of one level more is empty or a node.
LEMMA TreesLevel ==
    ASSUME NEW n \in Nat, n < MaxHeight
    PROVE  /\ TreesTo[n] \subseteq TreesTo[n + 1]
           /\ \A l, r \in TreesTo[n], d \in Int : Node(l, d, r) \in TreesTo[n + 1]
           /\ \A t \in TreesTo[n + 1] :
                 t = Empty \/ \E l, r \in TreesTo[n], d \in Int : t = Node(l, d, r)
<1>. DEFINE J == {m \in Nat : m < MaxHeight => TreesTo[m] \subseteq TreesTo[m + 1]}
<1>1. \A m \in Nat : m < MaxHeight =>
         TreesTo[m + 1] = {Empty} \cup (TreesTo[m] \X Int \X TreesTo[m])
  BY TreesToIs
<1>2. 0 \in J
  BY <1>1, TreesToIs
<1>3. ASSUME NEW m \in Nat, m \in J PROVE m + 1 \in J
  <2>. SUFFICES ASSUME m + 1 < MaxHeight PROVE TreesTo[m + 1] \subseteq TreesTo[m + 2]
    OBVIOUS
  <2>1. TreesTo[m] \subseteq TreesTo[m + 1]
    BY <1>3, TreesToIs
  <2>2. /\ TreesTo[m + 1] = {Empty} \cup (TreesTo[m] \X Int \X TreesTo[m])
        /\ TreesTo[m + 2] = {Empty} \cup (TreesTo[m + 1] \X Int \X TreesTo[m + 1])
    BY <1>1, TreesToIs
  <2>. QED
    BY <2>1, <2>2
<1>4. TreesTo[n] \subseteq TreesTo[n + 1]
  <2>. HIDE DEF J
  <2>1. n \in J
    BY <1>2, <1>3, NatInduct
  <2>. QED
    BY <2>1 DEF J
<1>. QED
  BY <1>1, <1>4 DEF Node

\* The height of a tree of n levels.
LEMMA heightsIs ==
    /\ \A t \in TreesTo[0] : heights[0][t] = 0
    /\ \A n \in Nat : n < MaxHeight => \A t \in TreesTo[n + 1] : heights[n + 1][t] =
        IF t = Empty THEN 0
        ELSE LET x == heights[n][Left(t)]
                 y == heights[n][Right(t)]
             IN  IF x > y THEN 1 + x ELSE 1 + y
<1>. DEFINE Up(f, n) == [t \in TreesTo[n] |->
        IF t = Empty THEN 0
        ELSE LET x == f[n - 1][Left(t)]
                 y == f[n - 1][Right(t)]
             IN  IF x > y THEN 1 + x ELSE 1 + y]
<1>1. MaxHeight \in Nat
  BY HeightAssumption
<1>2. ASSUME NEW f, NEW g, NEW n \in Levels, n # 0 => g[n - 1] = f[n - 1]
      PROVE  Up(g, n) = Up(f, n)
  BY <1>2, TreesToIs
<1>. DEFINE Run(f, n) == f = [m \in Levels |-> f[m]] /\ \A m \in 0 .. n : f[m] = Up(f, m)
            K == {n \in Nat : n <= MaxHeight => \E f : Run(f, n)}
<1>. HIDE DEF Up
<1>3. 0 \in K
  <2>. DEFINE f == [m \in Levels |-> Up(Empty, 0)]
  <2>1. f = [m \in Levels |-> f[m]] /\ f[0] = Up(Empty, 0)
    BY <1>1 DEF Levels
  <2>2. Up(f, 0) = Up(Empty, 0)
    BY ONLY <1>1, <1>2 DEF Levels
  <2>. HIDE DEF f
  <2>3. Run(f, 0)
    BY <2>1, <2>2
  <2>. HIDE DEF Run
  <2>. QED
    BY <2>3
<1>4. ASSUME NEW n \in Nat, n \in K PROVE n + 1 \in K
  <2>. SUFFICES ASSUME n + 1 <= MaxHeight PROVE \E f : Run(f, n + 1)
    OBVIOUS
  <2>1. PICK f : Run(f, n)
    <3>. HIDE DEF Run
    <3>. QED
      BY <1>1, <1>4
  <2>. DEFINE g == [m \in Levels |-> IF m = n + 1 THEN Up(f, n + 1) ELSE f[m]]
  <2>2. \A m \in 0 .. n : g[m] = f[m]
    BY <1>1 DEF Levels
  <2>3. g[n + 1] = Up(f, n + 1) /\ g = [m \in Levels |-> g[m]]
    BY <1>1 DEF Levels
  <2>. HIDE DEF g
  <2>4. ASSUME NEW m \in 0 .. n + 1 PROVE g[m] = Up(g, m)
    <3>1. m \in Levels /\ (m # 0 => g[m - 1] = f[m - 1])
      BY <1>1, <2>2 DEF Levels
    <3>2. Up(g, m) = Up(f, m)
      BY <1>2, <3>1
    <3>. QED
      BY <2>1, <2>2, <2>3, <3>2
  <2>5. Run(g, n + 1)
    BY <2>3, <2>4
  <2>. HIDE DEF Run
  <2>. QED
    BY <2>5
<1>5. MaxHeight \in K
  <2>. HIDE DEF K
  <2>. QED
    BY <1>1, <1>3, <1>4, NatInduct
<1>6. PICK f : Run(f, MaxHeight)
  <2>. HIDE DEF Run
  <2>. QED
    BY <1>1, <1>5
<1>7. f = [m \in Levels |-> Up(f, m)]
  BY <1>6 DEF Levels
<1>. DEFINE r == CHOOSE to : to = [m \in Levels |-> Up(to, m)]
<1>8. r = [m \in Levels |-> Up(r, m)]
  BY <1>7
<1>9. r = heights
  BY DEF heights, Up
<1>. HIDE DEF r
<1>10. \A n \in Levels : heights[n] = Up(heights, n)
  BY <1>8, <1>9
<1>11. 0 \in Levels /\ \A n \in Nat : n < MaxHeight => n + 1 \in Levels /\ (n + 1) - 1 = n
  BY <1>1 DEF Levels
<1>12. \A t \in TreesTo[0] : t = Empty
  BY TreesToIs
<1>13. \A t \in TreesTo[0] : heights[0][t] = 0
  BY <1>10, <1>11, <1>12 DEF Up
<1>14. ASSUME NEW n \in Nat, n < MaxHeight, NEW t \in TreesTo[n + 1]
       PROVE  heights[n + 1][t] =
        IF t = Empty THEN 0
        ELSE LET x == heights[n][Left(t)]
                 y == heights[n][Right(t)]
             IN  IF x > y THEN 1 + x ELSE 1 + y
  <2>1. heights[n + 1] = Up(heights, n + 1) /\ (n + 1) - 1 = n
    BY <1>10, <1>11, <1>14
  <2>. QED
    BY <2>1 DEF Up
<1>. QED
  BY <1>13, <1>14

\* One level more to go down changes nothing for a tree that is low enough.
LEMMA heightsSame ==
    ASSUME NEW n \in Nat, n < MaxHeight
    PROVE  \A t \in TreesTo[n] : heights[n + 1][t] = heights[n][t]
<1>. DEFINE J == {m \in Nat : m < MaxHeight =>
                    \A t \in TreesTo[m] : heights[m + 1][t] = heights[m][t]}
<1>1. 0 \in J
  <2>. SUFFICES ASSUME 0 < MaxHeight, NEW t \in TreesTo[0]
                PROVE  heights[0 + 1][t] = heights[0][t]
    OBVIOUS
  <2>1. t = Empty /\ t \in TreesTo[0 + 1]
    BY TreesLevel, TreesToIs
  <2>2. heights[0][t] = 0
    BY heightsIs
  <2>3. heights[0 + 1][t] = 0
    BY <2>1, heightsIs
  <2>. QED
    BY <2>2, <2>3
<1>2. ASSUME NEW m \in Nat, m \in J PROVE m + 1 \in J
  <2>. SUFFICES ASSUME m + 1 < MaxHeight, NEW t \in TreesTo[m + 1]
                PROVE  heights[(m + 1) + 1][t] = heights[m + 1][t]
    OBVIOUS
  <2>1. t = Empty \/ \E l, r \in TreesTo[m], d \in Int : t = Node(l, d, r)
    BY TreesToIs, TreesLevel
  <2>2. m < MaxHeight /\ m + 1 \in Nat /\ t \in TreesTo[(m + 1) + 1]
    BY TreesToIs, TreesLevel
  <2>3. CASE t = Empty
    BY <2>2, <2>3, heightsIs
  <2>4. ASSUME NEW l \in TreesTo[m], NEW r \in TreesTo[m], NEW d \in Int, t = Node(l, d, r)
        PROVE  heights[(m + 1) + 1][t] = heights[m + 1][t]
    <3>1. /\ t # Empty /\ Left(t) = l /\ Data(t) = d /\ Right(t) = r
      BY <2>4, NodeParts
    <3>2. /\ heights[m + 1][l] = heights[m][l]
          /\ heights[m + 1][r] = heights[m][r]
      BY <1>2, <2>2
    <3>. QED
      BY <2>2, <2>4, <3>1, <3>2, heightsIs
  <2>. QED
    BY <2>1, <2>3, <2>4
<1>. QED
  <2>. HIDE DEF J
  <2>1. n \in J
    BY <1>1, <1>2, NatInduct
  <2>. QED
    BY <2>1 DEF J

\* The rightmost node of a tree of n levels.
LEMMA inorder_presIs ==
    /\ \A t \in TreesTo[0] : inorder_pres[0][t] = Empty
    /\ \A n \in Nat : n < MaxHeight => \A t \in TreesTo[n + 1] : inorder_pres[n + 1][t] =
        IF t = Empty \/ Right(t) = Empty THEN t ELSE inorder_pres[n][Right(t)]
<1>. DEFINE Up(f, n) == [t \in TreesTo[n] |->
        IF t = Empty \/ Right(t) = Empty THEN t ELSE f[n - 1][Right(t)]]
<1>1. MaxHeight \in Nat
  BY HeightAssumption
<1>2. ASSUME NEW f, NEW g, NEW n \in Levels, n # 0 => g[n - 1] = f[n - 1]
      PROVE  Up(g, n) = Up(f, n)
  BY <1>2, TreesToIs
<1>. DEFINE Run(f, n) == f = [m \in Levels |-> f[m]] /\ \A m \in 0 .. n : f[m] = Up(f, m)
            K == {n \in Nat : n <= MaxHeight => \E f : Run(f, n)}
<1>. HIDE DEF Up
<1>3. 0 \in K
  <2>. DEFINE f == [m \in Levels |-> Up(Empty, 0)]
  <2>1. f = [m \in Levels |-> f[m]] /\ f[0] = Up(Empty, 0)
    BY <1>1 DEF Levels
  <2>2. Up(f, 0) = Up(Empty, 0)
    BY ONLY <1>1, <1>2 DEF Levels
  <2>. HIDE DEF f
  <2>3. Run(f, 0)
    BY <2>1, <2>2
  <2>. HIDE DEF Run
  <2>. QED
    BY <2>3
<1>4. ASSUME NEW n \in Nat, n \in K PROVE n + 1 \in K
  <2>. SUFFICES ASSUME n + 1 <= MaxHeight PROVE \E f : Run(f, n + 1)
    OBVIOUS
  <2>1. PICK f : Run(f, n)
    <3>. HIDE DEF Run
    <3>. QED
      BY <1>1, <1>4
  <2>. DEFINE g == [m \in Levels |-> IF m = n + 1 THEN Up(f, n + 1) ELSE f[m]]
  <2>2. \A m \in 0 .. n : g[m] = f[m]
    BY <1>1 DEF Levels
  <2>3. g[n + 1] = Up(f, n + 1) /\ g = [m \in Levels |-> g[m]]
    BY <1>1 DEF Levels
  <2>. HIDE DEF g
  <2>4. ASSUME NEW m \in 0 .. n + 1 PROVE g[m] = Up(g, m)
    <3>1. m \in Levels /\ (m # 0 => g[m - 1] = f[m - 1])
      BY <1>1, <2>2 DEF Levels
    <3>2. Up(g, m) = Up(f, m)
      BY <1>2, <3>1
    <3>. QED
      BY <2>1, <2>2, <2>3, <3>2
  <2>5. Run(g, n + 1)
    BY <2>3, <2>4
  <2>. HIDE DEF Run
  <2>. QED
    BY <2>5
<1>5. MaxHeight \in K
  <2>. HIDE DEF K
  <2>. QED
    BY <1>1, <1>3, <1>4, NatInduct
<1>6. PICK f : Run(f, MaxHeight)
  <2>. HIDE DEF Run
  <2>. QED
    BY <1>1, <1>5
<1>7. f = [m \in Levels |-> Up(f, m)]
  BY <1>6 DEF Levels
<1>. DEFINE r == CHOOSE to : to = [m \in Levels |-> Up(to, m)]
<1>8. r = [m \in Levels |-> Up(r, m)]
  BY <1>7
<1>9. r = inorder_pres
  BY DEF inorder_pres, Up
<1>. HIDE DEF r
<1>10. \A n \in Levels : inorder_pres[n] = Up(inorder_pres, n)
  BY <1>8, <1>9
<1>11. 0 \in Levels /\ \A n \in Nat : n < MaxHeight => n + 1 \in Levels /\ (n + 1) - 1 = n
  BY <1>1 DEF Levels
<1>12. \A t \in TreesTo[0] : t = Empty
  BY TreesToIs
<1>13. \A t \in TreesTo[0] : inorder_pres[0][t] = Empty
  BY <1>10, <1>11, <1>12 DEF Up
<1>14. ASSUME NEW n \in Nat, n < MaxHeight, NEW t \in TreesTo[n + 1]
       PROVE  inorder_pres[n + 1][t] =
        IF t = Empty \/ Right(t) = Empty THEN t ELSE inorder_pres[n][Right(t)]
  <2>1. inorder_pres[n + 1] = Up(inorder_pres, n + 1) /\ (n + 1) - 1 = n
    BY <1>10, <1>11, <1>14
  <2>. QED
    BY <2>1 DEF Up
<1>. QED
  BY <1>13, <1>14

\* One level more to go down changes nothing for a tree that is low enough.
LEMMA inorder_presSame ==
    ASSUME NEW n \in Nat, n < MaxHeight
    PROVE  \A t \in TreesTo[n] : inorder_pres[n + 1][t] = inorder_pres[n][t]
<1>. DEFINE J == {m \in Nat : m < MaxHeight =>
                    \A t \in TreesTo[m] : inorder_pres[m + 1][t] = inorder_pres[m][t]}
<1>1. 0 \in J
  <2>. SUFFICES ASSUME 0 < MaxHeight, NEW t \in TreesTo[0]
                PROVE  inorder_pres[0 + 1][t] = inorder_pres[0][t]
    OBVIOUS
  <2>1. t = Empty /\ t \in TreesTo[0 + 1]
    BY TreesLevel, TreesToIs
  <2>2. inorder_pres[0][t] = Empty
    BY inorder_presIs
  <2>3. inorder_pres[0 + 1][t] = Empty
    BY <2>1, inorder_presIs
  <2>. QED
    BY <2>2, <2>3
<1>2. ASSUME NEW m \in Nat, m \in J PROVE m + 1 \in J
  <2>. SUFFICES ASSUME m + 1 < MaxHeight, NEW t \in TreesTo[m + 1]
                PROVE  inorder_pres[(m + 1) + 1][t] = inorder_pres[m + 1][t]
    OBVIOUS
  <2>1. t = Empty \/ \E l, r \in TreesTo[m], d \in Int : t = Node(l, d, r)
    BY TreesToIs, TreesLevel
  <2>2. m < MaxHeight /\ m + 1 \in Nat /\ t \in TreesTo[(m + 1) + 1]
    BY TreesToIs, TreesLevel
  <2>3. CASE t = Empty
    BY <2>2, <2>3, inorder_presIs
  <2>4. ASSUME NEW l \in TreesTo[m], NEW r \in TreesTo[m], NEW d \in Int, t = Node(l, d, r)
        PROVE  inorder_pres[(m + 1) + 1][t] = inorder_pres[m + 1][t]
    <3>1. /\ t # Empty /\ Left(t) = l /\ Data(t) = d /\ Right(t) = r
      BY <2>4, NodeParts
    <3>2. /\ inorder_pres[m + 1][l] = inorder_pres[m][l]
          /\ inorder_pres[m + 1][r] = inorder_pres[m][r]
      BY <1>2, <2>2
    <3>. QED
      BY <2>2, <2>4, <3>1, <3>2, inorder_presIs
  <2>. QED
    BY <2>1, <2>3, <2>4
<1>. QED
  <2>. HIDE DEF J
  <2>1. n \in J
    BY <1>1, <1>2, NatInduct
  <2>. QED
    BY <2>1 DEF J

\* The leftmost node of a tree of n levels.
LEMMA inorder_succsIs ==
    /\ \A t \in TreesTo[0] : inorder_succs[0][t] = Empty
    /\ \A n \in Nat : n < MaxHeight => \A t \in TreesTo[n + 1] : inorder_succs[n + 1][t] =
        IF t = Empty \/ Left(t) = Empty THEN t ELSE inorder_succs[n][Left(t)]
<1>. DEFINE Up(f, n) == [t \in TreesTo[n] |->
        IF t = Empty \/ Left(t) = Empty THEN t ELSE f[n - 1][Left(t)]]
<1>1. MaxHeight \in Nat
  BY HeightAssumption
<1>2. ASSUME NEW f, NEW g, NEW n \in Levels, n # 0 => g[n - 1] = f[n - 1]
      PROVE  Up(g, n) = Up(f, n)
  BY <1>2, TreesToIs
<1>. DEFINE Run(f, n) == f = [m \in Levels |-> f[m]] /\ \A m \in 0 .. n : f[m] = Up(f, m)
            K == {n \in Nat : n <= MaxHeight => \E f : Run(f, n)}
<1>. HIDE DEF Up
<1>3. 0 \in K
  <2>. DEFINE f == [m \in Levels |-> Up(Empty, 0)]
  <2>1. f = [m \in Levels |-> f[m]] /\ f[0] = Up(Empty, 0)
    BY <1>1 DEF Levels
  <2>2. Up(f, 0) = Up(Empty, 0)
    BY ONLY <1>1, <1>2 DEF Levels
  <2>. HIDE DEF f
  <2>3. Run(f, 0)
    BY <2>1, <2>2
  <2>. HIDE DEF Run
  <2>. QED
    BY <2>3
<1>4. ASSUME NEW n \in Nat, n \in K PROVE n + 1 \in K
  <2>. SUFFICES ASSUME n + 1 <= MaxHeight PROVE \E f : Run(f, n + 1)
    OBVIOUS
  <2>1. PICK f : Run(f, n)
    <3>. HIDE DEF Run
    <3>. QED
      BY <1>1, <1>4
  <2>. DEFINE g == [m \in Levels |-> IF m = n + 1 THEN Up(f, n + 1) ELSE f[m]]
  <2>2. \A m \in 0 .. n : g[m] = f[m]
    BY <1>1 DEF Levels
  <2>3. g[n + 1] = Up(f, n + 1) /\ g = [m \in Levels |-> g[m]]
    BY <1>1 DEF Levels
  <2>. HIDE DEF g
  <2>4. ASSUME NEW m \in 0 .. n + 1 PROVE g[m] = Up(g, m)
    <3>1. m \in Levels /\ (m # 0 => g[m - 1] = f[m - 1])
      BY <1>1, <2>2 DEF Levels
    <3>2. Up(g, m) = Up(f, m)
      BY <1>2, <3>1
    <3>. QED
      BY <2>1, <2>2, <2>3, <3>2
  <2>5. Run(g, n + 1)
    BY <2>3, <2>4
  <2>. HIDE DEF Run
  <2>. QED
    BY <2>5
<1>5. MaxHeight \in K
  <2>. HIDE DEF K
  <2>. QED
    BY <1>1, <1>3, <1>4, NatInduct
<1>6. PICK f : Run(f, MaxHeight)
  <2>. HIDE DEF Run
  <2>. QED
    BY <1>1, <1>5
<1>7. f = [m \in Levels |-> Up(f, m)]
  BY <1>6 DEF Levels
<1>. DEFINE r == CHOOSE to : to = [m \in Levels |-> Up(to, m)]
<1>8. r = [m \in Levels |-> Up(r, m)]
  BY <1>7
<1>9. r = inorder_succs
  BY DEF inorder_succs, Up
<1>. HIDE DEF r
<1>10. \A n \in Levels : inorder_succs[n] = Up(inorder_succs, n)
  BY <1>8, <1>9
<1>11. 0 \in Levels /\ \A n \in Nat : n < MaxHeight => n + 1 \in Levels /\ (n + 1) - 1 = n
  BY <1>1 DEF Levels
<1>12. \A t \in TreesTo[0] : t = Empty
  BY TreesToIs
<1>13. \A t \in TreesTo[0] : inorder_succs[0][t] = Empty
  BY <1>10, <1>11, <1>12 DEF Up
<1>14. ASSUME NEW n \in Nat, n < MaxHeight, NEW t \in TreesTo[n + 1]
       PROVE  inorder_succs[n + 1][t] =
        IF t = Empty \/ Left(t) = Empty THEN t ELSE inorder_succs[n][Left(t)]
  <2>1. inorder_succs[n + 1] = Up(inorder_succs, n + 1) /\ (n + 1) - 1 = n
    BY <1>10, <1>11, <1>14
  <2>. QED
    BY <2>1 DEF Up
<1>. QED
  BY <1>13, <1>14

\* One level more to go down changes nothing for a tree that is low enough.
LEMMA inorder_succsSame ==
    ASSUME NEW n \in Nat, n < MaxHeight
    PROVE  \A t \in TreesTo[n] : inorder_succs[n + 1][t] = inorder_succs[n][t]
<1>. DEFINE J == {m \in Nat : m < MaxHeight =>
                    \A t \in TreesTo[m] : inorder_succs[m + 1][t] = inorder_succs[m][t]}
<1>1. 0 \in J
  <2>. SUFFICES ASSUME 0 < MaxHeight, NEW t \in TreesTo[0]
                PROVE  inorder_succs[0 + 1][t] = inorder_succs[0][t]
    OBVIOUS
  <2>1. t = Empty /\ t \in TreesTo[0 + 1]
    BY TreesLevel, TreesToIs
  <2>2. inorder_succs[0][t] = Empty
    BY inorder_succsIs
  <2>3. inorder_succs[0 + 1][t] = Empty
    BY <2>1, inorder_succsIs
  <2>. QED
    BY <2>2, <2>3
<1>2. ASSUME NEW m \in Nat, m \in J PROVE m + 1 \in J
  <2>. SUFFICES ASSUME m + 1 < MaxHeight, NEW t \in TreesTo[m + 1]
                PROVE  inorder_succs[(m + 1) + 1][t] = inorder_succs[m + 1][t]
    OBVIOUS
  <2>1. t = Empty \/ \E l, r \in TreesTo[m], d \in Int : t = Node(l, d, r)
    BY TreesToIs, TreesLevel
  <2>2. m < MaxHeight /\ m + 1 \in Nat /\ t \in TreesTo[(m + 1) + 1]
    BY TreesToIs, TreesLevel
  <2>3. CASE t = Empty
    BY <2>2, <2>3, inorder_succsIs
  <2>4. ASSUME NEW l \in TreesTo[m], NEW r \in TreesTo[m], NEW d \in Int, t = Node(l, d, r)
        PROVE  inorder_succs[(m + 1) + 1][t] = inorder_succs[m + 1][t]
    <3>1. /\ t # Empty /\ Left(t) = l /\ Data(t) = d /\ Right(t) = r
      BY <2>4, NodeParts
    <3>2. /\ inorder_succs[m + 1][l] = inorder_succs[m][l]
          /\ inorder_succs[m + 1][r] = inorder_succs[m][r]
      BY <1>2, <2>2
    <3>. QED
      BY <2>2, <2>4, <3>1, <3>2, inorder_succsIs
  <2>. QED
    BY <2>1, <2>3, <2>4
<1>. QED
  <2>. HIDE DEF J
  <2>1. n \in J
    BY <1>1, <1>2, NatInduct
  <2>. QED
    BY <2>1 DEF J

\* The in-order walk of a tree of n levels.
LEMMA inorder_displaysIs ==
    /\ \A t \in TreesTo[0] : inorder_displays[0][t] = << >>
    /\ \A n \in Nat : n < MaxHeight => \A t \in TreesTo[n + 1] : inorder_displays[n + 1][t] =
        IF t = Empty THEN << >>
        ELSE inorder_displays[n][Left(t)] \o << Data(t) >> \o inorder_displays[n][Right(t)]
<1>. DEFINE Up(f, n) == [t \in TreesTo[n] |->
        IF t = Empty THEN << >>
        ELSE f[n - 1][Left(t)] \o << Data(t) >> \o f[n - 1][Right(t)]]
<1>1. MaxHeight \in Nat
  BY HeightAssumption
<1>2. ASSUME NEW f, NEW g, NEW n \in Levels, n # 0 => g[n - 1] = f[n - 1]
      PROVE  Up(g, n) = Up(f, n)
  BY <1>2, TreesToIs
<1>. DEFINE Run(f, n) == f = [m \in Levels |-> f[m]] /\ \A m \in 0 .. n : f[m] = Up(f, m)
            K == {n \in Nat : n <= MaxHeight => \E f : Run(f, n)}
<1>. HIDE DEF Up
<1>3. 0 \in K
  <2>. DEFINE f == [m \in Levels |-> Up(Empty, 0)]
  <2>1. f = [m \in Levels |-> f[m]] /\ f[0] = Up(Empty, 0)
    BY <1>1 DEF Levels
  <2>2. Up(f, 0) = Up(Empty, 0)
    BY ONLY <1>1, <1>2 DEF Levels
  <2>. HIDE DEF f
  <2>3. Run(f, 0)
    BY <2>1, <2>2
  <2>. HIDE DEF Run
  <2>. QED
    BY <2>3
<1>4. ASSUME NEW n \in Nat, n \in K PROVE n + 1 \in K
  <2>. SUFFICES ASSUME n + 1 <= MaxHeight PROVE \E f : Run(f, n + 1)
    OBVIOUS
  <2>1. PICK f : Run(f, n)
    <3>. HIDE DEF Run
    <3>. QED
      BY <1>1, <1>4
  <2>. DEFINE g == [m \in Levels |-> IF m = n + 1 THEN Up(f, n + 1) ELSE f[m]]
  <2>2. \A m \in 0 .. n : g[m] = f[m]
    BY <1>1 DEF Levels
  <2>3. g[n + 1] = Up(f, n + 1) /\ g = [m \in Levels |-> g[m]]
    BY <1>1 DEF Levels
  <2>. HIDE DEF g
  <2>4. ASSUME NEW m \in 0 .. n + 1 PROVE g[m] = Up(g, m)
    <3>1. m \in Levels /\ (m # 0 => g[m - 1] = f[m - 1])
      BY <1>1, <2>2 DEF Levels
    <3>2. Up(g, m) = Up(f, m)
      BY <1>2, <3>1
    <3>. QED
      BY <2>1, <2>2, <2>3, <3>2
  <2>5. Run(g, n + 1)
    BY <2>3, <2>4
  <2>. HIDE DEF Run
  <2>. QED
    BY <2>5
<1>5. MaxHeight \in K
  <2>. HIDE DEF K
  <2>. QED
    BY <1>1, <1>3, <1>4, NatInduct
<1>6. PICK f : Run(f, MaxHeight)
  <2>. HIDE DEF Run
  <2>. QED
    BY <1>1, <1>5
<1>7. f = [m \in Levels |-> Up(f, m)]
  BY <1>6 DEF Levels
<1>. DEFINE r == CHOOSE to : to = [m \in Levels |-> Up(to, m)]
<1>8. r = [m \in Levels |-> Up(r, m)]
  BY <1>7
<1>9. r = inorder_displays
  BY DEF inorder_displays, Up
<1>. HIDE DEF r
<1>10. \A n \in Levels : inorder_displays[n] = Up(inorder_displays, n)
  BY <1>8, <1>9
<1>11. 0 \in Levels /\ \A n \in Nat : n < MaxHeight => n + 1 \in Levels /\ (n + 1) - 1 = n
  BY <1>1 DEF Levels
<1>12. \A t \in TreesTo[0] : t = Empty
  BY TreesToIs
<1>13. \A t \in TreesTo[0] : inorder_displays[0][t] = << >>
  BY <1>10, <1>11, <1>12 DEF Up
<1>14. ASSUME NEW n \in Nat, n < MaxHeight, NEW t \in TreesTo[n + 1]
       PROVE  inorder_displays[n + 1][t] =
        IF t = Empty THEN << >>
        ELSE inorder_displays[n][Left(t)] \o << Data(t) >> \o inorder_displays[n][Right(t)]
  <2>1. inorder_displays[n + 1] = Up(inorder_displays, n + 1) /\ (n + 1) - 1 = n
    BY <1>10, <1>11, <1>14
  <2>. QED
    BY <2>1 DEF Up
<1>. QED
  BY <1>13, <1>14

\* One level more to go down changes nothing for a tree that is low enough.
LEMMA inorder_displaysSame ==
    ASSUME NEW n \in Nat, n < MaxHeight
    PROVE  \A t \in TreesTo[n] : inorder_displays[n + 1][t] = inorder_displays[n][t]
<1>. DEFINE J == {m \in Nat : m < MaxHeight =>
                    \A t \in TreesTo[m] : inorder_displays[m + 1][t] = inorder_displays[m][t]}
<1>1. 0 \in J
  <2>. SUFFICES ASSUME 0 < MaxHeight, NEW t \in TreesTo[0]
                PROVE  inorder_displays[0 + 1][t] = inorder_displays[0][t]
    OBVIOUS
  <2>1. t = Empty /\ t \in TreesTo[0 + 1]
    BY TreesLevel, TreesToIs
  <2>2. inorder_displays[0][t] = << >>
    BY inorder_displaysIs
  <2>3. inorder_displays[0 + 1][t] = << >>
    BY <2>1, inorder_displaysIs
  <2>. QED
    BY <2>2, <2>3
<1>2. ASSUME NEW m \in Nat, m \in J PROVE m + 1 \in J
  <2>. SUFFICES ASSUME m + 1 < MaxHeight, NEW t \in TreesTo[m + 1]
                PROVE  inorder_displays[(m + 1) + 1][t] = inorder_displays[m + 1][t]
    OBVIOUS
  <2>1. t = Empty \/ \E l, r \in TreesTo[m], d \in Int : t = Node(l, d, r)
    BY TreesToIs, TreesLevel
  <2>2. m < MaxHeight /\ m + 1 \in Nat /\ t \in TreesTo[(m + 1) + 1]
    BY TreesToIs, TreesLevel
  <2>3. CASE t = Empty
    BY <2>2, <2>3, inorder_displaysIs
  <2>4. ASSUME NEW l \in TreesTo[m], NEW r \in TreesTo[m], NEW d \in Int, t = Node(l, d, r)
        PROVE  inorder_displays[(m + 1) + 1][t] = inorder_displays[m + 1][t]
    <3>1. /\ t # Empty /\ Left(t) = l /\ Data(t) = d /\ Right(t) = r
      BY <2>4, NodeParts
    <3>2. /\ inorder_displays[m + 1][l] = inorder_displays[m][l]
          /\ inorder_displays[m + 1][r] = inorder_displays[m][r]
      BY <1>2, <2>2
    <3>. QED
      BY <2>2, <2>4, <3>1, <3>2, inorder_displaysIs
  <2>. QED
    BY <2>1, <2>3, <2>4
<1>. QED
  <2>. HIDE DEF J
  <2>1. n \in J
    BY <1>1, <1>2, NatInduct
  <2>. QED
    BY <2>1 DEF J

\* The subtrees of a tree of n levels.
LEMMA SubtreesToIs ==
    /\ \A t \in TreesTo[0] : SubtreesTo[0][t] = {}
    /\ \A n \in Nat : n < MaxHeight => \A t \in TreesTo[n + 1] : SubtreesTo[n + 1][t] =
        IF t = Empty THEN {}
        ELSE {t} \cup SubtreesTo[n][Left(t)] \cup SubtreesTo[n][Right(t)]
<1>. DEFINE Up(f, n) == [t \in TreesTo[n] |->
        IF t = Empty THEN {}
        ELSE {t} \cup f[n - 1][Left(t)] \cup f[n - 1][Right(t)]]
<1>1. MaxHeight \in Nat
  BY HeightAssumption
<1>2. ASSUME NEW f, NEW g, NEW n \in Levels, n # 0 => g[n - 1] = f[n - 1]
      PROVE  Up(g, n) = Up(f, n)
  BY <1>2, TreesToIs
<1>. DEFINE Run(f, n) == f = [m \in Levels |-> f[m]] /\ \A m \in 0 .. n : f[m] = Up(f, m)
            K == {n \in Nat : n <= MaxHeight => \E f : Run(f, n)}
<1>. HIDE DEF Up
<1>3. 0 \in K
  <2>. DEFINE f == [m \in Levels |-> Up(Empty, 0)]
  <2>1. f = [m \in Levels |-> f[m]] /\ f[0] = Up(Empty, 0)
    BY <1>1 DEF Levels
  <2>2. Up(f, 0) = Up(Empty, 0)
    BY ONLY <1>1, <1>2 DEF Levels
  <2>. HIDE DEF f
  <2>3. Run(f, 0)
    BY <2>1, <2>2
  <2>. HIDE DEF Run
  <2>. QED
    BY <2>3
<1>4. ASSUME NEW n \in Nat, n \in K PROVE n + 1 \in K
  <2>. SUFFICES ASSUME n + 1 <= MaxHeight PROVE \E f : Run(f, n + 1)
    OBVIOUS
  <2>1. PICK f : Run(f, n)
    <3>. HIDE DEF Run
    <3>. QED
      BY <1>1, <1>4
  <2>. DEFINE g == [m \in Levels |-> IF m = n + 1 THEN Up(f, n + 1) ELSE f[m]]
  <2>2. \A m \in 0 .. n : g[m] = f[m]
    BY <1>1 DEF Levels
  <2>3. g[n + 1] = Up(f, n + 1) /\ g = [m \in Levels |-> g[m]]
    BY <1>1 DEF Levels
  <2>. HIDE DEF g
  <2>4. ASSUME NEW m \in 0 .. n + 1 PROVE g[m] = Up(g, m)
    <3>1. m \in Levels /\ (m # 0 => g[m - 1] = f[m - 1])
      BY <1>1, <2>2 DEF Levels
    <3>2. Up(g, m) = Up(f, m)
      BY <1>2, <3>1
    <3>. QED
      BY <2>1, <2>2, <2>3, <3>2
  <2>5. Run(g, n + 1)
    BY <2>3, <2>4
  <2>. HIDE DEF Run
  <2>. QED
    BY <2>5
<1>5. MaxHeight \in K
  <2>. HIDE DEF K
  <2>. QED
    BY <1>1, <1>3, <1>4, NatInduct
<1>6. PICK f : Run(f, MaxHeight)
  <2>. HIDE DEF Run
  <2>. QED
    BY <1>1, <1>5
<1>7. f = [m \in Levels |-> Up(f, m)]
  BY <1>6 DEF Levels
<1>. DEFINE r == CHOOSE to : to = [m \in Levels |-> Up(to, m)]
<1>8. r = [m \in Levels |-> Up(r, m)]
  BY <1>7
<1>9. r = SubtreesTo
  BY DEF SubtreesTo, Up
<1>. HIDE DEF r
<1>10. \A n \in Levels : SubtreesTo[n] = Up(SubtreesTo, n)
  BY <1>8, <1>9
<1>11. 0 \in Levels /\ \A n \in Nat : n < MaxHeight => n + 1 \in Levels /\ (n + 1) - 1 = n
  BY <1>1 DEF Levels
<1>12. \A t \in TreesTo[0] : t = Empty
  BY TreesToIs
<1>13. \A t \in TreesTo[0] : SubtreesTo[0][t] = {}
  BY <1>10, <1>11, <1>12 DEF Up
<1>14. ASSUME NEW n \in Nat, n < MaxHeight, NEW t \in TreesTo[n + 1]
       PROVE  SubtreesTo[n + 1][t] =
        IF t = Empty THEN {}
        ELSE {t} \cup SubtreesTo[n][Left(t)] \cup SubtreesTo[n][Right(t)]
  <2>1. SubtreesTo[n + 1] = Up(SubtreesTo, n + 1) /\ (n + 1) - 1 = n
    BY <1>10, <1>11, <1>14
  <2>. QED
    BY <2>1 DEF Up
<1>. QED
  BY <1>13, <1>14

\* One level more to go down changes nothing for a tree that is low enough.
LEMMA SubtreesToSame ==
    ASSUME NEW n \in Nat, n < MaxHeight
    PROVE  \A t \in TreesTo[n] : SubtreesTo[n + 1][t] = SubtreesTo[n][t]
<1>. DEFINE J == {m \in Nat : m < MaxHeight =>
                    \A t \in TreesTo[m] : SubtreesTo[m + 1][t] = SubtreesTo[m][t]}
<1>1. 0 \in J
  <2>. SUFFICES ASSUME 0 < MaxHeight, NEW t \in TreesTo[0]
                PROVE  SubtreesTo[0 + 1][t] = SubtreesTo[0][t]
    OBVIOUS
  <2>1. t = Empty /\ t \in TreesTo[0 + 1]
    BY TreesLevel, TreesToIs
  <2>2. SubtreesTo[0][t] = {}
    BY SubtreesToIs
  <2>3. SubtreesTo[0 + 1][t] = {}
    BY <2>1, SubtreesToIs
  <2>. QED
    BY <2>2, <2>3
<1>2. ASSUME NEW m \in Nat, m \in J PROVE m + 1 \in J
  <2>. SUFFICES ASSUME m + 1 < MaxHeight, NEW t \in TreesTo[m + 1]
                PROVE  SubtreesTo[(m + 1) + 1][t] = SubtreesTo[m + 1][t]
    OBVIOUS
  <2>1. t = Empty \/ \E l, r \in TreesTo[m], d \in Int : t = Node(l, d, r)
    BY TreesToIs, TreesLevel
  <2>2. m < MaxHeight /\ m + 1 \in Nat /\ t \in TreesTo[(m + 1) + 1]
    BY TreesToIs, TreesLevel
  <2>3. CASE t = Empty
    BY <2>2, <2>3, SubtreesToIs
  <2>4. ASSUME NEW l \in TreesTo[m], NEW r \in TreesTo[m], NEW d \in Int, t = Node(l, d, r)
        PROVE  SubtreesTo[(m + 1) + 1][t] = SubtreesTo[m + 1][t]
    <3>1. /\ t # Empty /\ Left(t) = l /\ Data(t) = d /\ Right(t) = r
      BY <2>4, NodeParts
    <3>2. /\ SubtreesTo[m + 1][l] = SubtreesTo[m][l]
          /\ SubtreesTo[m + 1][r] = SubtreesTo[m][r]
      BY <1>2, <2>2
    <3>3. SubtreesTo[(m + 1) + 1][t] = {t} \cup SubtreesTo[m + 1][l] \cup SubtreesTo[m + 1][r]
      <4>1. SubtreesTo[(m + 1) + 1][t] =
               IF t = Empty THEN {}
               ELSE {t} \cup SubtreesTo[m + 1][Left(t)] \cup SubtreesTo[m + 1][Right(t)]
        BY ONLY <2>2, m + 1 < MaxHeight, SubtreesToIs, Zenon
      <4>. QED
        BY ONLY <3>1, <4>1, Zenon
    <3>4. SubtreesTo[m + 1][t] = {t} \cup SubtreesTo[m][l] \cup SubtreesTo[m][r]
      <4>1. SubtreesTo[m + 1][t] =
               IF t = Empty THEN {}
               ELSE {t} \cup SubtreesTo[m][Left(t)] \cup SubtreesTo[m][Right(t)]
        BY ONLY <2>2, m \in Nat, t \in TreesTo[m + 1], SubtreesToIs, Zenon
      <4>. QED
        BY ONLY <3>1, <4>1, Zenon
    <3>. QED
      BY <3>2, <3>3, <3>4
  <2>. QED
    BY <2>1, <2>3, <2>4
<1>. QED
  <2>. HIDE DEF J
  <2>1. n \in J
    BY <1>1, <1>2, NatInduct
  <2>. QED
    BY <2>1 DEF J

-----------------------------------------------------------------------------
(* Trees without their levels.                                             *)

\* The trees of n levels are trees.
LEMMA LevelsAreTrees ==
    ASSUME NEW n \in Levels
    PROVE  TreesTo[n] \subseteq Trees
<1>. DEFINE J == {k \in Nat : k <= MaxHeight => TreesTo[MaxHeight - k] \subseteq Trees}
<1>1. 0 \in J
  BY TreesToIs DEF Trees
<1>2. ASSUME NEW k \in Nat, k \in J PROVE k + 1 \in J
  <2>. SUFFICES ASSUME k + 1 <= MaxHeight PROVE TreesTo[MaxHeight - (k + 1)] \subseteq Trees
    OBVIOUS
  <2>1. TreesTo[MaxHeight - k] \subseteq Trees /\ MaxHeight - (k + 1) \in Nat
        /\ MaxHeight - (k + 1) < MaxHeight /\ (MaxHeight - (k + 1)) + 1 = MaxHeight - k
    BY <1>2, TreesToIs
  <2>. QED
    BY <2>1, TreesLevel
<1>3. MaxHeight - n \in Nat /\ MaxHeight - n <= MaxHeight /\ MaxHeight - (MaxHeight - n) = n
  BY TreesToIs DEF Levels
<1>4. MaxHeight - n \in J
  <2>. HIDE DEF J
  <2>. QED
    BY <1>1, <1>2, <1>3, NatInduct
<1>. QED
  BY <1>3, <1>4

\* A tree is empty or a node on two trees of one level less.
LEMMA TreeIs ==
    /\ Empty \in Trees
    /\ \A t \in Trees : t # Empty =>
          /\ MaxHeight > 0
          /\ \E l, r \in TreesTo[MaxHeight - 1], d \in Int : t = Node(l, d, r)
<1>1. MaxHeight \in Nat /\ TreesTo[0] = {Empty}
  BY TreesToIs
<1>2. 0 \in Levels
  BY <1>1 DEF Levels
<1>3. ASSUME MaxHeight # 0, NEW t \in Trees, t # Empty
      PROVE  \E l, r \in TreesTo[MaxHeight - 1], d \in Int : t = Node(l, d, r)
  <2>1. MaxHeight - 1 \in Nat /\ MaxHeight - 1 < MaxHeight /\ (MaxHeight - 1) + 1 = MaxHeight
    BY <1>1, <1>3
  <2>. QED
    BY <1>3, <2>1, TreesLevel DEF Trees
<1>4. MaxHeight = 0 => Trees = {Empty}
  BY <1>1 DEF Trees
<1>. QED
  BY <1>1, <1>2, <1>3, <1>4, LevelsAreTrees

\* Induction over the trees.
LEMMA TreeInductTo ==
    ASSUME NEW P, Empty \in P,
           \A l, r \in Trees \cap P, d \in Int : Node(l, d, r) \in Trees => Node(l, d, r) \in P
    PROVE  Trees \subseteq P
<1>. DEFINE J == {n \in Nat : n <= MaxHeight => TreesTo[n] \subseteq P}
<1>1. 0 \in J
  BY TreesToIs
<1>2. ASSUME NEW n \in Nat, n \in J PROVE n + 1 \in J
  <2>. SUFFICES ASSUME n + 1 <= MaxHeight, NEW t \in TreesTo[n + 1] PROVE t \in P
    OBVIOUS
  <2>1. n < MaxHeight /\ n \in Levels /\ n + 1 \in Levels
    BY TreesToIs DEF Levels
  <2>2. TreesTo[n] \subseteq P /\ TreesTo[n] \subseteq Trees /\ t \in Trees
    BY <1>2, <2>1, LevelsAreTrees, TreesToIs
  <2>3. t = Empty \/ \E l, r \in TreesTo[n], d \in Int : t = Node(l, d, r)
    BY <2>1, TreesLevel
  <2>. QED
    BY <2>2, <2>3
<1>3. MaxHeight \in J
  <2>. HIDE DEF J
  <2>. QED
    BY <1>1, <1>2, NatInduct, TreesToIs
<1>. QED
  BY <1>3, TreesToIs DEF Trees

\* What is below a node has one level less.
LEMMA NodeBelow ==
    ASSUME NEW l, NEW d, NEW r, Node(l, d, r) \in Trees
    PROVE  /\ MaxHeight - 1 \in Nat /\ MaxHeight - 1 < MaxHeight /\ (MaxHeight - 1) + 1 = MaxHeight
           /\ l \in TreesTo[MaxHeight - 1] /\ r \in TreesTo[MaxHeight - 1]
           /\ l \in Trees /\ r \in Trees /\ d \in Int
<1>1. MaxHeight > 0 /\ \E a, b \in TreesTo[MaxHeight - 1], e \in Int : Node(l, d, r) = Node(a, e, b)
  BY TreeIs, NodeParts
<1>2. l \in TreesTo[MaxHeight - 1] /\ r \in TreesTo[MaxHeight - 1] /\ d \in Int
  BY <1>1 DEF Node
<1>3. MaxHeight - 1 \in Nat /\ MaxHeight - 1 < MaxHeight /\ (MaxHeight - 1) + 1 = MaxHeight
  BY <1>1, TreesToIs
<1>4. MaxHeight - 1 \in Levels
  BY <1>3, TreesToIs DEF Levels
<1>. QED
  BY <1>2, <1>3, <1>4, LevelsAreTrees

\* Induction over the trees.
LEMMA TreeInduct ==
    ASSUME NEW P, Empty \in P,
           \A l, r \in Trees \cap P, d \in Int : Node(l, d, r) \in Trees => Node(l, d, r) \in P
    PROVE  Trees \subseteq P
  BY TreeInductTo

\* The height of a tree.
LEMMA heightNode ==
    /\ height(Empty) = 0
    /\ \A l, d, r : Node(l, d, r) \in Trees =>
          height(Node(l, d, r)) =
             IF height(l) > height(r) THEN 1 + height(l) ELSE 1 + height(r)
<1>1. height(Empty) = 0
  <2>1. CASE MaxHeight = 0
    BY <2>1, TreesToIs, heightsIs DEF height
  <2>2. CASE MaxHeight # 0
    <3>1. MaxHeight - 1 \in Nat /\ MaxHeight - 1 < MaxHeight /\ (MaxHeight - 1) + 1 = MaxHeight
      BY <2>2, TreesToIs
    <3>. QED
      BY <3>1, heightsIs, TreeIs DEF height, Trees
  <2>. QED
    BY <2>1, <2>2
<1>2. ASSUME NEW l, NEW d, NEW r, Node(l, d, r) \in Trees
      PROVE  height(Node(l, d, r)) =
                IF height(l) > height(r) THEN 1 + height(l) ELSE 1 + height(r)
  <2>. DEFINE n == MaxHeight - 1
              t == Node(l, d, r)
  <2>1. /\ n \in Nat /\ n < MaxHeight /\ n + 1 = MaxHeight
        /\ l \in TreesTo[n] /\ r \in TreesTo[n]
    BY <1>2, NodeBelow
  <2>2. t # Empty /\ Left(t) = l /\ Right(t) = r
    BY NodeParts
  <2>. HIDE DEF n, t
  <2>3. heights[n][l] = heights[MaxHeight][l] /\ heights[n][r] = heights[MaxHeight][r]
    BY <2>1, heightsSame
  <2>4. t \in TreesTo[n + 1]
    BY <1>2, <2>1 DEF t, Trees
  <2>5. heights[n + 1][t] =
           IF heights[n][l] > heights[n][r] THEN 1 + heights[n][l] ELSE 1 + heights[n][r]
    BY <2>1, <2>2, <2>4, heightsIs
  <2>. QED
    BY <2>1, <2>3, <2>5 DEF height, t
<1>. QED
  BY <1>1, <1>2

\* Heights are numbers; a tree of n levels is one of height n at most.
LEMMA heightLevel ==
    /\ \A t \in Trees : height(t) \in Nat
    /\ \A n \in Levels, t \in Trees : t \in TreesTo[n] <=> height(t) <= n
<1>1. \A t \in Trees : height(t) \in Nat
  <2>. DEFINE P == {t \in Trees : height(t) \in Nat}
  <2>1. Empty \in P
    BY TreeIs, heightNode
  <2>2. ASSUME NEW l \in Trees \cap P, NEW r \in Trees \cap P, NEW d \in Int, Node(l, d, r) \in Trees
        PROVE  Node(l, d, r) \in P
    BY <2>2, heightNode
  <2>. HIDE DEF P
  <2>3. Trees \subseteq P
    BY <2>1, <2>2, TreeInduct
  <2>. QED
    BY <2>3 DEF P
<1>. DEFINE K == {n \in Nat : n <= MaxHeight => \A t \in Trees : t \in TreesTo[n] <=> height(t) <= n}
<1>2. 0 \in K
  <2>1. ASSUME NEW t \in Trees PROVE t \in TreesTo[0] <=> height(t) <= 0
    <3>1. CASE t = Empty
      BY <3>1, heightNode, TreesToIs
    <3>2. CASE t # Empty
      <4>1. PICK l, r, d : t = Node(l, d, r)
        BY <3>2, TreeIs
      <4>2. height(l) \in Nat /\ height(r) \in Nat
        BY <1>1, <4>1, NodeBelow
      <4>. QED
        BY <3>2, <4>1, <4>2, heightNode, TreesToIs
    <3>. QED
      BY <3>1, <3>2
  <2>. QED
    BY <2>1
<1>3. ASSUME NEW n \in Nat, n \in K PROVE n + 1 \in K
  <2>. SUFFICES ASSUME n + 1 <= MaxHeight, NEW t \in Trees
                PROVE  t \in TreesTo[n + 1] <=> height(t) <= n + 1
    OBVIOUS
  <2>1. n < MaxHeight /\ n \in Levels /\ n + 1 \in Levels
    BY TreesToIs DEF Levels
  <2>2. CASE t = Empty
    BY <2>1, <2>2, heightNode, TreesToIs
  <2>3. CASE t # Empty
    <3>1. PICK l, r, d : t = Node(l, d, r)
      BY <2>3, TreeIs
    <3>2. height(l) \in Nat /\ height(r) \in Nat /\ l \in Trees /\ r \in Trees /\ d \in Int
      BY <1>1, <3>1, NodeBelow
    <3>3. t \in TreesTo[n + 1] <=> l \in TreesTo[n] /\ r \in TreesTo[n]
      <4>1. t \in TreesTo[n + 1] => \E a, b \in TreesTo[n], e \in Int : t = Node(a, e, b)
        BY <2>1, <2>3, TreesLevel
      <4>2. l \in TreesTo[n] /\ r \in TreesTo[n] => t \in TreesTo[n + 1]
        BY <2>1, <3>1, <3>2, TreesLevel
      <4>. QED
        BY <3>1, <4>1, <4>2 DEF Node
    <3>4. height(t) = IF height(l) > height(r) THEN 1 + height(l) ELSE 1 + height(r)
      BY <3>1, heightNode
    <3>5. /\ l \in TreesTo[n] <=> height(l) <= n
          /\ r \in TreesTo[n] <=> height(r) <= n
      BY <1>3, <2>1, <3>2, TreesToIs
    <3>. QED
      BY <3>2, <3>3, <3>4, <3>5
  <2>. QED
    BY <2>2, <2>3
<1>4. ASSUME NEW n \in Levels PROVE n \in K
  <2>. HIDE DEF K
  <2>1. n \in Nat
    BY DEF Levels
  <2>. QED
    BY <1>2, <1>3, <2>1, NatInduct
<1>5. \A n \in Levels : n \in Nat /\ n <= MaxHeight
  BY TreesToIs DEF Levels
<1>. QED
  BY <1>1, <1>4, <1>5

\* What makes a node a tree.
LEMMA NodeIsTree ==
    ASSUME NEW l, NEW d, NEW r
    PROVE  Node(l, d, r) \in Trees <=>
              /\ l \in Trees /\ height(l) < MaxHeight
              /\ r \in Trees /\ height(r) < MaxHeight
              /\ d \in Int
<1>1. ASSUME Node(l, d, r) \in Trees
      PROVE  /\ l \in Trees /\ height(l) < MaxHeight
             /\ r \in Trees /\ height(r) < MaxHeight
             /\ d \in Int
  <2>1. /\ MaxHeight - 1 \in Nat /\ l \in TreesTo[MaxHeight - 1] /\ r \in TreesTo[MaxHeight - 1]
        /\ l \in Trees /\ r \in Trees /\ d \in Int
    BY <1>1, NodeBelow
  <2>2. MaxHeight - 1 \in Levels
    BY <2>1, TreesToIs DEF Levels
  <2>3. height(l) <= MaxHeight - 1 /\ height(r) <= MaxHeight - 1 /\ height(l) \in Nat /\ height(r) \in Nat
    BY <2>1, <2>2, heightLevel
  <2>. QED
    BY <2>1, <2>3, TreesToIs
<1>2. ASSUME l \in Trees, height(l) < MaxHeight, r \in Trees, height(r) < MaxHeight, d \in Int
      PROVE  Node(l, d, r) \in Trees
  <2>1. height(l) \in Nat /\ height(r) \in Nat
    BY <1>2, heightLevel
  <2>2. MaxHeight - 1 \in Nat /\ MaxHeight - 1 \in Levels /\ (MaxHeight - 1) + 1 = MaxHeight
    BY <1>2, <2>1, TreesToIs DEF Levels
  <2>3. l \in TreesTo[MaxHeight - 1] /\ r \in TreesTo[MaxHeight - 1]
    BY <1>2, <2>1, <2>2, heightLevel, TreesToIs
  <2>. QED
    BY <1>2, <2>2, <2>3, TreesLevel DEF Trees
<1>. QED
  BY <1>1, <1>2

\* Where the rightmost node is.
LEMMA inorder_preNode ==
    /\ inorder_pre(Empty) = Empty
    /\ \A l, d, r : Node(l, d, r) \in Trees =>
          inorder_pre(Node(l, d, r)) =
             IF r = Empty THEN Node(l, d, r) ELSE inorder_pre(r)
<1>1. inorder_pre(Empty) = Empty
  <2>1. CASE MaxHeight = 0
    BY <2>1, TreesToIs, inorder_presIs DEF inorder_pre
  <2>2. CASE MaxHeight # 0
    <3>1. MaxHeight - 1 \in Nat /\ MaxHeight - 1 < MaxHeight /\ (MaxHeight - 1) + 1 = MaxHeight
      BY <2>2, TreesToIs
    <3>. QED
      BY <3>1, inorder_presIs, TreeIs DEF inorder_pre, Trees
  <2>. QED
    BY <2>1, <2>2
<1>2. ASSUME NEW l, NEW d, NEW r, Node(l, d, r) \in Trees
      PROVE  inorder_pre(Node(l, d, r)) =
             IF r = Empty THEN Node(l, d, r) ELSE inorder_pre(r)
  <2>. DEFINE n == MaxHeight - 1
              t == Node(l, d, r)
  <2>1. /\ n \in Nat /\ n < MaxHeight /\ n + 1 = MaxHeight
        /\ l \in TreesTo[n] /\ r \in TreesTo[n] /\ l \in Trees /\ r \in Trees
    BY <1>2, NodeBelow
  <2>2. t # Empty /\ Left(t) = l /\ Data(t) = d /\ Right(t) = r
        /\ (IsLeaf(t) <=> l = Empty /\ r = Empty)
    BY NodeParts
  <2>. HIDE DEF n, t
  <2>3. /\ inorder_pres[n][l] = inorder_pres[MaxHeight][l]
        /\ inorder_pres[n][r] = inorder_pres[MaxHeight][r]
    BY <2>1, inorder_presSame
  <2>4. t \in TreesTo[n + 1]
    BY <1>2, <2>1 DEF t, Trees
  <2>5. inorder_pres[n + 1][t] =
           IF r = Empty THEN t ELSE inorder_pres[n][r]
    BY <2>1, <2>2, <2>4, inorder_presIs
  <2>. QED
    BY <2>1, <2>3, <2>5 DEF inorder_pre, t
<1>. QED
  BY <1>1, <1>2

\* Where the leftmost node is.
LEMMA inorder_succNode ==
    /\ inorder_succ(Empty) = Empty
    /\ \A l, d, r : Node(l, d, r) \in Trees =>
          inorder_succ(Node(l, d, r)) =
             IF l = Empty THEN Node(l, d, r) ELSE inorder_succ(l)
<1>1. inorder_succ(Empty) = Empty
  <2>1. CASE MaxHeight = 0
    BY <2>1, TreesToIs, inorder_succsIs DEF inorder_succ
  <2>2. CASE MaxHeight # 0
    <3>1. MaxHeight - 1 \in Nat /\ MaxHeight - 1 < MaxHeight /\ (MaxHeight - 1) + 1 = MaxHeight
      BY <2>2, TreesToIs
    <3>. QED
      BY <3>1, inorder_succsIs, TreeIs DEF inorder_succ, Trees
  <2>. QED
    BY <2>1, <2>2
<1>2. ASSUME NEW l, NEW d, NEW r, Node(l, d, r) \in Trees
      PROVE  inorder_succ(Node(l, d, r)) =
             IF l = Empty THEN Node(l, d, r) ELSE inorder_succ(l)
  <2>. DEFINE n == MaxHeight - 1
              t == Node(l, d, r)
  <2>1. /\ n \in Nat /\ n < MaxHeight /\ n + 1 = MaxHeight
        /\ l \in TreesTo[n] /\ r \in TreesTo[n] /\ l \in Trees /\ r \in Trees
    BY <1>2, NodeBelow
  <2>2. t # Empty /\ Left(t) = l /\ Data(t) = d /\ Right(t) = r
        /\ (IsLeaf(t) <=> l = Empty /\ r = Empty)
    BY NodeParts
  <2>. HIDE DEF n, t
  <2>3. /\ inorder_succs[n][l] = inorder_succs[MaxHeight][l]
        /\ inorder_succs[n][r] = inorder_succs[MaxHeight][r]
    BY <2>1, inorder_succsSame
  <2>4. t \in TreesTo[n + 1]
    BY <1>2, <2>1 DEF t, Trees
  <2>5. inorder_succs[n + 1][t] =
           IF l = Empty THEN t ELSE inorder_succs[n][l]
    BY <2>1, <2>2, <2>4, inorder_succsIs
  <2>. QED
    BY <2>1, <2>3, <2>5 DEF inorder_succ, t
<1>. QED
  BY <1>1, <1>2

\* The walk of a node.
LEMMA inorder_displayNode ==
    /\ inorder_display(Empty) = << >>
    /\ \A l, d, r : Node(l, d, r) \in Trees =>
          inorder_display(Node(l, d, r)) =
             inorder_display(l) \o << d >> \o inorder_display(r)
<1>1. inorder_display(Empty) = << >>
  <2>1. CASE MaxHeight = 0
    BY <2>1, TreesToIs, inorder_displaysIs DEF inorder_display
  <2>2. CASE MaxHeight # 0
    <3>1. MaxHeight - 1 \in Nat /\ MaxHeight - 1 < MaxHeight /\ (MaxHeight - 1) + 1 = MaxHeight
      BY <2>2, TreesToIs
    <3>. QED
      BY <3>1, inorder_displaysIs, TreeIs DEF inorder_display, Trees
  <2>. QED
    BY <2>1, <2>2
<1>2. ASSUME NEW l, NEW d, NEW r, Node(l, d, r) \in Trees
      PROVE  inorder_display(Node(l, d, r)) =
             inorder_display(l) \o << d >> \o inorder_display(r)
  <2>. DEFINE n == MaxHeight - 1
              t == Node(l, d, r)
  <2>1. /\ n \in Nat /\ n < MaxHeight /\ n + 1 = MaxHeight
        /\ l \in TreesTo[n] /\ r \in TreesTo[n] /\ l \in Trees /\ r \in Trees
    BY <1>2, NodeBelow
  <2>2. t # Empty /\ Left(t) = l /\ Data(t) = d /\ Right(t) = r
        /\ (IsLeaf(t) <=> l = Empty /\ r = Empty)
    BY NodeParts
  <2>. HIDE DEF n, t
  <2>3. /\ inorder_displays[n][l] = inorder_displays[MaxHeight][l]
        /\ inorder_displays[n][r] = inorder_displays[MaxHeight][r]
    BY <2>1, inorder_displaysSame
  <2>4. t \in TreesTo[n + 1]
    BY <1>2, <2>1 DEF t, Trees
  <2>5. inorder_displays[n + 1][t] =
           inorder_displays[n][l] \o << d >> \o inorder_displays[n][r]
    BY <2>1, <2>2, <2>4, inorder_displaysIs
  <2>. QED
    BY <2>1, <2>3, <2>5 DEF inorder_display, t
<1>. QED
  BY <1>1, <1>2

\* The subtrees of a node.
LEMMA SubtreesNode ==
    /\ Subtrees(Empty) = {}
    /\ \A l, d, r : Node(l, d, r) \in Trees =>
          Subtrees(Node(l, d, r)) =
             {Node(l, d, r)} \cup Subtrees(l) \cup Subtrees(r)
<1>1. Subtrees(Empty) = {}
  <2>1. CASE MaxHeight = 0
    BY <2>1, TreesToIs, SubtreesToIs DEF Subtrees
  <2>2. CASE MaxHeight # 0
    <3>1. MaxHeight - 1 \in Nat /\ MaxHeight - 1 < MaxHeight /\ (MaxHeight - 1) + 1 = MaxHeight
      BY <2>2, TreesToIs
    <3>. QED
      BY <3>1, SubtreesToIs, TreeIs DEF Subtrees, Trees
  <2>. QED
    BY <2>1, <2>2
<1>2. ASSUME NEW l, NEW d, NEW r, Node(l, d, r) \in Trees
      PROVE  Subtrees(Node(l, d, r)) =
             {Node(l, d, r)} \cup Subtrees(l) \cup Subtrees(r)
  <2>. DEFINE n == MaxHeight - 1
              t == Node(l, d, r)
  <2>1. /\ n \in Nat /\ n < MaxHeight /\ n + 1 = MaxHeight
        /\ l \in TreesTo[n] /\ r \in TreesTo[n] /\ l \in Trees /\ r \in Trees
    BY <1>2, NodeBelow
  <2>2. t # Empty /\ Left(t) = l /\ Data(t) = d /\ Right(t) = r
        /\ (IsLeaf(t) <=> l = Empty /\ r = Empty)
    BY NodeParts
  <2>. HIDE DEF n, t
  <2>3. /\ SubtreesTo[n][l] = SubtreesTo[MaxHeight][l]
        /\ SubtreesTo[n][r] = SubtreesTo[MaxHeight][r]
    BY <2>1, SubtreesToSame
  <2>4. t \in TreesTo[n + 1]
    BY <1>2, <2>1 DEF t, Trees
  <2>5. SubtreesTo[n + 1][t] =
           {t} \cup SubtreesTo[n][l] \cup SubtreesTo[n][r]
    <3>1. SubtreesTo[n + 1][t] =
             IF t = Empty THEN {}
             ELSE {t} \cup SubtreesTo[n][Left(t)] \cup SubtreesTo[n][Right(t)]
      BY ONLY <2>1, <2>4, SubtreesToIs, Zenon
    <3>. QED
      BY ONLY <2>2, <3>1, Zenon
  <2>. QED
    BY <2>1, <2>3, <2>5 DEF Subtrees, t
<1>. QED
  BY <1>1, <1>2

-----------------------------------------------------------------------------
(* What is in a tree, and where.                                           *)

\* A sequence with an element and another sequence behind it.
LEMMA JoinIs ==
    ASSUME NEW s \in Seq(Int), NEW d \in Int, NEW u \in Seq(Int)
    PROVE  LET w == s \o << d >> \o u
               m == Len(s)
           IN  /\ w \in Seq(Int) /\ m \in Nat /\ Len(u) \in Nat /\ Len(w) = m + 1 + Len(u)
               /\ \A i \in 1 .. m : w[i] = s[i]
               /\ w[m + 1] = d
               /\ \A i \in 1 .. Len(u) : w[m + 1 + i] = u[i]
<1>. DEFINE v == s \o << d >>
            w == v \o u
            m == Len(s)
            k == Len(u)
<1>1. m \in Nat /\ k \in Nat
  OBVIOUS
<1>2. /\ v \in Seq(Int) /\ Len(v) = m + 1
      /\ \A i \in 1 .. m : v[i] = s[i]
      /\ v[m + 1] = d
  OBVIOUS
<1>. HIDE DEF v
<1>3. /\ w \in Seq(Int) /\ Len(w) = m + 1 + k
      /\ \A i \in 1 .. m + 1 + k : w[i] = IF i <= m + 1 THEN v[i] ELSE u[i - (m + 1)]
  BY <1>1, <1>2, ConcatProperties
<1>. HIDE DEF w, m, k
<1>4. \A i \in 1 .. m : w[i] = s[i]
  BY <1>1, <1>2, <1>3
<1>5. w[m + 1] = d
  BY <1>1, <1>2, <1>3
<1>6. ASSUME NEW i \in 1 .. k PROVE w[m + 1 + i] = u[i]
  <2>1. m + 1 + i \in 1 .. m + 1 + k /\ ~ (m + 1 + i <= m + 1) /\ m + 1 + i - (m + 1) = i
    BY <1>1
  <2>. DEFINE j == m + 1 + i
  <2>2. j \in 1 .. m + 1 + k /\ ~ (j <= m + 1) /\ j - (m + 1) = i
    BY <1>1, <2>1
  <2>. HIDE DEF j
  <2>3. w[j] = u[j - (m + 1)]
    BY ONLY <1>3, <2>2
  <2>. QED
    BY <2>2, <2>3 DEF j
<1>. QED
  BY <1>1, <1>3, <1>4, <1>5, <1>6 DEF w, v, m, k

\* A walk is a sequence of integers.
LEMMA WalkType == \A t \in Trees : inorder_display(t) \in Seq(Int)
<1>. DEFINE P == {t \in Trees : inorder_display(t) \in Seq(Int)}
<1>1. Empty \in P
  BY TreeIs, inorder_displayNode
<1>2. ASSUME NEW l \in Trees \cap P, NEW r \in Trees \cap P, NEW d \in Int, Node(l, d, r) \in Trees
      PROVE  Node(l, d, r) \in P
  <2>1. inorder_display(Node(l, d, r)) \in Seq(Int)
    BY <1>2, inorder_displayNode, JoinIs
  <2>. QED
    BY <1>2, <2>1
<1>. HIDE DEF P
<1>3. Trees \subseteq P
  BY <1>1, <1>2, TreeInduct
<1>. QED
  BY <1>3 DEF P

\* The keys of a tree.
LEMMA KeysNode ==
    /\ KeysOf(Empty) = {}
    /\ \A l, d, r : Node(l, d, r) \in Trees =>
          KeysOf(Node(l, d, r)) = KeysOf(l) \cup {d} \cup KeysOf(r)
    /\ \A t \in Trees : KeysOf(t) \subseteq Int
<1>1. KeysOf(Empty) = {}
  BY inorder_displayNode DEF KeysOf
<1>2. ASSUME NEW l, NEW d, NEW r, Node(l, d, r) \in Trees
      PROVE  KeysOf(Node(l, d, r)) = KeysOf(l) \cup {d} \cup KeysOf(r)
  <2>. DEFINE s == inorder_display(l)
              u == inorder_display(r)
              w == s \o << d >> \o u
              m == Len(s)
              k == Len(u)
  <2>1. s \in Seq(Int) /\ u \in Seq(Int) /\ d \in Int /\ inorder_display(Node(l, d, r)) = w
    BY <1>2, NodeBelow, WalkType, inorder_displayNode
  <2>2. /\ w \in Seq(Int) /\ m \in Nat /\ k \in Nat /\ Len(w) = m + 1 + k
        /\ \A i \in 1 .. m : w[i] = s[i]
        /\ w[m + 1] = d
        /\ \A i \in 1 .. k : w[m + 1 + i] = u[i]
    BY <2>1, JoinIs
  <2>3. /\ KeysOf(l) = {s[i] : i \in 1 .. m}
        /\ KeysOf(r) = {u[i] : i \in 1 .. k}
        /\ KeysOf(Node(l, d, r)) = {w[i] : i \in 1 .. m + 1 + k}
    <3>1. DOMAIN s = 1 .. m /\ DOMAIN u = 1 .. k /\ DOMAIN w = 1 .. m + 1 + k
      BY <2>1, <2>2
    <3>. QED
      BY <2>1, <3>1 DEF KeysOf
  <2>. HIDE DEF s, u, w, m, k
  <2>4. ASSUME NEW i \in 1 .. m + 1 + k PROVE w[i] \in KeysOf(l) \cup {d} \cup KeysOf(r)
    <3>1. CASE i <= m
      <4>1. i \in 1 .. m
        BY <2>2, <3>1
      <4>2. w[i] = s[i]
        BY <2>2, <4>1
      <4>. QED
        BY <2>3, <4>1, <4>2
    <3>2. CASE i = m + 1
      BY <2>2, <3>2
    <3>3. CASE i > m + 1
      <4>1. i - (m + 1) \in 1 .. k /\ m + 1 + (i - (m + 1)) = i
        BY <2>2, <3>3
      <4>2. w[i] = u[i - (m + 1)]
        BY <2>2, <4>1
      <4>. QED
        BY <2>3, <4>1, <4>2
    <3>. QED
      BY <2>2, <3>1, <3>2, <3>3
  <2>5. ASSUME NEW i \in 1 .. m PROVE s[i] \in KeysOf(Node(l, d, r))
    <3>1. i \in 1 .. m + 1 + k /\ w[i] = s[i]
      BY <2>2
    <3>. QED
      BY <2>3, <3>1
  <2>6. ASSUME NEW i \in 1 .. k PROVE u[i] \in KeysOf(Node(l, d, r))
    <3>1. m + 1 + i \in 1 .. m + 1 + k /\ w[m + 1 + i] = u[i]
      BY <2>2
    <3>. QED
      BY <2>3, <3>1
  <2>7. d \in KeysOf(Node(l, d, r))
    <3>1. m + 1 \in 1 .. m + 1 + k /\ w[m + 1] = d
      BY <2>2
    <3>. QED
      BY <2>3, <3>1
  <2>. QED
    BY <2>3, <2>4, <2>5, <2>6, <2>7
<1>3. ASSUME NEW t \in Trees PROVE KeysOf(t) \subseteq Int
  <2>1. inorder_display(t) \in Seq(Int)
    BY WalkType
  <2>2. ASSUME NEW s \in Seq(Int) PROVE \A i \in DOMAIN s : s[i] \in Int
    OBVIOUS
  <2>. QED
    BY <2>1, <2>2 DEF KeysOf
<1>. QED
  BY <1>1, <1>2, <1>3

\* A tree is sorted if both sides are and its key is between them.
LEMMA SortedNode ==
    /\ Sorted(Empty)
    /\ \A l, d, r : Node(l, d, r) \in Trees =>
          (Sorted(Node(l, d, r)) <=>
             /\ Sorted(l) /\ Sorted(r)
             /\ \A x \in KeysOf(l) : x < d
             /\ \A x \in KeysOf(r) : d < x)
<1>1. Sorted(Empty)
  BY inorder_displayNode DEF Sorted
<1>2. ASSUME NEW l, NEW d, NEW r, Node(l, d, r) \in Trees
      PROVE  Sorted(Node(l, d, r)) <=>
               /\ Sorted(l) /\ Sorted(r)
               /\ \A x \in KeysOf(l) : x < d
               /\ \A x \in KeysOf(r) : d < x
  <2>. DEFINE s == inorder_display(l)
              u == inorder_display(r)
              w == s \o << d >> \o u
              m == Len(s)
              k == Len(u)
  <2>1. s \in Seq(Int) /\ u \in Seq(Int) /\ d \in Int /\ inorder_display(Node(l, d, r)) = w
    BY <1>2, NodeBelow, WalkType, inorder_displayNode
  <2>2. /\ w \in Seq(Int) /\ m \in Nat /\ k \in Nat /\ Len(w) = m + 1 + k
        /\ \A i \in 1 .. m : w[i] = s[i]
        /\ w[m + 1] = d
        /\ \A i \in 1 .. k : w[m + 1 + i] = u[i]
    BY <2>1, JoinIs
  <2>3. DOMAIN s = 1 .. m /\ DOMAIN u = 1 .. k /\ DOMAIN w = 1 .. m + 1 + k
    BY <2>1, <2>2
  <2>4. /\ KeysOf(l) = {s[i] : i \in 1 .. m}
        /\ KeysOf(r) = {u[i] : i \in 1 .. k}
        /\ Sorted(l) <=> \A i, j \in 1 .. m : i < j => s[i] < s[j]
        /\ Sorted(r) <=> \A i, j \in 1 .. k : i < j => u[i] < u[j]
        /\ Sorted(Node(l, d, r)) <=> \A i, j \in 1 .. m + 1 + k : i < j => w[i] < w[j]
    BY <2>1, <2>3 DEF KeysOf, Sorted
  <2>5. /\ \A i \in 1 .. m : s[i] \in Int
        /\ \A i \in 1 .. k : u[i] \in Int
    BY <2>1
  <2>. HIDE DEF s, u, w, m, k
  <2>6. ASSUME Sorted(Node(l, d, r))
        PROVE  /\ Sorted(l) /\ Sorted(r)
               /\ \A x \in KeysOf(l) : x < d
               /\ \A x \in KeysOf(r) : d < x
    <3>1. \A i, j \in 1 .. m + 1 + k : i < j => w[i] < w[j]
      BY <2>4, <2>6
    <3>2. ASSUME NEW i \in 1 .. m, NEW j \in 1 .. m, i < j PROVE s[i] < s[j]
      <4>1. i \in 1 .. m + 1 + k /\ j \in 1 .. m + 1 + k /\ w[i] = s[i] /\ w[j] = s[j]
        BY <2>2
      <4>. QED
        BY <3>1, <3>2, <4>1
    <3>3. ASSUME NEW i \in 1 .. k, NEW j \in 1 .. k, i < j PROVE u[i] < u[j]
      <4>1. /\ m + 1 + i \in 1 .. m + 1 + k /\ m + 1 + j \in 1 .. m + 1 + k /\ m + 1 + i < m + 1 + j
            /\ w[m + 1 + i] = u[i] /\ w[m + 1 + j] = u[j]
        BY <2>2, <3>3
      <4>2. \E a, b \in 1 .. m + 1 + k : a < b /\ w[a] = u[i] /\ w[b] = u[j]
        BY <4>1
      <4>. QED
        BY <3>1, <4>2
    <3>4. ASSUME NEW i \in 1 .. m PROVE s[i] < d
      <4>1. i \in 1 .. m + 1 + k /\ m + 1 \in 1 .. m + 1 + k /\ i < m + 1 /\ w[i] = s[i] /\ w[m + 1] = d
        BY <2>2
      <4>2. w[i] < w[m + 1]
        BY <3>1, <4>1
      <4>. QED
        BY <4>1, <4>2
    <3>5. ASSUME NEW i \in 1 .. k PROVE d < u[i]
      <4>1. /\ m + 1 \in 1 .. m + 1 + k /\ m + 1 + i \in 1 .. m + 1 + k /\ m + 1 < m + 1 + i
            /\ w[m + 1] = d /\ w[m + 1 + i] = u[i]
        BY <2>2
      <4>2. \E a, b \in 1 .. m + 1 + k : a < b /\ w[a] = d /\ w[b] = u[i]
        BY <4>1
      <4>. QED
        BY <3>1, <4>2
    <3>. QED
      BY <2>4, <3>2, <3>3, <3>4, <3>5
  <2>7. ASSUME Sorted(l), Sorted(r), \A x \in KeysOf(l) : x < d, \A x \in KeysOf(r) : d < x
        PROVE  Sorted(Node(l, d, r))
    <3>1. /\ \A i, j \in 1 .. m : i < j => s[i] < s[j]
          /\ \A i, j \in 1 .. k : i < j => u[i] < u[j]
          /\ \A i \in 1 .. m : s[i] < d
          /\ \A i \in 1 .. k : d < u[i]
      BY <2>4, <2>7
    <3>2. ASSUME NEW i \in 1 .. m + 1 + k, NEW j \in 1 .. m + 1 + k, i < j PROVE w[i] < w[j]
      <4>1. CASE j <= m
        <5>1. i \in 1 .. m /\ j \in 1 .. m
          BY <2>2, <3>2, <4>1
        <5>. QED
          BY <2>2, <3>1, <3>2, <5>1
      <4>2. CASE j = m + 1
        <5>1. i \in 1 .. m
          BY <2>2, <3>2, <4>2
        <5>. QED
          BY <2>2, <3>1, <4>2, <5>1
      <4>3. CASE j > m + 1
        <5>1. j - (m + 1) \in 1 .. k /\ m + 1 + (j - (m + 1)) = j
          BY <2>2, <4>3
        <5>2. w[j] = u[j - (m + 1)]
          BY <2>2, <5>1
        <5>3. CASE i <= m
          <6>1. i \in 1 .. m /\ w[i] = s[i]
            BY <2>2, <5>3
          <6>2. s[i] < d /\ d < u[j - (m + 1)] /\ s[i] \in Int /\ u[j - (m + 1)] \in Int
            BY <2>5, <3>1, <5>1, <6>1
          <6>. QED
            BY <2>1, <5>2, <6>1, <6>2
        <5>4. CASE i = m + 1
          BY <2>2, <3>1, <5>1, <5>2, <5>4
        <5>5. CASE i > m + 1
          <6>1. i - (m + 1) \in 1 .. k /\ m + 1 + (i - (m + 1)) = i /\ i - (m + 1) < j - (m + 1)
            BY <2>2, <3>2, <5>5
          <6>2. w[i] = u[i - (m + 1)]
            BY <2>2, <6>1
          <6>. QED
            BY <3>1, <5>1, <5>2, <6>1, <6>2
        <5>. QED
          BY <2>2, <5>3, <5>4, <5>5
      <4>. QED
        BY <2>2, <4>1, <4>2, <4>3
    <3>. QED
      BY <2>4, <3>2
  <2>. QED
    BY <2>6, <2>7
<1>. QED
  BY <1>1, <1>2

\* The rightmost and the leftmost node have the biggest and the smallest key.
LEMMA NeighbourIs ==
    \A t \in Trees : t # Empty =>
       /\ Data(inorder_pre(t)) \in KeysOf(t) /\ Data(inorder_succ(t)) \in KeysOf(t)
       /\ Sorted(t) => \A x \in KeysOf(t) : x <= Data(inorder_pre(t)) /\ Data(inorder_succ(t)) <= x
<1>. DEFINE Fits(t) ==
              t # Empty =>
                /\ Data(inorder_pre(t)) \in KeysOf(t) /\ Data(inorder_succ(t)) \in KeysOf(t)
                /\ Sorted(t) => \A x \in KeysOf(t) :
                                   x <= Data(inorder_pre(t)) /\ Data(inorder_succ(t)) <= x
            P == {t \in Trees : Fits(t)}
<1>1. Empty \in P
  BY TreeIs
<1>2. ASSUME NEW l \in Trees \cap P, NEW r \in Trees \cap P, NEW d \in Int, Node(l, d, r) \in Trees
      PROVE  Node(l, d, r) \in P
  <2>. DEFINE t == Node(l, d, r)
              e == Data(inorder_pre(t))
              f == Data(inorder_succ(t))
  <2>1. KeysOf(t) = KeysOf(l) \cup {d} \cup KeysOf(r) /\ KeysOf(l) \subseteq Int /\ KeysOf(r) \subseteq Int
    BY <1>2, KeysNode
  <2>2. Data(t) = d
    BY NodeParts
  <2>3. /\ e = IF r = Empty THEN d ELSE Data(inorder_pre(r))
        /\ f = IF l = Empty THEN d ELSE Data(inorder_succ(l))
    BY <1>2, <2>2, inorder_preNode, inorder_succNode
  <2>4. Sorted(t) => /\ Sorted(l) /\ Sorted(r)
                     /\ \A x \in KeysOf(l) : x < d
                     /\ \A x \in KeysOf(r) : d < x
    BY <1>2, SortedNode
  <2>5. KeysOf(Empty) = {}
    BY KeysNode
  <2>. HIDE DEF t, e, f
  <2>6. e \in KeysOf(t) /\ f \in KeysOf(t)
    BY <1>2, <2>1, <2>3
  <2>7. ASSUME Sorted(t), NEW x \in KeysOf(t) PROVE x <= e
    <3>1. CASE r = Empty
      BY <2>1, <2>3, <2>4, <2>5, <2>7, <3>1
    <3>2. CASE r # Empty
      <4>1. e \in KeysOf(r) /\ \A y \in KeysOf(r) : y <= e
        BY <1>2, <2>3, <2>4, <2>7, <3>2
      <4>. QED
        BY <2>1, <2>4, <2>7, <4>1
    <3>. QED
      BY <3>1, <3>2
  <2>8. ASSUME Sorted(t), NEW x \in KeysOf(t) PROVE f <= x
    <3>1. CASE l = Empty
      BY <2>1, <2>3, <2>4, <2>5, <2>8, <3>1
    <3>2. CASE l # Empty
      <4>1. f \in KeysOf(l) /\ \A y \in KeysOf(l) : f <= y
        BY <1>2, <2>3, <2>4, <2>8, <3>2
      <4>. QED
        BY <2>1, <2>4, <2>8, <4>1
    <3>. QED
      BY <3>1, <3>2
  <2>. QED
    BY <1>2, <2>6, <2>7, <2>8 DEF t, e, f
<1>. HIDE DEF P
<1>3. Trees \subseteq P
  BY <1>1, <1>2, TreeInduct
<1>. QED
  BY <1>3 DEF P

\* The values that can replace the one of a node with a child.
LEMMA ReplacementIs ==
    ASSUME NEW l \in Trees, NEW r \in Trees, l # Empty \/ r # Empty
    PROVE  /\ height(l) > height(r) =>
                l # Empty /\ Data(inorder_pre(l)) \in KeysOf(l) /\ Data(inorder_pre(l)) \in Int
           /\ ~ (height(l) > height(r)) =>
                r # Empty /\ Data(inorder_succ(r)) \in KeysOf(r) /\ Data(inorder_succ(r)) \in Int
<1>1. height(l) \in Nat /\ height(r) \in Nat /\ KeysOf(l) \subseteq Int /\ KeysOf(r) \subseteq Int
  BY heightLevel, KeysNode
<1>2. ASSUME NEW t \in Trees, t # Empty PROVE height(t) > 0
  <2>1. PICK a, b, e : t = Node(a, e, b)
    BY <1>2, TreeIs
  <2>2. height(a) \in Nat /\ height(b) \in Nat
    BY <2>1, NodeBelow, heightLevel
  <2>. QED
    BY <2>1, <2>2, heightNode
<1>3. height(Empty) = 0
  BY heightNode
<1>4. height(l) > height(r) => l # Empty
  BY <1>1, <1>3
<1>5. ~ (height(l) > height(r)) => r # Empty
  BY <1>1, <1>2, <1>3
<1>. QED
  BY <1>1, <1>4, <1>5, NeighbourIs

\* BST::insert in a tree of n levels.
LEMMA BST_insertsIs ==
    /\ \A t \in TreesTo[0], k \in Int : BST_inserts[0][t][k] = Node(Empty, k, Empty)
    /\ \A n \in Nat : n < MaxHeight => \A t \in TreesTo[n + 1], k \in Int : BST_inserts[n + 1][t][k] =
        IF t = Empty THEN Node(Empty, k, Empty)
        ELSE IF k < Data(t) THEN Node(BST_inserts[n][Left(t)][k], Data(t), Right(t))
        ELSE IF k > Data(t) THEN Node(Left(t), Data(t), BST_inserts[n][Right(t)][k])
        ELSE t
<1>. DEFINE Up(f, n) == [t \in TreesTo[n] |-> [k \in Int |->
        IF t = Empty THEN Node(Empty, k, Empty)
        ELSE IF k < Data(t) THEN Node(f[n - 1][Left(t)][k], Data(t), Right(t))
        ELSE IF k > Data(t) THEN Node(Left(t), Data(t), f[n - 1][Right(t)][k])
        ELSE t]]
<1>1. MaxHeight \in Nat
  BY HeightAssumption
<1>2. ASSUME NEW f, NEW g, NEW n \in Levels, n # 0 => g[n - 1] = f[n - 1]
      PROVE  Up(g, n) = Up(f, n)
  BY <1>2, TreesToIs
<1>. DEFINE Run(f, n) == f = [m \in Levels |-> f[m]] /\ \A m \in 0 .. n : f[m] = Up(f, m)
            K == {n \in Nat : n <= MaxHeight => \E f : Run(f, n)}
<1>. HIDE DEF Up
<1>3. 0 \in K
  <2>. DEFINE f == [m \in Levels |-> Up(Empty, 0)]
  <2>1. f = [m \in Levels |-> f[m]] /\ f[0] = Up(Empty, 0)
    BY <1>1 DEF Levels
  <2>2. Up(f, 0) = Up(Empty, 0)
    BY ONLY <1>1, <1>2 DEF Levels
  <2>. HIDE DEF f
  <2>3. Run(f, 0)
    BY <2>1, <2>2
  <2>. HIDE DEF Run
  <2>. QED
    BY <2>3
<1>4. ASSUME NEW n \in Nat, n \in K PROVE n + 1 \in K
  <2>. SUFFICES ASSUME n + 1 <= MaxHeight PROVE \E f : Run(f, n + 1)
    OBVIOUS
  <2>1. PICK f : Run(f, n)
    <3>. HIDE DEF Run
    <3>. QED
      BY <1>1, <1>4
  <2>. DEFINE g == [m \in Levels |-> IF m = n + 1 THEN Up(f, n + 1) ELSE f[m]]
  <2>2. \A m \in 0 .. n : g[m] = f[m]
    BY <1>1 DEF Levels
  <2>3. g[n + 1] = Up(f, n + 1) /\ g = [m \in Levels |-> g[m]]
    BY <1>1 DEF Levels
  <2>. HIDE DEF g
  <2>4. ASSUME NEW m \in 0 .. n + 1 PROVE g[m] = Up(g, m)
    <3>1. m \in Levels /\ (m # 0 => g[m - 1] = f[m - 1])
      BY <1>1, <2>2 DEF Levels
    <3>2. Up(g, m) = Up(f, m)
      BY <1>2, <3>1
    <3>. QED
      BY <2>1, <2>2, <2>3, <3>2
  <2>5. Run(g, n + 1)
    BY <2>3, <2>4
  <2>. HIDE DEF Run
  <2>. QED
    BY <2>5
<1>5. MaxHeight \in K
  <2>. HIDE DEF K
  <2>. QED
    BY <1>1, <1>3, <1>4, NatInduct
<1>6. PICK f : Run(f, MaxHeight)
  <2>. HIDE DEF Run
  <2>. QED
    BY <1>1, <1>5
<1>7. f = [m \in Levels |-> Up(f, m)]
  BY <1>6 DEF Levels
<1>. DEFINE r == CHOOSE to : to = [m \in Levels |-> Up(to, m)]
<1>8. r = [m \in Levels |-> Up(r, m)]
  BY <1>7
<1>9. r = BST_inserts
  BY DEF BST_inserts, Up
<1>. HIDE DEF r
<1>10. \A n \in Levels : BST_inserts[n] = Up(BST_inserts, n)
  BY <1>8, <1>9
<1>11. 0 \in Levels /\ \A n \in Nat : n < MaxHeight => n + 1 \in Levels /\ (n + 1) - 1 = n
  BY <1>1 DEF Levels
<1>12. \A t \in TreesTo[0] : t = Empty
  BY TreesToIs
<1>13. \A t \in TreesTo[0], k \in Int : BST_inserts[0][t][k] = Node(Empty, k, Empty)
  <2>. SUFFICES ASSUME NEW t \in TreesTo[0], NEW k \in Int PROVE BST_inserts[0][t][k] = Node(Empty, k, Empty)
    OBVIOUS
  <2>1. BST_inserts[0] = Up(BST_inserts, 0) /\ t = Empty
    BY <1>10, <1>11, <1>12
  <2>. QED
    BY <2>1 DEF Up
<1>14. ASSUME NEW n \in Nat, n < MaxHeight, NEW t \in TreesTo[n + 1], NEW k \in Int
       PROVE  BST_inserts[n + 1][t][k] =
        IF t = Empty THEN Node(Empty, k, Empty)
        ELSE IF k < Data(t) THEN Node(BST_inserts[n][Left(t)][k], Data(t), Right(t))
        ELSE IF k > Data(t) THEN Node(Left(t), Data(t), BST_inserts[n][Right(t)][k])
        ELSE t
  <2>1. BST_inserts[n + 1] = Up(BST_inserts, n + 1) /\ (n + 1) - 1 = n
    BY <1>10, <1>11, <1>14
  <2>. QED
    BY <2>1 DEF Up
<1>. QED
  BY <1>13, <1>14

\* One level more to go down changes nothing for a tree that is low enough.
LEMMA BST_insertsSame ==
    ASSUME NEW n \in Nat, n < MaxHeight
    PROVE  \A t \in TreesTo[n], k \in Int : BST_inserts[n + 1][t][k] = BST_inserts[n][t][k]
<1>. DEFINE J == {m \in Nat : m < MaxHeight =>
                    \A t \in TreesTo[m], k \in Int : BST_inserts[m + 1][t][k] = BST_inserts[m][t][k]}
<1>1. 0 \in J
  <2>. SUFFICES ASSUME 0 < MaxHeight, NEW t \in TreesTo[0], NEW k \in Int
                PROVE  BST_inserts[0 + 1][t][k] = BST_inserts[0][t][k]
    OBVIOUS
  <2>1. t = Empty /\ t \in TreesTo[0 + 1]
    BY TreesLevel, TreesToIs
  <2>2. BST_inserts[0][t][k] = Node(Empty, k, Empty)
    BY BST_insertsIs
  <2>3. BST_inserts[0 + 1][t][k] = Node(Empty, k, Empty)
    BY <2>1, BST_insertsIs
  <2>. QED
    BY <2>2, <2>3
<1>2. ASSUME NEW m \in Nat, m \in J PROVE m + 1 \in J
  <2>. SUFFICES ASSUME m + 1 < MaxHeight, NEW t \in TreesTo[m + 1], NEW k \in Int
                PROVE  BST_inserts[(m + 1) + 1][t][k] = BST_inserts[m + 1][t][k]
    OBVIOUS
  <2>1. t = Empty \/ \E l, r \in TreesTo[m], d \in Int : t = Node(l, d, r)
    BY TreesToIs, TreesLevel
  <2>2. m < MaxHeight /\ m + 1 \in Nat /\ t \in TreesTo[(m + 1) + 1]
    BY TreesToIs, TreesLevel
  <2>3. CASE t = Empty
    BY <2>2, <2>3, BST_insertsIs
  <2>4. ASSUME NEW l \in TreesTo[m], NEW r \in TreesTo[m], NEW d \in Int, t = Node(l, d, r)
        PROVE  BST_inserts[(m + 1) + 1][t][k] = BST_inserts[m + 1][t][k]
    <3>1. /\ t # Empty /\ Left(t) = l /\ Data(t) = d /\ Right(t) = r
      BY <2>4, NodeParts
    <3>2. \A z \in Int : /\ BST_inserts[m + 1][l][z] = BST_inserts[m][l][z]
                         /\ BST_inserts[m + 1][r][z] = BST_inserts[m][r][z]
      BY <1>2, <2>2
    <3>. QED
      BY <2>2, <2>4, <3>1, <3>2, BST_insertsIs
  <2>. QED
    BY <2>1, <2>3, <2>4
<1>. QED
  <2>. HIDE DEF J
  <2>1. n \in J
    BY <1>1, <1>2, NatInduct
  <2>. QED
    BY <2>1 DEF J

\* BST::insert at a node.
LEMMA BST_insertNode ==
    /\ \A k \in Int : BST_insert(Empty, k) = Node(Empty, k, Empty)
    /\ \A l, d, r : Node(l, d, r) \in Trees =>
          \A k \in Int : BST_insert(Node(l, d, r), k) =
             IF k < d THEN Node(BST_insert(l, k), d, r)
             ELSE IF k > d THEN Node(l, d, BST_insert(r, k))
             ELSE Node(l, d, r)
<1>1. \A k \in Int : BST_insert(Empty, k) = Node(Empty, k, Empty)
  <2>1. CASE MaxHeight = 0
    BY <2>1, TreesToIs, BST_insertsIs DEF BST_insert
  <2>2. CASE MaxHeight # 0
    <3>1. MaxHeight - 1 \in Nat /\ MaxHeight - 1 < MaxHeight /\ (MaxHeight - 1) + 1 = MaxHeight
      BY <2>2, TreesToIs
    <3>. QED
      BY <3>1, BST_insertsIs, TreeIs DEF BST_insert, Trees
  <2>. QED
    BY <2>1, <2>2
<1>2. ASSUME NEW l, NEW d, NEW r, Node(l, d, r) \in Trees, NEW k \in Int
      PROVE  BST_insert(Node(l, d, r), k) =
             IF k < d THEN Node(BST_insert(l, k), d, r)
             ELSE IF k > d THEN Node(l, d, BST_insert(r, k))
             ELSE Node(l, d, r)
  <2>. DEFINE n == MaxHeight - 1
              t == Node(l, d, r)
  <2>1. /\ n \in Nat /\ n < MaxHeight /\ n + 1 = MaxHeight
        /\ l \in TreesTo[n] /\ r \in TreesTo[n] /\ l \in Trees /\ r \in Trees
    BY <1>2, NodeBelow
  <2>2. t # Empty /\ Left(t) = l /\ Data(t) = d /\ Right(t) = r
        /\ (IsLeaf(t) <=> l = Empty /\ r = Empty)
    BY NodeParts
  <2>. HIDE DEF n, t
  <2>3. \A z \in Int : /\ BST_inserts[n][l][z] = BST_inserts[MaxHeight][l][z]
                       /\ BST_inserts[n][r][z] = BST_inserts[MaxHeight][r][z]
    BY <2>1, BST_insertsSame
  <2>4. t \in TreesTo[n + 1]
    BY <1>2, <2>1 DEF t, Trees
  <2>5. BST_inserts[n + 1][t][k] =
             IF k < d THEN Node(BST_inserts[n][l][k], d, r)
             ELSE IF k > d THEN Node(l, d, BST_inserts[n][r][k])
             ELSE t
    BY <2>1, <2>2, <2>4, BST_insertsIs
  <2>. QED
    BY <2>1, <2>3, <2>5 DEF BST_insert, t
<1>. QED
  BY <1>1, <1>2

\* BST::search in a tree of n levels.
LEMMA BST_searchesIs ==
    /\ \A t \in TreesTo[0], k \in Int : BST_searches[0][t][k] = Empty
    /\ \A n \in Nat : n < MaxHeight => \A t \in TreesTo[n + 1], k \in Int : BST_searches[n + 1][t][k] =
        IF t = Empty \/ Data(t) = k THEN t
        ELSE BST_searches[n][IF Data(t) > k THEN Left(t) ELSE Right(t)][k]
<1>. DEFINE Up(f, n) == [t \in TreesTo[n] |-> [k \in Int |->
        IF t = Empty \/ Data(t) = k THEN t
        ELSE f[n - 1][IF Data(t) > k THEN Left(t) ELSE Right(t)][k]]]
<1>1. MaxHeight \in Nat
  BY HeightAssumption
<1>2. ASSUME NEW f, NEW g, NEW n \in Levels, n # 0 => g[n - 1] = f[n - 1]
      PROVE  Up(g, n) = Up(f, n)
  BY <1>2, TreesToIs
<1>. DEFINE Run(f, n) == f = [m \in Levels |-> f[m]] /\ \A m \in 0 .. n : f[m] = Up(f, m)
            K == {n \in Nat : n <= MaxHeight => \E f : Run(f, n)}
<1>. HIDE DEF Up
<1>3. 0 \in K
  <2>. DEFINE f == [m \in Levels |-> Up(Empty, 0)]
  <2>1. f = [m \in Levels |-> f[m]] /\ f[0] = Up(Empty, 0)
    BY <1>1 DEF Levels
  <2>2. Up(f, 0) = Up(Empty, 0)
    BY ONLY <1>1, <1>2 DEF Levels
  <2>. HIDE DEF f
  <2>3. Run(f, 0)
    BY <2>1, <2>2
  <2>. HIDE DEF Run
  <2>. QED
    BY <2>3
<1>4. ASSUME NEW n \in Nat, n \in K PROVE n + 1 \in K
  <2>. SUFFICES ASSUME n + 1 <= MaxHeight PROVE \E f : Run(f, n + 1)
    OBVIOUS
  <2>1. PICK f : Run(f, n)
    <3>. HIDE DEF Run
    <3>. QED
      BY <1>1, <1>4
  <2>. DEFINE g == [m \in Levels |-> IF m = n + 1 THEN Up(f, n + 1) ELSE f[m]]
  <2>2. \A m \in 0 .. n : g[m] = f[m]
    BY <1>1 DEF Levels
  <2>3. g[n + 1] = Up(f, n + 1) /\ g = [m \in Levels |-> g[m]]
    BY <1>1 DEF Levels
  <2>. HIDE DEF g
  <2>4. ASSUME NEW m \in 0 .. n + 1 PROVE g[m] = Up(g, m)
    <3>1. m \in Levels /\ (m # 0 => g[m - 1] = f[m - 1])
      BY <1>1, <2>2 DEF Levels
    <3>2. Up(g, m) = Up(f, m)
      BY <1>2, <3>1
    <3>. QED
      BY <2>1, <2>2, <2>3, <3>2
  <2>5. Run(g, n + 1)
    BY <2>3, <2>4
  <2>. HIDE DEF Run
  <2>. QED
    BY <2>5
<1>5. MaxHeight \in K
  <2>. HIDE DEF K
  <2>. QED
    BY <1>1, <1>3, <1>4, NatInduct
<1>6. PICK f : Run(f, MaxHeight)
  <2>. HIDE DEF Run
  <2>. QED
    BY <1>1, <1>5
<1>7. f = [m \in Levels |-> Up(f, m)]
  BY <1>6 DEF Levels
<1>. DEFINE r == CHOOSE to : to = [m \in Levels |-> Up(to, m)]
<1>8. r = [m \in Levels |-> Up(r, m)]
  BY <1>7
<1>9. r = BST_searches
  BY DEF BST_searches, Up
<1>. HIDE DEF r
<1>10. \A n \in Levels : BST_searches[n] = Up(BST_searches, n)
  BY <1>8, <1>9
<1>11. 0 \in Levels /\ \A n \in Nat : n < MaxHeight => n + 1 \in Levels /\ (n + 1) - 1 = n
  BY <1>1 DEF Levels
<1>12. \A t \in TreesTo[0] : t = Empty
  BY TreesToIs
<1>13. \A t \in TreesTo[0], k \in Int : BST_searches[0][t][k] = Empty
  <2>. SUFFICES ASSUME NEW t \in TreesTo[0], NEW k \in Int PROVE BST_searches[0][t][k] = Empty
    OBVIOUS
  <2>1. BST_searches[0] = Up(BST_searches, 0) /\ t = Empty
    BY <1>10, <1>11, <1>12
  <2>. QED
    BY <2>1 DEF Up
<1>14. ASSUME NEW n \in Nat, n < MaxHeight, NEW t \in TreesTo[n + 1], NEW k \in Int
       PROVE  BST_searches[n + 1][t][k] =
        IF t = Empty \/ Data(t) = k THEN t
        ELSE BST_searches[n][IF Data(t) > k THEN Left(t) ELSE Right(t)][k]
  <2>1. BST_searches[n + 1] = Up(BST_searches, n + 1) /\ (n + 1) - 1 = n
    BY <1>10, <1>11, <1>14
  <2>. QED
    BY <2>1 DEF Up
<1>. QED
  BY <1>13, <1>14

\* One level more to go down changes nothing for a tree that is low enough.
LEMMA BST_searchesSame ==
    ASSUME NEW n \in Nat, n < MaxHeight
    PROVE  \A t \in TreesTo[n], k \in Int : BST_searches[n + 1][t][k] = BST_searches[n][t][k]
<1>. DEFINE J == {m \in Nat : m < MaxHeight =>
                    \A t \in TreesTo[m], k \in Int : BST_searches[m + 1][t][k] = BST_searches[m][t][k]}
<1>1. 0 \in J
  <2>. SUFFICES ASSUME 0 < MaxHeight, NEW t \in TreesTo[0], NEW k \in Int
                PROVE  BST_searches[0 + 1][t][k] = BST_searches[0][t][k]
    OBVIOUS
  <2>1. t = Empty /\ t \in TreesTo[0 + 1]
    BY TreesLevel, TreesToIs
  <2>2. BST_searches[0][t][k] = Empty
    BY BST_searchesIs
  <2>3. BST_searches[0 + 1][t][k] = Empty
    BY <2>1, BST_searchesIs
  <2>. QED
    BY <2>2, <2>3
<1>2. ASSUME NEW m \in Nat, m \in J PROVE m + 1 \in J
  <2>. SUFFICES ASSUME m + 1 < MaxHeight, NEW t \in TreesTo[m + 1], NEW k \in Int
                PROVE  BST_searches[(m + 1) + 1][t][k] = BST_searches[m + 1][t][k]
    OBVIOUS
  <2>1. t = Empty \/ \E l, r \in TreesTo[m], d \in Int : t = Node(l, d, r)
    BY TreesToIs, TreesLevel
  <2>2. m < MaxHeight /\ m + 1 \in Nat /\ t \in TreesTo[(m + 1) + 1]
    BY TreesToIs, TreesLevel
  <2>3. CASE t = Empty
    BY <2>2, <2>3, BST_searchesIs
  <2>4. ASSUME NEW l \in TreesTo[m], NEW r \in TreesTo[m], NEW d \in Int, t = Node(l, d, r)
        PROVE  BST_searches[(m + 1) + 1][t][k] = BST_searches[m + 1][t][k]
    <3>1. /\ t # Empty /\ Left(t) = l /\ Data(t) = d /\ Right(t) = r
      BY <2>4, NodeParts
    <3>2. \A z \in Int : /\ BST_searches[m + 1][l][z] = BST_searches[m][l][z]
                         /\ BST_searches[m + 1][r][z] = BST_searches[m][r][z]
      BY <1>2, <2>2
    <3>. QED
      BY <2>2, <2>4, <3>1, <3>2, BST_searchesIs
  <2>. QED
    BY <2>1, <2>3, <2>4
<1>. QED
  <2>. HIDE DEF J
  <2>1. n \in J
    BY <1>1, <1>2, NatInduct
  <2>. QED
    BY <2>1 DEF J

\* BST::search at a node.
LEMMA BST_searchNode ==
    /\ \A k \in Int : BST_search(Empty, k) = Empty
    /\ \A l, d, r : Node(l, d, r) \in Trees =>
          \A k \in Int : BST_search(Node(l, d, r), k) =
             IF d = k THEN Node(l, d, r) ELSE BST_search(IF d > k THEN l ELSE r, k)
<1>1. \A k \in Int : BST_search(Empty, k) = Empty
  <2>1. CASE MaxHeight = 0
    BY <2>1, TreesToIs, BST_searchesIs DEF BST_search
  <2>2. CASE MaxHeight # 0
    <3>1. MaxHeight - 1 \in Nat /\ MaxHeight - 1 < MaxHeight /\ (MaxHeight - 1) + 1 = MaxHeight
      BY <2>2, TreesToIs
    <3>. QED
      BY <3>1, BST_searchesIs, TreeIs DEF BST_search, Trees
  <2>. QED
    BY <2>1, <2>2
<1>2. ASSUME NEW l, NEW d, NEW r, Node(l, d, r) \in Trees, NEW k \in Int
      PROVE  BST_search(Node(l, d, r), k) =
             IF d = k THEN Node(l, d, r) ELSE BST_search(IF d > k THEN l ELSE r, k)
  <2>. DEFINE n == MaxHeight - 1
              t == Node(l, d, r)
  <2>1. /\ n \in Nat /\ n < MaxHeight /\ n + 1 = MaxHeight
        /\ l \in TreesTo[n] /\ r \in TreesTo[n] /\ l \in Trees /\ r \in Trees
    BY <1>2, NodeBelow
  <2>2. t # Empty /\ Left(t) = l /\ Data(t) = d /\ Right(t) = r
        /\ (IsLeaf(t) <=> l = Empty /\ r = Empty)
    BY NodeParts
  <2>. HIDE DEF n, t
  <2>3. \A z \in Int : /\ BST_searches[n][l][z] = BST_searches[MaxHeight][l][z]
                       /\ BST_searches[n][r][z] = BST_searches[MaxHeight][r][z]
    BY <2>1, BST_searchesSame
  <2>4. t \in TreesTo[n + 1]
    BY <1>2, <2>1 DEF t, Trees
  <2>5. BST_searches[n + 1][t][k] =
             IF d = k THEN t ELSE BST_searches[n][IF d > k THEN l ELSE r][k]
    BY <2>1, <2>2, <2>4, BST_searchesIs
  <2>. QED
    BY <2>1, <2>3, <2>5 DEF BST_search, t
<1>. QED
  BY <1>1, <1>2

\* BST::del in a tree of n levels.
LEMMA BST_delsIs ==
    /\ \A t \in TreesTo[0], k \in Int : BST_dels[0][t][k] = Empty
    /\ \A n \in Nat : n < MaxHeight => \A t \in TreesTo[n + 1], k \in Int : BST_dels[n + 1][t][k] =
        IF t = Empty \/ IsLeaf(t) THEN Empty
        ELSE IF k < Data(t) THEN Node(BST_dels[n][Left(t)][k], Data(t), Right(t))
        ELSE IF k > Data(t) THEN Node(Left(t), Data(t), BST_dels[n][Right(t)][k])
        ELSE IF height(Left(t)) > height(Right(t))
             THEN LET inpre == inorder_pre(Left(t))
                  IN  Node(BST_dels[n][Left(t)][Data(inpre)], Data(inpre), Right(t))
             ELSE LET insuc == inorder_succ(Right(t))
                  IN  Node(Left(t), Data(insuc), BST_dels[n][Right(t)][Data(insuc)])
<1>. DEFINE Up(f, n) == [t \in TreesTo[n] |-> [k \in Int |->
        IF t = Empty \/ IsLeaf(t) THEN Empty
        ELSE IF k < Data(t) THEN Node(f[n - 1][Left(t)][k], Data(t), Right(t))
        ELSE IF k > Data(t) THEN Node(Left(t), Data(t), f[n - 1][Right(t)][k])
        ELSE IF height(Left(t)) > height(Right(t))
             THEN LET inpre == inorder_pre(Left(t))
                  IN  Node(f[n - 1][Left(t)][Data(inpre)], Data(inpre), Right(t))
             ELSE LET insuc == inorder_succ(Right(t))
                  IN  Node(Left(t), Data(insuc), f[n - 1][Right(t)][Data(insuc)])]]
<1>1. MaxHeight \in Nat
  BY HeightAssumption
<1>2. ASSUME NEW f, NEW g, NEW n \in Levels, n # 0 => g[n - 1] = f[n - 1]
      PROVE  Up(g, n) = Up(f, n)
  BY <1>2, TreesToIs
<1>. DEFINE Run(f, n) == f = [m \in Levels |-> f[m]] /\ \A m \in 0 .. n : f[m] = Up(f, m)
            K == {n \in Nat : n <= MaxHeight => \E f : Run(f, n)}
<1>. HIDE DEF Up
<1>3. 0 \in K
  <2>. DEFINE f == [m \in Levels |-> Up(Empty, 0)]
  <2>1. f = [m \in Levels |-> f[m]] /\ f[0] = Up(Empty, 0)
    BY <1>1 DEF Levels
  <2>2. Up(f, 0) = Up(Empty, 0)
    BY ONLY <1>1, <1>2 DEF Levels
  <2>. HIDE DEF f
  <2>3. Run(f, 0)
    BY <2>1, <2>2
  <2>. HIDE DEF Run
  <2>. QED
    BY <2>3
<1>4. ASSUME NEW n \in Nat, n \in K PROVE n + 1 \in K
  <2>. SUFFICES ASSUME n + 1 <= MaxHeight PROVE \E f : Run(f, n + 1)
    OBVIOUS
  <2>1. PICK f : Run(f, n)
    <3>. HIDE DEF Run
    <3>. QED
      BY <1>1, <1>4
  <2>. DEFINE g == [m \in Levels |-> IF m = n + 1 THEN Up(f, n + 1) ELSE f[m]]
  <2>2. \A m \in 0 .. n : g[m] = f[m]
    BY <1>1 DEF Levels
  <2>3. g[n + 1] = Up(f, n + 1) /\ g = [m \in Levels |-> g[m]]
    BY <1>1 DEF Levels
  <2>. HIDE DEF g
  <2>4. ASSUME NEW m \in 0 .. n + 1 PROVE g[m] = Up(g, m)
    <3>1. m \in Levels /\ (m # 0 => g[m - 1] = f[m - 1])
      BY <1>1, <2>2 DEF Levels
    <3>2. Up(g, m) = Up(f, m)
      BY <1>2, <3>1
    <3>. QED
      BY <2>1, <2>2, <2>3, <3>2
  <2>5. Run(g, n + 1)
    BY <2>3, <2>4
  <2>. HIDE DEF Run
  <2>. QED
    BY <2>5
<1>5. MaxHeight \in K
  <2>. HIDE DEF K
  <2>. QED
    BY <1>1, <1>3, <1>4, NatInduct
<1>6. PICK f : Run(f, MaxHeight)
  <2>. HIDE DEF Run
  <2>. QED
    BY <1>1, <1>5
<1>7. f = [m \in Levels |-> Up(f, m)]
  BY <1>6 DEF Levels
<1>. DEFINE r == CHOOSE to : to = [m \in Levels |-> Up(to, m)]
<1>8. r = [m \in Levels |-> Up(r, m)]
  BY <1>7
<1>9. r = BST_dels
  BY DEF BST_dels, Up
<1>. HIDE DEF r
<1>10. \A n \in Levels : BST_dels[n] = Up(BST_dels, n)
  BY <1>8, <1>9
<1>11. 0 \in Levels /\ \A n \in Nat : n < MaxHeight => n + 1 \in Levels /\ (n + 1) - 1 = n
  BY <1>1 DEF Levels
<1>12. \A t \in TreesTo[0] : t = Empty
  BY TreesToIs
<1>13. \A t \in TreesTo[0], k \in Int : BST_dels[0][t][k] = Empty
  <2>. SUFFICES ASSUME NEW t \in TreesTo[0], NEW k \in Int PROVE BST_dels[0][t][k] = Empty
    OBVIOUS
  <2>1. BST_dels[0] = Up(BST_dels, 0) /\ t = Empty
    BY <1>10, <1>11, <1>12
  <2>. QED
    BY <2>1 DEF Up
<1>14. ASSUME NEW n \in Nat, n < MaxHeight, NEW t \in TreesTo[n + 1], NEW k \in Int
       PROVE  BST_dels[n + 1][t][k] =
        IF t = Empty \/ IsLeaf(t) THEN Empty
        ELSE IF k < Data(t) THEN Node(BST_dels[n][Left(t)][k], Data(t), Right(t))
        ELSE IF k > Data(t) THEN Node(Left(t), Data(t), BST_dels[n][Right(t)][k])
        ELSE IF height(Left(t)) > height(Right(t))
             THEN LET inpre == inorder_pre(Left(t))
                  IN  Node(BST_dels[n][Left(t)][Data(inpre)], Data(inpre), Right(t))
             ELSE LET insuc == inorder_succ(Right(t))
                  IN  Node(Left(t), Data(insuc), BST_dels[n][Right(t)][Data(insuc)])
  <2>1. BST_dels[n + 1] = Up(BST_dels, n + 1) /\ (n + 1) - 1 = n
    BY <1>10, <1>11, <1>14
  <2>. QED
    BY <2>1 DEF Up
<1>. QED
  BY <1>13, <1>14

\* One level more to go down changes nothing for a tree that is low enough.
LEMMA BST_delsSame ==
    ASSUME NEW n \in Nat, n < MaxHeight
    PROVE  \A t \in TreesTo[n], k \in Int : BST_dels[n + 1][t][k] = BST_dels[n][t][k]
<1>. DEFINE J == {m \in Nat : m < MaxHeight =>
                    \A t \in TreesTo[m], k \in Int : BST_dels[m + 1][t][k] = BST_dels[m][t][k]}
<1>1. 0 \in J
  <2>. SUFFICES ASSUME 0 < MaxHeight, NEW t \in TreesTo[0], NEW k \in Int
                PROVE  BST_dels[0 + 1][t][k] = BST_dels[0][t][k]
    OBVIOUS
  <2>1. t = Empty /\ t \in TreesTo[0 + 1]
    BY TreesLevel, TreesToIs
  <2>2. BST_dels[0][t][k] = Empty
    BY BST_delsIs
  <2>3. BST_dels[0 + 1][t][k] = Empty
    BY <2>1, BST_delsIs
  <2>. QED
    BY <2>2, <2>3
<1>2. ASSUME NEW m \in Nat, m \in J PROVE m + 1 \in J
  <2>. SUFFICES ASSUME m + 1 < MaxHeight, NEW t \in TreesTo[m + 1], NEW k \in Int
                PROVE  BST_dels[(m + 1) + 1][t][k] = BST_dels[m + 1][t][k]
    OBVIOUS
  <2>1. t = Empty \/ \E l, r \in TreesTo[m], d \in Int : t = Node(l, d, r)
    BY TreesToIs, TreesLevel
  <2>2. m < MaxHeight /\ m + 1 \in Nat /\ t \in TreesTo[(m + 1) + 1]
    BY TreesToIs, TreesLevel
  <2>3. CASE t = Empty
    BY <2>2, <2>3, BST_delsIs
  <2>4. ASSUME NEW l \in TreesTo[m], NEW r \in TreesTo[m], NEW d \in Int, t = Node(l, d, r)
        PROVE  BST_dels[(m + 1) + 1][t][k] = BST_dels[m + 1][t][k]
    <3>1. /\ t # Empty /\ Left(t) = l /\ Data(t) = d /\ Right(t) = r
      BY <2>4, NodeParts
    <3>2. \A z \in Int : /\ BST_dels[m + 1][l][z] = BST_dels[m][l][z]
                         /\ BST_dels[m + 1][r][z] = BST_dels[m][r][z]
      BY <1>2, <2>2
    <3>3. /\ IsLeaf(t) <=> l = Empty /\ r = Empty
          /\ l # Empty \/ r # Empty =>
                /\ height(l) > height(r) => Data(inorder_pre(l)) \in Int
                /\ ~ (height(l) > height(r)) => Data(inorder_succ(r)) \in Int
      <4>1. m \in Levels
        BY <2>2, TreesToIs DEF Levels
      <4>2. l \in Trees /\ r \in Trees
        BY <4>1, LevelsAreTrees
      <4>. QED
        BY <2>4, <4>2, ReplacementIs, NodeParts
    <3>. QED
      BY <2>2, <2>4, <3>1, <3>2, <3>3, BST_delsIs
  <2>. QED
    BY <2>1, <2>3, <2>4
<1>. QED
  <2>. HIDE DEF J
  <2>1. n \in J
    BY <1>1, <1>2, NatInduct
  <2>. QED
    BY <2>1 DEF J

\* BST::del at a node.
LEMMA BST_delNode ==
    /\ \A k \in Int : BST_del(Empty, k) = Empty
    /\ \A l, d, r : Node(l, d, r) \in Trees =>
          \A k \in Int : BST_del(Node(l, d, r), k) =
             IF l = Empty /\ r = Empty THEN Empty
             ELSE IF k < d THEN Node(BST_del(l, k), d, r)
             ELSE IF k > d THEN Node(l, d, BST_del(r, k))
             ELSE IF height(l) > height(r)
             THEN Node(BST_del(l, Data(inorder_pre(l))), Data(inorder_pre(l)), r)
             ELSE Node(l, Data(inorder_succ(r)), BST_del(r, Data(inorder_succ(r))))
<1>1. \A k \in Int : BST_del(Empty, k) = Empty
  <2>1. CASE MaxHeight = 0
    BY <2>1, TreesToIs, BST_delsIs DEF BST_del
  <2>2. CASE MaxHeight # 0
    <3>1. MaxHeight - 1 \in Nat /\ MaxHeight - 1 < MaxHeight /\ (MaxHeight - 1) + 1 = MaxHeight
      BY <2>2, TreesToIs
    <3>. QED
      BY <3>1, BST_delsIs, TreeIs DEF BST_del, Trees
  <2>. QED
    BY <2>1, <2>2
<1>2. ASSUME NEW l, NEW d, NEW r, Node(l, d, r) \in Trees, NEW k \in Int
      PROVE  BST_del(Node(l, d, r), k) =
             IF l = Empty /\ r = Empty THEN Empty
             ELSE IF k < d THEN Node(BST_del(l, k), d, r)
             ELSE IF k > d THEN Node(l, d, BST_del(r, k))
             ELSE IF height(l) > height(r)
             THEN Node(BST_del(l, Data(inorder_pre(l))), Data(inorder_pre(l)), r)
             ELSE Node(l, Data(inorder_succ(r)), BST_del(r, Data(inorder_succ(r))))
  <2>. DEFINE n == MaxHeight - 1
              t == Node(l, d, r)
  <2>1. /\ n \in Nat /\ n < MaxHeight /\ n + 1 = MaxHeight
        /\ l \in TreesTo[n] /\ r \in TreesTo[n] /\ l \in Trees /\ r \in Trees
    BY <1>2, NodeBelow
  <2>2. t # Empty /\ Left(t) = l /\ Data(t) = d /\ Right(t) = r
        /\ (IsLeaf(t) <=> l = Empty /\ r = Empty)
    BY NodeParts
  <2>. HIDE DEF n, t
  <2>3. \A z \in Int : /\ BST_dels[n][l][z] = BST_dels[MaxHeight][l][z]
                       /\ BST_dels[n][r][z] = BST_dels[MaxHeight][r][z]
    BY <2>1, BST_delsSame
  <2>4. t \in TreesTo[n + 1]
    BY <1>2, <2>1 DEF t, Trees
  <2>5. l # Empty \/ r # Empty =>
           /\ height(l) > height(r) => Data(inorder_pre(l)) \in Int
           /\ ~ (height(l) > height(r)) => Data(inorder_succ(r)) \in Int
    BY <2>1, ReplacementIs
  <2>6. BST_dels[n + 1][t][k] =
             IF l = Empty /\ r = Empty THEN Empty
             ELSE IF k < d THEN Node(BST_dels[n][l][k], d, r)
             ELSE IF k > d THEN Node(l, d, BST_dels[n][r][k])
             ELSE IF height(l) > height(r)
             THEN Node(BST_dels[n][l][Data(inorder_pre(l))], Data(inorder_pre(l)), r)
             ELSE Node(l, Data(inorder_succ(r)), BST_dels[n][r][Data(inorder_succ(r))])
    BY <2>1, <2>2, <2>4, BST_delsIs, <2>5
  <2>. QED
    BY <2>1, <2>3, <2>6, <2>5 DEF BST_del, t
<1>. QED
  BY <1>1, <1>2

\* AVLTree::insert in a tree of n levels.
LEMMA AVLTree_insertsIs ==
    /\ \A t \in TreesTo[0], k \in Int : AVLTree_inserts[0][t][k] = Node(Empty, k, Empty)
    /\ \A n \in Nat : n < MaxHeight => \A t \in TreesTo[n + 1], k \in Int : AVLTree_inserts[n + 1][t][k] =
        IF t = Empty THEN Node(Empty, k, Empty)
        ELSE InsertRotation(
               IF k < Data(t) THEN Node(AVLTree_inserts[n][Left(t)][k], Data(t), Right(t))
               ELSE IF k > Data(t) THEN Node(Left(t), Data(t), AVLTree_inserts[n][Right(t)][k])
               ELSE t)
<1>. DEFINE Up(f, n) == [t \in TreesTo[n] |-> [k \in Int |->
        IF t = Empty THEN Node(Empty, k, Empty)
        ELSE InsertRotation(
               IF k < Data(t) THEN Node(f[n - 1][Left(t)][k], Data(t), Right(t))
               ELSE IF k > Data(t) THEN Node(Left(t), Data(t), f[n - 1][Right(t)][k])
               ELSE t)]]
<1>1. MaxHeight \in Nat
  BY HeightAssumption
<1>2. ASSUME NEW f, NEW g, NEW n \in Levels, n # 0 => g[n - 1] = f[n - 1]
      PROVE  Up(g, n) = Up(f, n)
  BY <1>2, TreesToIs
<1>. DEFINE Run(f, n) == f = [m \in Levels |-> f[m]] /\ \A m \in 0 .. n : f[m] = Up(f, m)
            K == {n \in Nat : n <= MaxHeight => \E f : Run(f, n)}
<1>. HIDE DEF Up
<1>3. 0 \in K
  <2>. DEFINE f == [m \in Levels |-> Up(Empty, 0)]
  <2>1. f = [m \in Levels |-> f[m]] /\ f[0] = Up(Empty, 0)
    BY <1>1 DEF Levels
  <2>2. Up(f, 0) = Up(Empty, 0)
    BY ONLY <1>1, <1>2 DEF Levels
  <2>. HIDE DEF f
  <2>3. Run(f, 0)
    BY <2>1, <2>2
  <2>. HIDE DEF Run
  <2>. QED
    BY <2>3
<1>4. ASSUME NEW n \in Nat, n \in K PROVE n + 1 \in K
  <2>. SUFFICES ASSUME n + 1 <= MaxHeight PROVE \E f : Run(f, n + 1)
    OBVIOUS
  <2>1. PICK f : Run(f, n)
    <3>. HIDE DEF Run
    <3>. QED
      BY <1>1, <1>4
  <2>. DEFINE g == [m \in Levels |-> IF m = n + 1 THEN Up(f, n + 1) ELSE f[m]]
  <2>2. \A m \in 0 .. n : g[m] = f[m]
    BY <1>1 DEF Levels
  <2>3. g[n + 1] = Up(f, n + 1) /\ g = [m \in Levels |-> g[m]]
    BY <1>1 DEF Levels
  <2>. HIDE DEF g
  <2>4. ASSUME NEW m \in 0 .. n + 1 PROVE g[m] = Up(g, m)
    <3>1. m \in Levels /\ (m # 0 => g[m - 1] = f[m - 1])
      BY <1>1, <2>2 DEF Levels
    <3>2. Up(g, m) = Up(f, m)
      BY <1>2, <3>1
    <3>. QED
      BY <2>1, <2>2, <2>3, <3>2
  <2>5. Run(g, n + 1)
    BY <2>3, <2>4
  <2>. HIDE DEF Run
  <2>. QED
    BY <2>5
<1>5. MaxHeight \in K
  <2>. HIDE DEF K
  <2>. QED
    BY <1>1, <1>3, <1>4, NatInduct
<1>6. PICK f : Run(f, MaxHeight)
  <2>. HIDE DEF Run
  <2>. QED
    BY <1>1, <1>5
<1>7. f = [m \in Levels |-> Up(f, m)]
  BY <1>6 DEF Levels
<1>. DEFINE r == CHOOSE to : to = [m \in Levels |-> Up(to, m)]
<1>8. r = [m \in Levels |-> Up(r, m)]
  BY <1>7
<1>9. r = AVLTree_inserts
  BY DEF AVLTree_inserts, Up
<1>. HIDE DEF r
<1>10. \A n \in Levels : AVLTree_inserts[n] = Up(AVLTree_inserts, n)
  BY <1>8, <1>9
<1>11. 0 \in Levels /\ \A n \in Nat : n < MaxHeight => n + 1 \in Levels /\ (n + 1) - 1 = n
  BY <1>1 DEF Levels
<1>12. \A t \in TreesTo[0] : t = Empty
  BY TreesToIs
<1>13. \A t \in TreesTo[0], k \in Int : AVLTree_inserts[0][t][k] = Node(Empty, k, Empty)
  <2>. SUFFICES ASSUME NEW t \in TreesTo[0], NEW k \in Int PROVE AVLTree_inserts[0][t][k] = Node(Empty, k, Empty)
    OBVIOUS
  <2>1. AVLTree_inserts[0] = Up(AVLTree_inserts, 0) /\ t = Empty
    BY <1>10, <1>11, <1>12
  <2>. QED
    BY <2>1 DEF Up
<1>14. ASSUME NEW n \in Nat, n < MaxHeight, NEW t \in TreesTo[n + 1], NEW k \in Int
       PROVE  AVLTree_inserts[n + 1][t][k] =
        IF t = Empty THEN Node(Empty, k, Empty)
        ELSE InsertRotation(
               IF k < Data(t) THEN Node(AVLTree_inserts[n][Left(t)][k], Data(t), Right(t))
               ELSE IF k > Data(t) THEN Node(Left(t), Data(t), AVLTree_inserts[n][Right(t)][k])
               ELSE t)
  <2>1. AVLTree_inserts[n + 1] = Up(AVLTree_inserts, n + 1) /\ (n + 1) - 1 = n
    BY <1>10, <1>11, <1>14
  <2>. QED
    BY <2>1 DEF Up
<1>. QED
  BY <1>13, <1>14

\* One level more to go down changes nothing for a tree that is low enough.
LEMMA AVLTree_insertsSame ==
    ASSUME NEW n \in Nat, n < MaxHeight
    PROVE  \A t \in TreesTo[n], k \in Int : AVLTree_inserts[n + 1][t][k] = AVLTree_inserts[n][t][k]
<1>. DEFINE J == {m \in Nat : m < MaxHeight =>
                    \A t \in TreesTo[m], k \in Int : AVLTree_inserts[m + 1][t][k] = AVLTree_inserts[m][t][k]}
<1>1. 0 \in J
  <2>. SUFFICES ASSUME 0 < MaxHeight, NEW t \in TreesTo[0], NEW k \in Int
                PROVE  AVLTree_inserts[0 + 1][t][k] = AVLTree_inserts[0][t][k]
    OBVIOUS
  <2>1. t = Empty /\ t \in TreesTo[0 + 1]
    BY TreesLevel, TreesToIs
  <2>2. AVLTree_inserts[0][t][k] = Node(Empty, k, Empty)
    BY AVLTree_insertsIs
  <2>3. AVLTree_inserts[0 + 1][t][k] = Node(Empty, k, Empty)
    BY <2>1, AVLTree_insertsIs
  <2>. QED
    BY <2>2, <2>3
<1>2. ASSUME NEW m \in Nat, m \in J PROVE m + 1 \in J
  <2>. SUFFICES ASSUME m + 1 < MaxHeight, NEW t \in TreesTo[m + 1], NEW k \in Int
                PROVE  AVLTree_inserts[(m + 1) + 1][t][k] = AVLTree_inserts[m + 1][t][k]
    OBVIOUS
  <2>1. t = Empty \/ \E l, r \in TreesTo[m], d \in Int : t = Node(l, d, r)
    BY TreesToIs, TreesLevel
  <2>2. m < MaxHeight /\ m + 1 \in Nat /\ t \in TreesTo[(m + 1) + 1]
    BY TreesToIs, TreesLevel
  <2>3. CASE t = Empty
    BY <2>2, <2>3, AVLTree_insertsIs
  <2>4. ASSUME NEW l \in TreesTo[m], NEW r \in TreesTo[m], NEW d \in Int, t = Node(l, d, r)
        PROVE  AVLTree_inserts[(m + 1) + 1][t][k] = AVLTree_inserts[m + 1][t][k]
    <3>1. /\ t # Empty /\ Left(t) = l /\ Data(t) = d /\ Right(t) = r
      BY <2>4, NodeParts
    <3>2. \A z \in Int : /\ AVLTree_inserts[m + 1][l][z] = AVLTree_inserts[m][l][z]
                         /\ AVLTree_inserts[m + 1][r][z] = AVLTree_inserts[m][r][z]
      BY <1>2, <2>2
    <3>3. AVLTree_inserts[(m + 1) + 1][t][k] =
             InsertRotation(
               IF k < d THEN Node(AVLTree_inserts[m + 1][l][k], d, r)
               ELSE IF k > d THEN Node(l, d, AVLTree_inserts[m + 1][r][k])
               ELSE t)
      BY <2>2, <3>1, AVLTree_insertsIs
    <3>4. AVLTree_inserts[m + 1][t][k] =
             InsertRotation(
               IF k < d THEN Node(AVLTree_inserts[m][l][k], d, r)
               ELSE IF k > d THEN Node(l, d, AVLTree_inserts[m][r][k])
               ELSE t)
      BY <2>2, <3>1, AVLTree_insertsIs
    <3>. QED
      BY <3>2, <3>3, <3>4
  <2>. QED
    BY <2>1, <2>3, <2>4
<1>. QED
  <2>. HIDE DEF J
  <2>1. n \in J
    BY <1>1, <1>2, NatInduct
  <2>. QED
    BY <2>1 DEF J

\* AVLTree::insert at a node.
LEMMA AVLTree_insertNode ==
    /\ \A k \in Int : AVLTree_insert(Empty, k) = Node(Empty, k, Empty)
    /\ \A l, d, r : Node(l, d, r) \in Trees =>
          \A k \in Int : AVLTree_insert(Node(l, d, r), k) =
             InsertRotation(
               IF k < d THEN Node(AVLTree_insert(l, k), d, r)
               ELSE IF k > d THEN Node(l, d, AVLTree_insert(r, k))
               ELSE Node(l, d, r))
<1>1. \A k \in Int : AVLTree_insert(Empty, k) = Node(Empty, k, Empty)
  <2>1. CASE MaxHeight = 0
    BY <2>1, TreesToIs, AVLTree_insertsIs DEF AVLTree_insert
  <2>2. CASE MaxHeight # 0
    <3>1. MaxHeight - 1 \in Nat /\ MaxHeight - 1 < MaxHeight /\ (MaxHeight - 1) + 1 = MaxHeight
      BY <2>2, TreesToIs
    <3>. QED
      BY <3>1, AVLTree_insertsIs, TreeIs DEF AVLTree_insert, Trees
  <2>. QED
    BY <2>1, <2>2
<1>2. ASSUME NEW l, NEW d, NEW r, Node(l, d, r) \in Trees, NEW k \in Int
      PROVE  AVLTree_insert(Node(l, d, r), k) =
             InsertRotation(
               IF k < d THEN Node(AVLTree_insert(l, k), d, r)
               ELSE IF k > d THEN Node(l, d, AVLTree_insert(r, k))
               ELSE Node(l, d, r))
  <2>. DEFINE n == MaxHeight - 1
              t == Node(l, d, r)
  <2>1. /\ n \in Nat /\ n < MaxHeight /\ n + 1 = MaxHeight
        /\ l \in TreesTo[n] /\ r \in TreesTo[n] /\ l \in Trees /\ r \in Trees
    BY <1>2, NodeBelow
  <2>2. t # Empty /\ Left(t) = l /\ Data(t) = d /\ Right(t) = r
        /\ (IsLeaf(t) <=> l = Empty /\ r = Empty)
    BY NodeParts
  <2>. HIDE DEF n, t
  <2>3. \A z \in Int : /\ AVLTree_inserts[n][l][z] = AVLTree_inserts[MaxHeight][l][z]
                       /\ AVLTree_inserts[n][r][z] = AVLTree_inserts[MaxHeight][r][z]
    BY <2>1, AVLTree_insertsSame
  <2>4. t \in TreesTo[n + 1]
    BY <1>2, <2>1 DEF t, Trees
  <2>5. AVLTree_inserts[n + 1][t][k] =
             InsertRotation(
               IF k < d THEN Node(AVLTree_inserts[n][l][k], d, r)
               ELSE IF k > d THEN Node(l, d, AVLTree_inserts[n][r][k])
               ELSE t)
    BY <2>1, <2>2, <2>4, AVLTree_insertsIs
  <2>. QED
    BY <2>1, <2>3, <2>5 DEF AVLTree_insert, t
<1>. QED
  BY <1>1, <1>2

\* AVLTree::del in a tree of n levels.
LEMMA AVLTree_delsIs ==
    /\ \A t \in TreesTo[0], k \in Int : AVLTree_dels[0][t][k] = Empty
    /\ \A n \in Nat : n < MaxHeight => \A t \in TreesTo[n + 1], k \in Int : AVLTree_dels[n + 1][t][k] =
        IF t = Empty \/ IsLeaf(t) THEN Empty
        ELSE DelRotation(
               IF k < Data(t) THEN Node(AVLTree_dels[n][Left(t)][k], Data(t), Right(t))
               ELSE IF k > Data(t) THEN Node(Left(t), Data(t), AVLTree_dels[n][Right(t)][k])
               ELSE IF node_height(Left(t)) > node_height(Right(t))
                    THEN LET s == inorder_pre(Left(t))
                         IN  Node(AVLTree_dels[n][Left(t)][Data(s)], Data(s), Right(t))
                    ELSE LET s == inorder_succ(Right(t))
                         IN  Node(Left(t), Data(s), AVLTree_dels[n][Right(t)][Data(s)]))
<1>. DEFINE Up(f, n) == [t \in TreesTo[n] |-> [k \in Int |->
        IF t = Empty \/ IsLeaf(t) THEN Empty
        ELSE DelRotation(
               IF k < Data(t) THEN Node(f[n - 1][Left(t)][k], Data(t), Right(t))
               ELSE IF k > Data(t) THEN Node(Left(t), Data(t), f[n - 1][Right(t)][k])
               ELSE IF node_height(Left(t)) > node_height(Right(t))
                    THEN LET s == inorder_pre(Left(t))
                         IN  Node(f[n - 1][Left(t)][Data(s)], Data(s), Right(t))
                    ELSE LET s == inorder_succ(Right(t))
                         IN  Node(Left(t), Data(s), f[n - 1][Right(t)][Data(s)]))]]
<1>1. MaxHeight \in Nat
  BY HeightAssumption
<1>2. ASSUME NEW f, NEW g, NEW n \in Levels, n # 0 => g[n - 1] = f[n - 1]
      PROVE  Up(g, n) = Up(f, n)
  BY <1>2, TreesToIs
<1>. DEFINE Run(f, n) == f = [m \in Levels |-> f[m]] /\ \A m \in 0 .. n : f[m] = Up(f, m)
            K == {n \in Nat : n <= MaxHeight => \E f : Run(f, n)}
<1>. HIDE DEF Up
<1>3. 0 \in K
  <2>. DEFINE f == [m \in Levels |-> Up(Empty, 0)]
  <2>1. f = [m \in Levels |-> f[m]] /\ f[0] = Up(Empty, 0)
    BY <1>1 DEF Levels
  <2>2. Up(f, 0) = Up(Empty, 0)
    BY ONLY <1>1, <1>2 DEF Levels
  <2>. HIDE DEF f
  <2>3. Run(f, 0)
    BY <2>1, <2>2
  <2>. HIDE DEF Run
  <2>. QED
    BY <2>3
<1>4. ASSUME NEW n \in Nat, n \in K PROVE n + 1 \in K
  <2>. SUFFICES ASSUME n + 1 <= MaxHeight PROVE \E f : Run(f, n + 1)
    OBVIOUS
  <2>1. PICK f : Run(f, n)
    <3>. HIDE DEF Run
    <3>. QED
      BY <1>1, <1>4
  <2>. DEFINE g == [m \in Levels |-> IF m = n + 1 THEN Up(f, n + 1) ELSE f[m]]
  <2>2. \A m \in 0 .. n : g[m] = f[m]
    BY <1>1 DEF Levels
  <2>3. g[n + 1] = Up(f, n + 1) /\ g = [m \in Levels |-> g[m]]
    BY <1>1 DEF Levels
  <2>. HIDE DEF g
  <2>4. ASSUME NEW m \in 0 .. n + 1 PROVE g[m] = Up(g, m)
    <3>1. m \in Levels /\ (m # 0 => g[m - 1] = f[m - 1])
      BY <1>1, <2>2 DEF Levels
    <3>2. Up(g, m) = Up(f, m)
      BY <1>2, <3>1
    <3>. QED
      BY <2>1, <2>2, <2>3, <3>2
  <2>5. Run(g, n + 1)
    BY <2>3, <2>4
  <2>. HIDE DEF Run
  <2>. QED
    BY <2>5
<1>5. MaxHeight \in K
  <2>. HIDE DEF K
  <2>. QED
    BY <1>1, <1>3, <1>4, NatInduct
<1>6. PICK f : Run(f, MaxHeight)
  <2>. HIDE DEF Run
  <2>. QED
    BY <1>1, <1>5
<1>7. f = [m \in Levels |-> Up(f, m)]
  BY <1>6 DEF Levels
<1>. DEFINE r == CHOOSE to : to = [m \in Levels |-> Up(to, m)]
<1>8. r = [m \in Levels |-> Up(r, m)]
  BY <1>7
<1>9. r = AVLTree_dels
  BY DEF AVLTree_dels, Up
<1>. HIDE DEF r
<1>10. \A n \in Levels : AVLTree_dels[n] = Up(AVLTree_dels, n)
  BY <1>8, <1>9
<1>11. 0 \in Levels /\ \A n \in Nat : n < MaxHeight => n + 1 \in Levels /\ (n + 1) - 1 = n
  BY <1>1 DEF Levels
<1>12. \A t \in TreesTo[0] : t = Empty
  BY TreesToIs
<1>13. \A t \in TreesTo[0], k \in Int : AVLTree_dels[0][t][k] = Empty
  <2>. SUFFICES ASSUME NEW t \in TreesTo[0], NEW k \in Int PROVE AVLTree_dels[0][t][k] = Empty
    OBVIOUS
  <2>1. AVLTree_dels[0] = Up(AVLTree_dels, 0) /\ t = Empty
    BY <1>10, <1>11, <1>12
  <2>. QED
    BY <2>1 DEF Up
<1>14. ASSUME NEW n \in Nat, n < MaxHeight, NEW t \in TreesTo[n + 1], NEW k \in Int
       PROVE  AVLTree_dels[n + 1][t][k] =
        IF t = Empty \/ IsLeaf(t) THEN Empty
        ELSE DelRotation(
               IF k < Data(t) THEN Node(AVLTree_dels[n][Left(t)][k], Data(t), Right(t))
               ELSE IF k > Data(t) THEN Node(Left(t), Data(t), AVLTree_dels[n][Right(t)][k])
               ELSE IF node_height(Left(t)) > node_height(Right(t))
                    THEN LET s == inorder_pre(Left(t))
                         IN  Node(AVLTree_dels[n][Left(t)][Data(s)], Data(s), Right(t))
                    ELSE LET s == inorder_succ(Right(t))
                         IN  Node(Left(t), Data(s), AVLTree_dels[n][Right(t)][Data(s)]))
  <2>1. AVLTree_dels[n + 1] = Up(AVLTree_dels, n + 1) /\ (n + 1) - 1 = n
    BY <1>10, <1>11, <1>14
  <2>. QED
    BY <2>1 DEF Up
<1>. QED
  BY <1>13, <1>14

\* One level more to go down changes nothing for a tree that is low enough.
LEMMA AVLTree_delsSame ==
    ASSUME NEW n \in Nat, n < MaxHeight
    PROVE  \A t \in TreesTo[n], k \in Int : AVLTree_dels[n + 1][t][k] = AVLTree_dels[n][t][k]
<1>. DEFINE J == {m \in Nat : m < MaxHeight =>
                    \A t \in TreesTo[m], k \in Int : AVLTree_dels[m + 1][t][k] = AVLTree_dels[m][t][k]}
<1>1. 0 \in J
  <2>. SUFFICES ASSUME 0 < MaxHeight, NEW t \in TreesTo[0], NEW k \in Int
                PROVE  AVLTree_dels[0 + 1][t][k] = AVLTree_dels[0][t][k]
    OBVIOUS
  <2>1. t = Empty /\ t \in TreesTo[0 + 1]
    BY TreesLevel, TreesToIs
  <2>2. AVLTree_dels[0][t][k] = Empty
    BY AVLTree_delsIs
  <2>3. AVLTree_dels[0 + 1][t][k] = Empty
    BY <2>1, AVLTree_delsIs
  <2>. QED
    BY <2>2, <2>3
<1>2. ASSUME NEW m \in Nat, m \in J PROVE m + 1 \in J
  <2>. SUFFICES ASSUME m + 1 < MaxHeight, NEW t \in TreesTo[m + 1], NEW k \in Int
                PROVE  AVLTree_dels[(m + 1) + 1][t][k] = AVLTree_dels[m + 1][t][k]
    OBVIOUS
  <2>1. t = Empty \/ \E l, r \in TreesTo[m], d \in Int : t = Node(l, d, r)
    BY TreesToIs, TreesLevel
  <2>2. m < MaxHeight /\ m + 1 \in Nat /\ t \in TreesTo[(m + 1) + 1]
    BY TreesToIs, TreesLevel
  <2>3. CASE t = Empty
    BY <2>2, <2>3, AVLTree_delsIs
  <2>4. ASSUME NEW l \in TreesTo[m], NEW r \in TreesTo[m], NEW d \in Int, t = Node(l, d, r)
        PROVE  AVLTree_dels[(m + 1) + 1][t][k] = AVLTree_dels[m + 1][t][k]
    <3>1. /\ t # Empty /\ Left(t) = l /\ Data(t) = d /\ Right(t) = r
      BY <2>4, NodeParts
    <3>2. \A z \in Int : /\ AVLTree_dels[m + 1][l][z] = AVLTree_dels[m][l][z]
                         /\ AVLTree_dels[m + 1][r][z] = AVLTree_dels[m][r][z]
      BY <1>2, <2>2
    <3>3. /\ IsLeaf(t) <=> l = Empty /\ r = Empty
          /\ l # Empty \/ r # Empty =>
                /\ node_height(l) > node_height(r) => Data(inorder_pre(l)) \in Int
                /\ ~ (node_height(l) > node_height(r)) => Data(inorder_succ(r)) \in Int
      <4>1. m \in Levels
        BY <2>2, TreesToIs DEF Levels
      <4>2. l \in Trees /\ r \in Trees
        BY <4>1, LevelsAreTrees
      <4>. QED
        BY <2>4, <4>2, ReplacementIs, NodeParts DEF node_height
    <3>. QED
      BY <2>2, <2>4, <3>1, <3>2, <3>3, AVLTree_delsIs
  <2>. QED
    BY <2>1, <2>3, <2>4
<1>. QED
  <2>. HIDE DEF J
  <2>1. n \in J
    BY <1>1, <1>2, NatInduct
  <2>. QED
    BY <2>1 DEF J

\* AVLTree::del at a node.
LEMMA AVLTree_delNode ==
    /\ \A k \in Int : AVLTree_del(Empty, k) = Empty
    /\ \A l, d, r : Node(l, d, r) \in Trees =>
          \A k \in Int : AVLTree_del(Node(l, d, r), k) =
             IF l = Empty /\ r = Empty THEN Empty
             ELSE DelRotation(
                    IF k < d THEN Node(AVLTree_del(l, k), d, r)
                    ELSE IF k > d THEN Node(l, d, AVLTree_del(r, k))
                    ELSE IF node_height(l) > node_height(r)
                    THEN Node(AVLTree_del(l, Data(inorder_pre(l))), Data(inorder_pre(l)), r)
                    ELSE Node(l, Data(inorder_succ(r)), AVLTree_del(r, Data(inorder_succ(r)))))
<1>1. \A k \in Int : AVLTree_del(Empty, k) = Empty
  <2>1. CASE MaxHeight = 0
    BY <2>1, TreesToIs, AVLTree_delsIs DEF AVLTree_del
  <2>2. CASE MaxHeight # 0
    <3>1. MaxHeight - 1 \in Nat /\ MaxHeight - 1 < MaxHeight /\ (MaxHeight - 1) + 1 = MaxHeight
      BY <2>2, TreesToIs
    <3>. QED
      BY <3>1, AVLTree_delsIs, TreeIs DEF AVLTree_del, Trees
  <2>. QED
    BY <2>1, <2>2
<1>2. ASSUME NEW l, NEW d, NEW r, Node(l, d, r) \in Trees, NEW k \in Int
      PROVE  AVLTree_del(Node(l, d, r), k) =
             IF l = Empty /\ r = Empty THEN Empty
             ELSE DelRotation(
                    IF k < d THEN Node(AVLTree_del(l, k), d, r)
                    ELSE IF k > d THEN Node(l, d, AVLTree_del(r, k))
                    ELSE IF node_height(l) > node_height(r)
                    THEN Node(AVLTree_del(l, Data(inorder_pre(l))), Data(inorder_pre(l)), r)
                    ELSE Node(l, Data(inorder_succ(r)), AVLTree_del(r, Data(inorder_succ(r)))))
  <2>. DEFINE n == MaxHeight - 1
              t == Node(l, d, r)
  <2>1. /\ n \in Nat /\ n < MaxHeight /\ n + 1 = MaxHeight
        /\ l \in TreesTo[n] /\ r \in TreesTo[n] /\ l \in Trees /\ r \in Trees
    BY <1>2, NodeBelow
  <2>2. t # Empty /\ Left(t) = l /\ Data(t) = d /\ Right(t) = r
        /\ (IsLeaf(t) <=> l = Empty /\ r = Empty)
    BY NodeParts
  <2>. HIDE DEF n, t
  <2>3. \A z \in Int : /\ AVLTree_dels[n][l][z] = AVLTree_dels[MaxHeight][l][z]
                       /\ AVLTree_dels[n][r][z] = AVLTree_dels[MaxHeight][r][z]
    BY <2>1, AVLTree_delsSame
  <2>4. t \in TreesTo[n + 1]
    BY <1>2, <2>1 DEF t, Trees
  <2>5. l # Empty \/ r # Empty =>
           /\ node_height(l) > node_height(r) => Data(inorder_pre(l)) \in Int
           /\ ~ (node_height(l) > node_height(r)) => Data(inorder_succ(r)) \in Int
    BY <2>1, ReplacementIs DEF node_height
  <2>6. AVLTree_dels[n + 1][t][k] =
             IF l = Empty /\ r = Empty THEN Empty
             ELSE DelRotation(
                    IF k < d THEN Node(AVLTree_dels[n][l][k], d, r)
                    ELSE IF k > d THEN Node(l, d, AVLTree_dels[n][r][k])
                    ELSE IF node_height(l) > node_height(r)
                    THEN Node(AVLTree_dels[n][l][Data(inorder_pre(l))], Data(inorder_pre(l)), r)
                    ELSE Node(l, Data(inorder_succ(r)), AVLTree_dels[n][r][Data(inorder_succ(r))]))
    BY <2>1, <2>2, <2>4, AVLTree_delsIs, <2>5
  <2>. QED
    BY <2>1, <2>3, <2>6, <2>5 DEF AVLTree_del, t
<1>. QED
  BY <1>1, <1>2

-----------------------------------------------------------------------------
(* What an insertion and a deletion do to a node, with or without rotations*)
(* below it.                                                               *)

\* A node that is built on two trees.
LEMMA NodeIs ==
    ASSUME NEW l \in Trees, NEW d \in Int, NEW r \in Trees,
           height(l) < MaxHeight, height(r) < MaxHeight
    PROVE  /\ Node(l, d, r) \in Trees
           /\ height(l) \in Nat /\ height(r) \in Nat
           /\ height(Node(l, d, r)) =
                 IF height(l) > height(r) THEN 1 + height(l) ELSE 1 + height(r)
           /\ KeysOf(l) \subseteq Int /\ KeysOf(r) \subseteq Int
           /\ KeysOf(Node(l, d, r)) = KeysOf(l) \cup {d} \cup KeysOf(r)
           /\ Sorted(Node(l, d, r)) <=>
                 /\ Sorted(l) /\ Sorted(r)
                 /\ \A x \in KeysOf(l) : x < d
                 /\ \A x \in KeysOf(r) : d < x
<1>1. Node(l, d, r) \in Trees
  BY NodeIsTree
<1>. QED
  BY <1>1, heightLevel, heightNode, KeysNode, SortedNode

\* The same of a node that is known to be a tree.
LEMMA NodeHas ==
    ASSUME NEW l, NEW d, NEW r, Node(l, d, r) \in Trees
    PROVE  /\ l \in Trees /\ d \in Int /\ r \in Trees
           /\ height(l) < MaxHeight /\ height(r) < MaxHeight
           /\ height(l) \in Nat /\ height(r) \in Nat
           /\ height(Node(l, d, r)) =
                 IF height(l) > height(r) THEN 1 + height(l) ELSE 1 + height(r)
           /\ KeysOf(l) \subseteq Int /\ KeysOf(r) \subseteq Int
           /\ KeysOf(Node(l, d, r)) = KeysOf(l) \cup {d} \cup KeysOf(r)
           /\ Sorted(Node(l, d, r)) <=>
                 /\ Sorted(l) /\ Sorted(r)
                 /\ \A x \in KeysOf(l) : x < d
                 /\ \A x \in KeysOf(r) : d < x
<1>1. /\ l \in Trees /\ d \in Int /\ r \in Trees
      /\ height(l) < MaxHeight /\ height(r) < MaxHeight
  BY NodeIsTree
<1>. QED
  BY <1>1, NodeIs

(* u has the keys of t and k.                                              *)
OneMore(t, u, k) == KeysOf(u) = KeysOf(t) \cup {k} /\ (Sorted(t) => Sorted(u))

(* u has the keys of t but one, which is k if k is a key of t and a        *)
(* neighbour of k if it is not.                                            *)
OneLess(t, u, k) ==
  /\ Sorted(u)
  /\ \/ KeysOf(u) = KeysOf(t) /\ k \notin KeysOf(t)
     \/ \E x \in KeysOf(t) :
           /\ KeysOf(u) = KeysOf(t) \ {x}
           /\ k \in KeysOf(t) => x = k
           /\ Nearest(t, x, k)

\* A key more below a node is a key more in its tree.
LEMMA MoreBelow ==
    ASSUME NEW l, NEW d, NEW r, Node(l, d, r) \in Trees, NEW k \in Int,
           NEW u \in Trees, height(u) < MaxHeight
    PROVE  /\ k < d /\ OneMore(l, u, k) => OneMore(Node(l, d, r), Node(u, d, r), k)
           /\ k > d /\ OneMore(r, u, k) => OneMore(Node(l, d, r), Node(l, d, u), k)
<1>. DEFINE t == Node(l, d, r)
<1>1. /\ l \in Trees /\ d \in Int /\ r \in Trees
      /\ height(l) < MaxHeight /\ height(r) < MaxHeight
      /\ KeysOf(l) \subseteq Int /\ KeysOf(r) \subseteq Int
      /\ KeysOf(t) = KeysOf(l) \cup {d} \cup KeysOf(r)
      /\ Sorted(t) <=>
                 /\ Sorted(l) /\ Sorted(r)
                 /\ \A x \in KeysOf(l) : x < d
                 /\ \A x \in KeysOf(r) : d < x
  BY NodeHas
<1>2. ASSUME k < d, OneMore(l, u, k) PROVE OneMore(t, Node(u, d, r), k)
  <2>1. /\ KeysOf(Node(u, d, r)) = KeysOf(u) \cup {d} \cup KeysOf(r)
        /\ Sorted(Node(u, d, r)) <=>
                 /\ Sorted(u) /\ Sorted(r)
                 /\ \A x \in KeysOf(u) : x < d
                 /\ \A x \in KeysOf(r) : d < x
    BY <1>1, NodeIs
  <2>. HIDE DEF t
  <2>. QED
    BY <1>1, <1>2, <2>1 DEF OneMore
<1>3. ASSUME k > d, OneMore(r, u, k) PROVE OneMore(t, Node(l, d, u), k)
  <2>1. /\ KeysOf(Node(l, d, u)) = KeysOf(l) \cup {d} \cup KeysOf(u)
        /\ Sorted(Node(l, d, u)) <=>
                 /\ Sorted(l) /\ Sorted(u)
                 /\ \A x \in KeysOf(l) : x < d
                 /\ \A x \in KeysOf(u) : d < x
    BY <1>1, NodeIs
  <2>. HIDE DEF t
  <2>. QED
    BY <1>1, <1>3, <2>1 DEF OneMore
<1>. QED
  BY <1>2, <1>3

\* A key less below a node is a key less in its tree.
LEMMA LessBelow ==
    ASSUME NEW l, NEW d, NEW r, Node(l, d, r) \in Trees, Sorted(Node(l, d, r)),
           NEW k \in Int, NEW u \in Trees, height(u) < MaxHeight
    PROVE  /\ k < d /\ OneLess(l, u, k) => OneLess(Node(l, d, r), Node(u, d, r), k)
           /\ k > d /\ OneLess(r, u, k) => OneLess(Node(l, d, r), Node(l, d, u), k)
<1>. DEFINE t == Node(l, d, r)
<1>1. /\ l \in Trees /\ d \in Int /\ r \in Trees
      /\ height(l) < MaxHeight /\ height(r) < MaxHeight
      /\ KeysOf(l) \subseteq Int /\ KeysOf(r) \subseteq Int
      /\ KeysOf(t) = KeysOf(l) \cup {d} \cup KeysOf(r)
      /\ Sorted(l) /\ Sorted(r)
      /\ \A x \in KeysOf(l) : x < d
      /\ \A x \in KeysOf(r) : d < x
  BY NodeHas
<1>2. ASSUME k < d, OneLess(l, u, k) PROVE OneLess(t, Node(u, d, r), k)
  <2>1. /\ KeysOf(Node(u, d, r)) = KeysOf(u) \cup {d} \cup KeysOf(r)
        /\ Sorted(Node(u, d, r)) <=>
                 /\ Sorted(u) /\ Sorted(r)
                 /\ \A x \in KeysOf(u) : x < d
                 /\ \A x \in KeysOf(r) : d < x
    BY <1>1, NodeIs
  <2>. HIDE DEF t
  <2>2. k \in KeysOf(t) <=> k \in KeysOf(l)
    BY <1>1, <1>2
  <2>3. KeysOf(u) \subseteq KeysOf(l) /\ Sorted(u)
    BY <1>2 DEF OneLess
  <2>4. Sorted(Node(u, d, r))
    BY <1>1, <2>1, <2>3
  <2>5. CASE KeysOf(u) = KeysOf(l) /\ k \notin KeysOf(l)
    BY <1>1, <2>1, <2>2, <2>4, <2>5 DEF OneLess
  <2>6. ASSUME NEW x \in KeysOf(l), KeysOf(u) = KeysOf(l) \ {x}, k \in KeysOf(l) => x = k,
               Nearest(l, x, k)
        PROVE  OneLess(t, Node(u, d, r), k)
    <3>1. x # d /\ x \notin KeysOf(r)
      BY <1>1, <2>6
    <3>2. KeysOf(Node(u, d, r)) = KeysOf(t) \ {x} /\ x \in KeysOf(t)
      BY <1>1, <2>1, <2>6, <3>1
    <3>3. Nearest(t, x, k)
      <4>1. SUFFICES ASSUME NEW y \in KeysOf(t)
                     PROVE  ~ (x < y /\ y < k) /\ ~ (k < y /\ y < x)
        BY DEF Nearest
      <4>2. CASE y \in KeysOf(l)
        BY <2>6, <4>2 DEF Nearest
      <4>3. CASE y = d \/ y \in KeysOf(r)
        BY <1>1, <1>2, <4>3
      <4>. QED
        BY <1>1, <4>2, <4>3
    <3>. QED
      BY <2>2, <2>4, <2>6, <3>2, <3>3 DEF OneLess
  <2>. QED
    BY <1>2, <2>5, <2>6 DEF OneLess
<1>3. ASSUME k > d, OneLess(r, u, k) PROVE OneLess(t, Node(l, d, u), k)
  <2>1. /\ KeysOf(Node(l, d, u)) = KeysOf(l) \cup {d} \cup KeysOf(u)
        /\ Sorted(Node(l, d, u)) <=>
                 /\ Sorted(l) /\ Sorted(u)
                 /\ \A x \in KeysOf(l) : x < d
                 /\ \A x \in KeysOf(u) : d < x
    BY <1>1, NodeIs
  <2>. HIDE DEF t
  <2>2. k \in KeysOf(t) <=> k \in KeysOf(r)
    BY <1>1, <1>3
  <2>3. KeysOf(u) \subseteq KeysOf(r) /\ Sorted(u)
    BY <1>3 DEF OneLess
  <2>4. Sorted(Node(l, d, u))
    BY <1>1, <2>1, <2>3
  <2>5. CASE KeysOf(u) = KeysOf(r) /\ k \notin KeysOf(r)
    BY <1>1, <2>1, <2>2, <2>4, <2>5 DEF OneLess
  <2>6. ASSUME NEW x \in KeysOf(r), KeysOf(u) = KeysOf(r) \ {x}, k \in KeysOf(r) => x = k,
               Nearest(r, x, k)
        PROVE  OneLess(t, Node(l, d, u), k)
    <3>1. x # d /\ x \notin KeysOf(l)
      BY <1>1, <2>6
    <3>2. KeysOf(Node(l, d, u)) = KeysOf(t) \ {x} /\ x \in KeysOf(t)
      BY <1>1, <2>1, <2>6, <3>1
    <3>3. Nearest(t, x, k)
      <4>1. SUFFICES ASSUME NEW y \in KeysOf(t)
                     PROVE  ~ (x < y /\ y < k) /\ ~ (k < y /\ y < x)
        BY DEF Nearest
      <4>2. CASE y \in KeysOf(r)
        BY <2>6, <4>2 DEF Nearest
      <4>3. CASE y = d \/ y \in KeysOf(l)
        BY <1>1, <1>3, <4>3
      <4>. QED
        BY <1>1, <4>2, <4>3
    <3>. QED
      BY <2>2, <2>4, <2>6, <3>2, <3>3 DEF OneLess
  <2>. QED
    BY <1>3, <2>5, <2>6 DEF OneLess
<1>. QED
  BY <1>2, <1>3

\* The value of a node is replaced with its neighbour's, which is deleted
\* below it.
LEMMA Replaced ==
    ASSUME NEW l, NEW d, NEW r, Node(l, d, r) \in Trees, Sorted(Node(l, d, r)),
           NEW u \in Trees, height(u) < MaxHeight
    PROVE  /\ l # Empty /\ OneLess(l, u, Data(inorder_pre(l))) =>
                OneLess(Node(l, d, r), Node(u, Data(inorder_pre(l)), r), d)
           /\ r # Empty /\ OneLess(r, u, Data(inorder_succ(r))) =>
                OneLess(Node(l, d, r), Node(l, Data(inorder_succ(r)), u), d)
<1>. DEFINE t == Node(l, d, r)
            e == Data(inorder_pre(l))
            f == Data(inorder_succ(r))
<1>1. /\ l \in Trees /\ d \in Int /\ r \in Trees
      /\ height(l) < MaxHeight /\ height(r) < MaxHeight
      /\ KeysOf(l) \subseteq Int /\ KeysOf(r) \subseteq Int
      /\ KeysOf(t) = KeysOf(l) \cup {d} \cup KeysOf(r)
      /\ Sorted(l) /\ Sorted(r)
      /\ \A x \in KeysOf(l) : x < d
      /\ \A x \in KeysOf(r) : d < x
  BY NodeHas
<1>2. d \in KeysOf(t) /\ KeysOf(t) \ {d} = KeysOf(l) \cup KeysOf(r) /\ Nearest(t, d, d)
  BY <1>1 DEF Nearest
<1>3. ASSUME l # Empty, OneLess(l, u, e) PROVE OneLess(t, Node(u, e, r), d)
  <2>1. e \in KeysOf(l) /\ e \in Int /\ \A x \in KeysOf(l) : x <= e
    BY <1>1, <1>3, NeighbourIs
  <2>. HIDE DEF e, t
  <2>2. /\ KeysOf(Node(u, e, r)) = KeysOf(u) \cup {e} \cup KeysOf(r)
        /\ Sorted(Node(u, e, r)) <=>
                 /\ Sorted(u) /\ Sorted(r)
                 /\ \A x \in KeysOf(u) : x < e
                 /\ \A x \in KeysOf(r) : e < x
    BY <1>1, <2>1, NodeIs
  <2>3. KeysOf(u) = KeysOf(l) \ {e} /\ Sorted(u)
    BY <1>3, <2>1 DEF OneLess
  <2>4. KeysOf(Node(u, e, r)) = KeysOf(t) \ {d}
    BY <1>2, <2>1, <2>2, <2>3
  <2>5. \A x \in KeysOf(u) : x < e
    BY <1>1, <2>1, <2>3
  <2>6. \A x \in KeysOf(r) : e < x
    BY <1>1, <2>1
  <2>7. Sorted(Node(u, e, r))
    BY <1>1, <2>2, <2>3, <2>5, <2>6
  <2>. QED
    BY <1>2, <2>4, <2>7 DEF OneLess
<1>4. ASSUME r # Empty, OneLess(r, u, f) PROVE OneLess(t, Node(l, f, u), d)
  <2>1. f \in KeysOf(r) /\ f \in Int /\ \A x \in KeysOf(r) : f <= x
    BY <1>1, <1>4, NeighbourIs
  <2>. HIDE DEF f, t
  <2>2. /\ KeysOf(Node(l, f, u)) = KeysOf(l) \cup {f} \cup KeysOf(u)
        /\ Sorted(Node(l, f, u)) <=>
                 /\ Sorted(l) /\ Sorted(u)
                 /\ \A x \in KeysOf(l) : x < f
                 /\ \A x \in KeysOf(u) : f < x
    BY <1>1, <2>1, NodeIs
  <2>3. KeysOf(u) = KeysOf(r) \ {f} /\ Sorted(u)
    BY <1>4, <2>1 DEF OneLess
  <2>4. KeysOf(Node(l, f, u)) = KeysOf(t) \ {d}
    BY <1>2, <2>1, <2>2, <2>3
  <2>5. \A x \in KeysOf(u) : f < x
    BY <1>1, <2>1, <2>3
  <2>6. \A x \in KeysOf(l) : x < f
    BY <1>1, <2>1
  <2>7. Sorted(Node(l, f, u))
    BY <1>1, <2>2, <2>3, <2>5, <2>6
  <2>. QED
    BY <1>2, <2>4, <2>7 DEF OneLess
<1>. QED
  BY <1>3, <1>4

-----------------------------------------------------------------------------
(* The operations of BST.                                                  *)

\* BST::insert puts a key into the tree, which gets at most one level higher.
LEMMA BSTInsertIs ==
    \A t \in Trees : height(t) < MaxHeight =>
       \A k \in Int :
          /\ BST_insert(t, k) \in Trees /\ height(BST_insert(t, k)) <= height(t) + 1
          /\ OneMore(t, BST_insert(t, k), k)
<1>. DEFINE Fits(t) ==
              height(t) < MaxHeight =>
                \A k \in Int :
                  /\ BST_insert(t, k) \in Trees /\ height(BST_insert(t, k)) <= height(t) + 1
                  /\ OneMore(t, BST_insert(t, k), k)
            P == {t \in Trees : Fits(t)}
<1>1. Empty \in P
  <2>. SUFFICES ASSUME height(Empty) < MaxHeight, NEW k \in Int
                PROVE  /\ Node(Empty, k, Empty) \in Trees
                       /\ height(Node(Empty, k, Empty)) <= height(Empty) + 1
                       /\ OneMore(Empty, Node(Empty, k, Empty), k)
    BY TreeIs, BST_insertNode
  <2>1. height(Empty) = 0 /\ KeysOf(Empty) = {} /\ Sorted(Empty)
    BY heightNode, KeysNode, SortedNode
  <2>. QED
    BY <2>1, TreeIs, NodeIs DEF OneMore
<1>2. ASSUME NEW l \in Trees \cap P, NEW r \in Trees \cap P, NEW d \in Int, Node(l, d, r) \in Trees
      PROVE  Node(l, d, r) \in P
  <2>. DEFINE t == Node(l, d, r)
  <2>. SUFFICES ASSUME height(t) < MaxHeight, NEW k \in Int
                PROVE  /\ BST_insert(t, k) \in Trees /\ height(BST_insert(t, k)) <= height(t) + 1
                       /\ OneMore(t, BST_insert(t, k), k)
    BY <1>2
  <2>1. /\ height(l) < MaxHeight /\ height(r) < MaxHeight
        /\ height(l) \in Nat /\ height(r) \in Nat
        /\ height(t) = IF height(l) > height(r) THEN 1 + height(l) ELSE 1 + height(r)
        /\ KeysOf(t) = KeysOf(l) \cup {d} \cup KeysOf(r)
    BY <1>2, NodeHas
  <2>2. BST_insert(t, k) = IF k < d THEN Node(BST_insert(l, k), d, r)
                           ELSE IF k > d THEN Node(l, d, BST_insert(r, k))
                           ELSE t
    BY <1>2, BST_insertNode
  <2>3. CASE k < d
    <3>. DEFINE u == BST_insert(l, k)
    <3>1. u \in Trees /\ height(u) <= height(l) + 1 /\ OneMore(l, u, k)
      BY <1>2, <2>1
    <3>. HIDE DEF u
    <3>2. height(u) < MaxHeight /\ height(u) \in Nat
      BY <2>1, <3>1, heightLevel, TreesToIs
    <3>3. /\ Node(u, d, r) \in Trees
          /\ height(Node(u, d, r)) = IF height(u) > height(r) THEN 1 + height(u) ELSE 1 + height(r)
      BY <1>2, <2>1, <3>1, <3>2, NodeIs
    <3>4. OneMore(t, Node(u, d, r), k)
      BY <1>2, <2>3, <3>1, <3>2, MoreBelow
    <3>5. height(Node(u, d, r)) <= height(t) + 1
      BY <2>1, <3>1, <3>2, <3>3
    <3>. QED
      BY <2>2, <2>3, <3>3, <3>4, <3>5 DEF u
  <2>4. CASE k > d
    <3>. DEFINE u == BST_insert(r, k)
    <3>1. u \in Trees /\ height(u) <= height(r) + 1 /\ OneMore(r, u, k)
      BY <1>2, <2>1
    <3>. HIDE DEF u
    <3>2. height(u) < MaxHeight /\ height(u) \in Nat
      BY <2>1, <3>1, heightLevel, TreesToIs
    <3>3. /\ Node(l, d, u) \in Trees
          /\ height(Node(l, d, u)) = IF height(l) > height(u) THEN 1 + height(l) ELSE 1 + height(u)
      BY <1>2, <2>1, <3>1, <3>2, NodeIs
    <3>4. OneMore(t, Node(l, d, u), k)
      BY <1>2, <2>4, <3>1, <3>2, MoreBelow
    <3>5. height(Node(l, d, u)) <= height(t) + 1
      BY <2>1, <3>1, <3>2, <3>3
    <3>6. ~ (k < d)
      BY <2>4
    <3>. QED
      BY <2>2, <2>4, <3>3, <3>4, <3>5, <3>6 DEF u
  <2>5. CASE k = d
    <3>1. BST_insert(t, k) = t
      BY <2>2, <2>5
    <3>2. height(t) <= height(t) + 1
      BY <2>1
    <3>. QED
      BY <1>2, <2>1, <2>5, <3>1, <3>2 DEF OneMore
  <2>. QED
    BY <2>3, <2>4, <2>5
<1>. HIDE DEF P
<1>3. Trees \subseteq P
  BY <1>1, <1>2, TreeInduct
<1>. QED
  BY <1>3 DEF P

\* BST::search finds a key that is somewhere in a tree on its one path.
LEMMA BSTSearchIs ==
    \A t \in Trees : Sorted(t) =>
       \A k \in Int : BST_search(t, k) # Empty <=> k \in KeysOf(t)
<1>. DEFINE Fits(t) ==
              Sorted(t) => \A k \in Int : BST_search(t, k) # Empty <=> k \in KeysOf(t)
            P == {t \in Trees : Fits(t)}
<1>1. Empty \in P
  BY TreeIs, BST_searchNode, KeysNode
<1>2. ASSUME NEW l \in Trees \cap P, NEW r \in Trees \cap P, NEW d \in Int, Node(l, d, r) \in Trees
      PROVE  Node(l, d, r) \in P
  <2>. DEFINE t == Node(l, d, r)
  <2>. SUFFICES ASSUME Sorted(t), NEW k \in Int
                PROVE  BST_search(t, k) # Empty <=> k \in KeysOf(t)
    BY <1>2
  <2>1. /\ KeysOf(l) \subseteq Int /\ KeysOf(r) \subseteq Int
        /\ KeysOf(t) = KeysOf(l) \cup {d} \cup KeysOf(r)
        /\ Sorted(l) /\ Sorted(r)
        /\ \A x \in KeysOf(l) : x < d
        /\ \A x \in KeysOf(r) : d < x
    BY <1>2, NodeHas
  <2>2. BST_search(t, k) = IF d = k THEN t ELSE BST_search(IF d > k THEN l ELSE r, k)
    BY <1>2, BST_searchNode
  <2>3. t # Empty
    BY NodeParts
  <2>4. /\ BST_search(l, k) # Empty <=> k \in KeysOf(l)
        /\ BST_search(r, k) # Empty <=> k \in KeysOf(r)
    BY <1>2, <2>1
  <2>. HIDE DEF t
  <2>5. CASE d = k
    BY <2>1, <2>2, <2>3, <2>5
  <2>6. CASE k < d
    BY <2>1, <2>2, <2>4, <2>6
  <2>7. CASE d < k
    BY <2>1, <2>2, <2>4, <2>7
  <2>. QED
    BY <2>5, <2>6, <2>7
<1>. HIDE DEF P
<1>3. Trees \subseteq P
  BY <1>1, <1>2, TreeInduct
<1>. QED
  BY <1>3 DEF P

\* BST::del takes a key out of a tree, the one it was asked for if it is
\* there, and the tree gets no higher.
LEMMA BSTDelIs ==
    \A t \in Trees, k \in Int :
       /\ BST_del(t, k) \in Trees /\ height(BST_del(t, k)) <= height(t)
       /\ Sorted(t) => OneLess(t, BST_del(t, k), k)
<1>. DEFINE Fits(t) ==
              \A k \in Int :
                /\ BST_del(t, k) \in Trees /\ height(BST_del(t, k)) <= height(t)
                /\ Sorted(t) => OneLess(t, BST_del(t, k), k)
            P == {t \in Trees : Fits(t)}
<1>1. Empty \in P
  BY TreeIs, BST_delNode, heightNode, KeysNode DEF OneLess
<1>2. ASSUME NEW l \in Trees \cap P, NEW r \in Trees \cap P, NEW d \in Int, Node(l, d, r) \in Trees
      PROVE  Node(l, d, r) \in P
  <2>. DEFINE t == Node(l, d, r)
              e == Data(inorder_pre(l))
              f == Data(inorder_succ(r))
  <2>. SUFFICES ASSUME NEW k \in Int
                PROVE  /\ BST_del(t, k) \in Trees /\ height(BST_del(t, k)) <= height(t)
                       /\ Sorted(t) => OneLess(t, BST_del(t, k), k)
    BY <1>2
  <2>1. /\ height(l) < MaxHeight /\ height(r) < MaxHeight
        /\ height(l) \in Nat /\ height(r) \in Nat
        /\ height(t) = IF height(l) > height(r) THEN 1 + height(l) ELSE 1 + height(r)
        /\ KeysOf(t) = KeysOf(l) \cup {d} \cup KeysOf(r)
    BY <1>2, NodeHas
  <2>2. BST_del(t, k) = IF l = Empty /\ r = Empty THEN Empty
                        ELSE IF k < d THEN Node(BST_del(l, k), d, r)
                        ELSE IF k > d THEN Node(l, d, BST_del(r, k))
                        ELSE IF height(l) > height(r) THEN Node(BST_del(l, e), e, r)
                        ELSE Node(l, f, BST_del(r, f))
    BY <1>2, BST_delNode
  <2>3. ASSUME NEW x \in Int, NEW c \in Int
        PROVE  /\ BST_del(l, x) \in Trees /\ height(BST_del(l, x)) < MaxHeight
               /\ BST_del(r, x) \in Trees /\ height(BST_del(r, x)) < MaxHeight
               /\ Sorted(t) => OneLess(l, BST_del(l, x), x) /\ OneLess(r, BST_del(r, x), x)
               /\ Node(BST_del(l, x), c, r) \in Trees /\ height(Node(BST_del(l, x), c, r)) <= height(t)
               /\ Node(l, c, BST_del(r, x)) \in Trees /\ height(Node(l, c, BST_del(r, x))) <= height(t)
    <3>. DEFINE u == BST_del(l, x)
                v == BST_del(r, x)
    <3>1. /\ u \in Trees /\ height(u) <= height(l) /\ (Sorted(l) => OneLess(l, u, x))
          /\ v \in Trees /\ height(v) <= height(r) /\ (Sorted(r) => OneLess(r, v, x))
      BY <1>2
    <3>. HIDE DEF u, v
    <3>2. height(u) \in Nat /\ height(v) \in Nat /\ height(u) < MaxHeight /\ height(v) < MaxHeight
      BY <2>1, <3>1, heightLevel, TreesToIs
    <3>3. /\ Node(u, c, r) \in Trees
          /\ height(Node(u, c, r)) = IF height(u) > height(r) THEN 1 + height(u) ELSE 1 + height(r)
          /\ Node(l, c, v) \in Trees
          /\ height(Node(l, c, v)) = IF height(l) > height(v) THEN 1 + height(l) ELSE 1 + height(v)
      BY <1>2, <2>1, <3>1, <3>2, NodeIs
    <3>4. height(Node(u, c, r)) <= height(t) /\ height(Node(l, c, v)) <= height(t)
      BY <2>1, <3>1, <3>2, <3>3
    <3>5. Sorted(t) => Sorted(l) /\ Sorted(r)
      BY <1>2, NodeHas
    <3>. QED
      BY <3>1, <3>2, <3>3, <3>4, <3>5 DEF u, v
  <2>4. CASE l = Empty /\ r = Empty
    <3>1. BST_del(t, k) = Empty /\ Empty \in Trees /\ height(Empty) <= height(t)
      BY <2>1, <2>2, <2>4, TreeIs, heightNode
    <3>2. KeysOf(t) = {d} /\ KeysOf(Empty) = {} /\ Sorted(Empty)
      BY <2>1, <2>4, KeysNode, SortedNode
    <3>3. OneLess(t, Empty, k)
      BY <3>2 DEF OneLess, Nearest
    <3>. QED
      BY <3>1, <3>3
  <2>5. CASE ~ (l = Empty /\ r = Empty) /\ k < d
    <3>1. BST_del(t, k) = Node(BST_del(l, k), d, r)
      BY <2>2, <2>5
    <3>2. Sorted(t) => OneLess(t, Node(BST_del(l, k), d, r), k)
      BY <1>2, <2>3, <2>5, LessBelow
    <3>. QED
      BY <1>2, <2>3, <3>1, <3>2
  <2>6. CASE ~ (l = Empty /\ r = Empty) /\ k > d
    <3>1. BST_del(t, k) = Node(l, d, BST_del(r, k))
      BY <2>2, <2>6
    <3>2. Sorted(t) => OneLess(t, Node(l, d, BST_del(r, k)), k)
      BY <1>2, <2>3, <2>6, LessBelow
    <3>. QED
      BY <1>2, <2>3, <3>1, <3>2
  <2>7. CASE ~ (l = Empty /\ r = Empty) /\ k = d /\ height(l) > height(r)
    <3>1. BST_del(t, k) = Node(BST_del(l, e), e, r)
      BY <2>2, <2>7
    <3>2. l # Empty /\ e \in Int
      BY <1>2, <2>7, ReplacementIs
    <3>3. Sorted(t) => OneLess(t, Node(BST_del(l, e), e, r), d)
      BY <1>2, <2>3, <3>2, Replaced
    <3>. QED
      BY <2>3, <2>7, <3>1, <3>2, <3>3
  <2>8. CASE ~ (l = Empty /\ r = Empty) /\ k = d /\ ~ (height(l) > height(r))
    <3>1. BST_del(t, k) = Node(l, f, BST_del(r, f))
      BY <2>2, <2>8
    <3>2. r # Empty /\ f \in Int
      BY <1>2, <2>8, ReplacementIs
    <3>3. Sorted(t) => OneLess(t, Node(l, f, BST_del(r, f)), d)
      BY <1>2, <2>3, <3>2, Replaced
    <3>. QED
      BY <2>3, <2>8, <3>1, <3>2, <3>3
  <2>. QED
    BY <2>4, <2>5, <2>6, <2>7, <2>8
<1>. HIDE DEF P
<1>3. Trees \subseteq P
  BY <1>1, <1>2, TreeInduct
<1>. QED
  BY <1>3 DEF P

-----------------------------------------------------------------------------
(* The rotations and the operations of AVLTree.                            *)

(* Every node of t is balanced.                                            *)
AllBalanced(t) == \A s \in Subtrees(t) : balance_factor(s) \in {-1, 0, 1}

(* u is a balanced tree with the keys of v.                                *)
Rotated(v, u) ==
  u \in Trees /\ KeysOf(u) = KeysOf(v) /\ (Sorted(v) => Sorted(u)) /\ AllBalanced(u)

\* A node is balanced all over if both its trees are and it is itself.
LEMMA BalancedNode ==
    /\ AllBalanced(Empty)
    /\ \A l, d, r : Node(l, d, r) \in Trees =>
          /\ balance_factor(Node(l, d, r)) = height(l) - height(r)
          /\ AllBalanced(Node(l, d, r)) <=>
                AllBalanced(l) /\ AllBalanced(r) /\ height(l) - height(r) \in {-1, 0, 1}
<1>1. AllBalanced(Empty)
  BY SubtreesNode DEF AllBalanced
<1>2. ASSUME NEW l, NEW d, NEW r, Node(l, d, r) \in Trees
      PROVE  /\ balance_factor(Node(l, d, r)) = height(l) - height(r)
             /\ AllBalanced(Node(l, d, r)) <=>
                   AllBalanced(l) /\ AllBalanced(r) /\ height(l) - height(r) \in {-1, 0, 1}
  <2>1. balance_factor(Node(l, d, r)) = height(l) - height(r)
    BY NodeParts DEF balance_factor, node_height
  <2>2. Subtrees(Node(l, d, r)) = {Node(l, d, r)} \cup Subtrees(l) \cup Subtrees(r)
    BY <1>2, SubtreesNode
  <2>. QED
    BY <2>1, <2>2 DEF AllBalanced
<1>. QED
  BY <1>1, <1>2

\* A balanced tree that is not empty is a node that leans at most one level.
LEMMA BalancedParts ==
    ASSUME NEW t \in Trees, AllBalanced(t), height(t) > 0
    PROVE  \E l, d, r : /\ t = Node(l, d, r)
                        /\ AllBalanced(l) /\ AllBalanced(r)
                        /\ height(l) - height(r) \in {-1, 0, 1}
                        /\ balance_factor(t) = height(l) - height(r)
<1>1. t # Empty
  BY heightNode
<1>2. PICK l, d, r : t = Node(l, d, r)
  BY <1>1, TreeIs
<1>. QED
  BY <1>2, BalancedNode

\* The higher left child moves up.
LEMMA LLRotation ==
    ASSUME NEW a, NEW e, NEW b, NEW d, NEW r, Node(Node(a, e, b), d, r) \in Trees,
           AllBalanced(a), AllBalanced(b), AllBalanced(r),
           height(Node(a, e, b)) = height(r) + 2, height(a) - height(b) \in {0, 1}
    PROVE  /\ Rotated(Node(Node(a, e, b), d, r), ll_rotation(Node(Node(a, e, b), d, r)))
           /\ height(ll_rotation(Node(Node(a, e, b), d, r))) =
                IF height(a) - height(b) = 1 THEN height(Node(Node(a, e, b), d, r)) - 1 ELSE height(Node(Node(a, e, b), d, r))
<1>. DEFINE v == Node(Node(a, e, b), d, r)
            c == Node(a, e, b)
            w == Node(b, d, r)
            u == Node(a, e, Node(b, d, r))
<1>1. /\ c \in Trees /\ r \in Trees /\ d \in Int /\ height(r) \in Nat
      /\ height(c) \in Nat /\ height(c) < MaxHeight /\ height(r) < MaxHeight
      /\ height(v) = 1 + height(c)
      /\ KeysOf(v) = KeysOf(c) \cup {d} \cup KeysOf(r)
      /\ KeysOf(r) \subseteq Int
      /\ Sorted(v) => /\ Sorted(c) /\ Sorted(r)
                      /\ \A x \in KeysOf(c) : x < d
                      /\ \A x \in KeysOf(r) : d < x
  <2>. HIDE DEF c
  <2>1. Node(c, d, r) \in Trees
    BY DEF c
  <2>. QED
    BY <2>1, NodeHas DEF c
<1>2. /\ a \in Trees /\ e \in Int /\ b \in Trees
      /\ height(a) < MaxHeight /\ height(b) < MaxHeight
      /\ height(a) \in Nat /\ height(b) \in Nat
      /\ height(c) = IF height(a) > height(b) THEN 1 + height(a) ELSE 1 + height(b)
      /\ KeysOf(a) \subseteq Int /\ KeysOf(b) \subseteq Int
      /\ KeysOf(c) = KeysOf(a) \cup {e} \cup KeysOf(b)
      /\ Sorted(c) => /\ Sorted(a) /\ Sorted(b)
                      /\ \A x \in KeysOf(a) : x < e
                      /\ \A x \in KeysOf(b) : e < x
  BY <1>1, NodeHas
<1>3. height(c) = height(r) + 2 /\ MaxHeight \in Nat
  BY TreesToIs
<1>4. /\ w \in Trees
      /\ height(w) = IF height(b) > height(r) THEN 1 + height(b) ELSE 1 + height(r)
      /\ KeysOf(w) = KeysOf(b) \cup {d} \cup KeysOf(r)
      /\ Sorted(w) <=> /\ Sorted(b) /\ Sorted(r)
                       /\ \A x \in KeysOf(b) : x < d
                       /\ \A x \in KeysOf(r) : d < x
  BY <1>1, <1>2, NodeIs
<1>5. ll_rotation(v) = u
  BY NodeParts DEF ll_rotation
<1>6. /\ height(b) - height(r) \in {-1, 0, 1} /\ height(a) = height(r) + 1
      /\ height(a) - height(w) \in {-1, 0, 1} /\ height(w) < MaxHeight /\ height(w) \in Nat
  <2>. HIDE DEF c, w
  <2>1. height(a) = height(r) + 1
    BY <1>1, <1>2, <1>3
  <2>2. height(b) - height(r) \in {-1, 0, 1}
    BY <1>1, <1>2, <2>1
  <2>3. height(w) \in Nat /\ height(a) - height(w) \in {-1, 0, 1} /\ height(w) <= height(r) + 2
    BY <1>1, <1>2, <1>4, <2>1
  <2>4. height(w) < MaxHeight
    BY <1>1, <1>3, <2>3
  <2>. QED
    BY <2>1, <2>2, <2>3, <2>4
<1>7. AllBalanced(w)
  BY <1>4, <1>6, BalancedNode
<1>. HIDE DEF c, w
<1>8. u = Node(a, e, w)
  BY DEF w
<1>. HIDE DEF u, v
<1>9. /\ u \in Trees
      /\ height(u) = IF height(a) > height(w) THEN 1 + height(a) ELSE 1 + height(w)
      /\ KeysOf(u) = KeysOf(a) \cup {e} \cup KeysOf(w)
      /\ Sorted(u) <=> /\ Sorted(a) /\ Sorted(w)
                       /\ \A x \in KeysOf(a) : x < e
                       /\ \A x \in KeysOf(w) : e < x
  BY <1>2, <1>4, <1>6, <1>8, NodeIs
<1>10. AllBalanced(u)
  BY <1>6, <1>7, <1>8, <1>9, BalancedNode
<1>11. KeysOf(u) = KeysOf(v)
  BY <1>1, <1>2, <1>4, <1>9
<1>12. ASSUME Sorted(v) PROVE Sorted(u)
  <2>1. e < d
    BY <1>1, <1>2, <1>12
  <2>2. Sorted(w)
    BY <1>1, <1>2, <1>4, <1>12
  <2>3. \A x \in KeysOf(a) : x < e
    BY <1>1, <1>2, <1>4, <1>12, <2>1
  <2>4. \A x \in KeysOf(w) : e < x
    BY <1>1, <1>2, <1>4, <1>12, <2>1
  <2>. QED
    BY <1>1, <1>2, <1>9, <1>12, <2>2, <2>3, <2>4
<1>13. Rotated(v, u)
  BY <1>9, <1>10, <1>11, <1>12 DEF Rotated
<1>14. height(u) = IF height(a) - height(b) = 1 THEN height(v) - 1 ELSE height(v)
  BY <1>1, <1>2, <1>3, <1>4, <1>6, <1>9
<1>15. ll_rotation(v) = u /\ v = Node(Node(a, e, b), d, r)
  BY <1>5 DEF v
<1>. QED
  BY <1>13, <1>14, <1>15

\* The higher right child moves up.
LEMMA RRRotation ==
    ASSUME NEW a, NEW e, NEW b, NEW d, NEW l, Node(l, d, Node(a, e, b)) \in Trees,
           AllBalanced(a), AllBalanced(b), AllBalanced(l),
           height(Node(a, e, b)) = height(l) + 2, height(a) - height(b) \in {-1, 0}
    PROVE  /\ Rotated(Node(l, d, Node(a, e, b)), rr_rotation(Node(l, d, Node(a, e, b))))
           /\ height(rr_rotation(Node(l, d, Node(a, e, b)))) =
                IF height(a) - height(b) = -1 THEN height(Node(l, d, Node(a, e, b))) - 1 ELSE height(Node(l, d, Node(a, e, b)))
<1>. DEFINE v == Node(l, d, Node(a, e, b))
            c == Node(a, e, b)
            w == Node(l, d, a)
            u == Node(Node(l, d, a), e, b)
<1>1. /\ c \in Trees /\ l \in Trees /\ d \in Int /\ height(l) \in Nat
      /\ height(c) \in Nat /\ height(c) < MaxHeight /\ height(l) < MaxHeight
      /\ height(v) = 1 + height(c)
      /\ KeysOf(v) = KeysOf(l) \cup {d} \cup KeysOf(c)
      /\ KeysOf(l) \subseteq Int
      /\ Sorted(v) => /\ Sorted(c) /\ Sorted(l)
                      /\ \A x \in KeysOf(l) : x < d
                      /\ \A x \in KeysOf(c) : d < x
  <2>. HIDE DEF c
  <2>1. Node(l, d, c) \in Trees
    BY DEF c
  <2>. QED
    BY <2>1, NodeHas DEF c
<1>2. /\ a \in Trees /\ e \in Int /\ b \in Trees
      /\ height(a) < MaxHeight /\ height(b) < MaxHeight
      /\ height(a) \in Nat /\ height(b) \in Nat
      /\ height(c) = IF height(a) > height(b) THEN 1 + height(a) ELSE 1 + height(b)
      /\ KeysOf(a) \subseteq Int /\ KeysOf(b) \subseteq Int
      /\ KeysOf(c) = KeysOf(a) \cup {e} \cup KeysOf(b)
      /\ Sorted(c) => /\ Sorted(a) /\ Sorted(b)
                      /\ \A x \in KeysOf(a) : x < e
                      /\ \A x \in KeysOf(b) : e < x
  BY <1>1, NodeHas
<1>3. height(c) = height(l) + 2 /\ MaxHeight \in Nat
  BY TreesToIs
<1>4. /\ w \in Trees
      /\ height(w) = IF height(l) > height(a) THEN 1 + height(l) ELSE 1 + height(a)
      /\ KeysOf(w) = KeysOf(l) \cup {d} \cup KeysOf(a)
      /\ Sorted(w) <=> /\ Sorted(l) /\ Sorted(a)
                       /\ \A x \in KeysOf(l) : x < d
                       /\ \A x \in KeysOf(a) : d < x
  BY <1>1, <1>2, NodeIs
<1>5. rr_rotation(v) = u
  BY NodeParts DEF rr_rotation
<1>6. /\ height(l) - height(a) \in {-1, 0, 1} /\ height(b) = height(l) + 1
      /\ height(w) - height(b) \in {-1, 0, 1} /\ height(w) < MaxHeight /\ height(w) \in Nat
  <2>. HIDE DEF c, w
  <2>1. height(b) = height(l) + 1
    BY <1>1, <1>2, <1>3
  <2>2. height(l) - height(a) \in {-1, 0, 1}
    BY <1>1, <1>2, <2>1
  <2>3. height(w) \in Nat /\ height(w) - height(b) \in {-1, 0, 1} /\ height(w) <= height(l) + 2
    BY <1>1, <1>2, <1>4, <2>1
  <2>4. height(w) < MaxHeight
    BY <1>1, <1>3, <2>3
  <2>. QED
    BY <2>1, <2>2, <2>3, <2>4
<1>7. AllBalanced(w)
  BY <1>4, <1>6, BalancedNode
<1>. HIDE DEF c, w
<1>8. u = Node(w, e, b)
  BY DEF w
<1>. HIDE DEF u, v
<1>9. /\ u \in Trees
      /\ height(u) = IF height(w) > height(b) THEN 1 + height(w) ELSE 1 + height(b)
      /\ KeysOf(u) = KeysOf(w) \cup {e} \cup KeysOf(b)
      /\ Sorted(u) <=> /\ Sorted(w) /\ Sorted(b)
                       /\ \A x \in KeysOf(w) : x < e
                       /\ \A x \in KeysOf(b) : e < x
  BY <1>2, <1>4, <1>6, <1>8, NodeIs
<1>10. AllBalanced(u)
  BY <1>6, <1>7, <1>8, <1>9, BalancedNode
<1>11. KeysOf(u) = KeysOf(v)
  BY <1>1, <1>2, <1>4, <1>9
<1>12. ASSUME Sorted(v) PROVE Sorted(u)
  <2>1. d < e
    BY <1>1, <1>2, <1>12
  <2>2. Sorted(w)
    BY <1>1, <1>2, <1>4, <1>12
  <2>3. \A x \in KeysOf(w) : x < e
    BY <1>1, <1>2, <1>4, <1>12, <2>1
  <2>4. \A x \in KeysOf(b) : e < x
    BY <1>1, <1>2, <1>4, <1>12, <2>1
  <2>. QED
    BY <1>1, <1>2, <1>9, <1>12, <2>2, <2>3, <2>4
<1>13. Rotated(v, u)
  BY <1>9, <1>10, <1>11, <1>12 DEF Rotated
<1>14. height(u) = IF height(a) - height(b) = -1 THEN height(v) - 1 ELSE height(v)
  BY <1>1, <1>2, <1>3, <1>4, <1>6, <1>9
<1>15. rr_rotation(v) = u /\ v = Node(l, d, Node(a, e, b))
  BY <1>5 DEF v
<1>. QED
  BY <1>13, <1>14, <1>15

\* The right child of the higher left child moves up.
LEMMA LRRotation ==
    ASSUME NEW a, NEW e, NEW x, NEW f, NEW y, NEW d, NEW r,
           Node(Node(a, e, Node(x, f, y)), d, r) \in Trees,
           AllBalanced(a), AllBalanced(Node(x, f, y)), AllBalanced(r),
           height(Node(a, e, Node(x, f, y))) = height(r) + 2, height(a) - height(Node(x, f, y)) = -1
    PROVE  /\ Rotated(Node(Node(a, e, Node(x, f, y)), d, r),
                      lr_rotation(Node(Node(a, e, Node(x, f, y)), d, r)))
           /\ height(lr_rotation(Node(Node(a, e, Node(x, f, y)), d, r))) =
                height(Node(Node(a, e, Node(x, f, y)), d, r)) - 1
<1>. DEFINE m == Node(x, f, y)
            c == Node(a, e, m)
            v == Node(c, d, r)
            w == Node(a, e, x)
            z == Node(y, d, r)
            u == Node(w, f, z)
<1>1. lr_rotation(v) = u
  BY NodeParts DEF lr_rotation
<1>2. v \in Trees /\ height(c) = height(r) + 2 /\ height(a) - height(m) = -1 /\ AllBalanced(m)
      /\ v = Node(Node(a, e, Node(x, f, y)), d, r)
  OBVIOUS
<1>. HIDE DEF v
<1>3. /\ c \in Trees /\ r \in Trees /\ d \in Int /\ height(r) \in Nat
      /\ height(c) \in Nat /\ height(c) < MaxHeight /\ height(r) < MaxHeight
      /\ height(v) = 1 + height(c)
      /\ KeysOf(v) = KeysOf(c) \cup {d} \cup KeysOf(r) /\ KeysOf(r) \subseteq Int
      /\ Sorted(v) => /\ Sorted(c) /\ Sorted(r)
                      /\ \A k \in KeysOf(c) : k < d
                      /\ \A k \in KeysOf(r) : d < k
  <2>. HIDE DEF c
  <2>. QED
    BY <1>2, NodeHas DEF v
<1>4. /\ a \in Trees /\ e \in Int /\ m \in Trees
      /\ height(a) < MaxHeight /\ height(a) \in Nat
      /\ height(m) < MaxHeight /\ height(m) \in Nat
      /\ height(c) = 1 + height(m)
      /\ KeysOf(a) \subseteq Int
      /\ KeysOf(c) = KeysOf(a) \cup {e} \cup KeysOf(m)
      /\ Sorted(c) => /\ Sorted(a) /\ Sorted(m)
                      /\ \A k \in KeysOf(a) : k < e
                      /\ \A k \in KeysOf(m) : e < k
  <2>. HIDE DEF m
  <2>. QED
    BY <1>2, <1>3, NodeHas
<1>. HIDE DEF c
<1>5. /\ x \in Trees /\ f \in Int /\ y \in Trees
      /\ height(x) < MaxHeight /\ height(y) < MaxHeight
      /\ height(x) \in Nat /\ height(y) \in Nat
      /\ height(m) = IF height(x) > height(y) THEN 1 + height(x) ELSE 1 + height(y)
      /\ KeysOf(x) \subseteq Int /\ KeysOf(y) \subseteq Int
      /\ KeysOf(m) = KeysOf(x) \cup {f} \cup KeysOf(y)
      /\ Sorted(m) => /\ Sorted(x) /\ Sorted(y)
                      /\ \A k \in KeysOf(x) : k < f
                      /\ \A k \in KeysOf(y) : f < k
  BY <1>4, NodeHas
<1>6. AllBalanced(x) /\ AllBalanced(y) /\ height(x) - height(y) \in {-1, 0, 1}
  BY <1>2, <1>4, BalancedNode
<1>. HIDE DEF m
<1>7. /\ height(a) = height(r) /\ height(m) = height(r) + 1
      /\ height(a) - height(x) \in {-1, 0, 1}
      /\ height(y) - height(r) \in {-1, 0, 1}
  BY <1>2, <1>3, <1>4, <1>5, <1>6
<1>8. /\ w \in Trees
      /\ height(w) = IF height(a) > height(x) THEN 1 + height(a) ELSE 1 + height(x)
      /\ KeysOf(w) = KeysOf(a) \cup {e} \cup KeysOf(x)
      /\ Sorted(w) <=> /\ Sorted(a) /\ Sorted(x)
                       /\ \A k \in KeysOf(a) : k < e
                       /\ \A k \in KeysOf(x) : e < k
  BY <1>3, <1>4, <1>5, NodeIs
<1>9. /\ z \in Trees
      /\ height(z) = IF height(y) > height(r) THEN 1 + height(y) ELSE 1 + height(r)
      /\ KeysOf(z) = KeysOf(y) \cup {d} \cup KeysOf(r)
      /\ Sorted(z) <=> /\ Sorted(y) /\ Sorted(r)
                       /\ \A k \in KeysOf(y) : k < d
                       /\ \A k \in KeysOf(r) : d < k
  BY <1>3, <1>4, <1>5, NodeIs
<1>10. AllBalanced(w) /\ AllBalanced(z)
  BY <1>6, <1>7, <1>8, <1>9, BalancedNode
<1>. HIDE DEF w, z
<1>11. height(w) = height(r) + 1 /\ height(z) = height(r) + 1 /\ MaxHeight \in Nat
  BY <1>3, <1>4, <1>5, <1>6, <1>7, <1>8, <1>9, TreesToIs
<1>12. /\ u \in Trees
       /\ height(u) = IF height(w) > height(z) THEN 1 + height(w) ELSE 1 + height(z)
       /\ KeysOf(u) = KeysOf(w) \cup {f} \cup KeysOf(z)
       /\ Sorted(u) <=> /\ Sorted(w) /\ Sorted(z)
                        /\ \A k \in KeysOf(w) : k < f
                        /\ \A k \in KeysOf(z) : f < k
  <2>1. height(w) < MaxHeight /\ height(z) < MaxHeight
    BY <1>2, <1>3, <1>11
  <2>. QED
    BY <1>5, <1>8, <1>9, <2>1, NodeIs
<1>13. AllBalanced(u)
  BY <1>3, <1>10, <1>11, <1>12, BalancedNode
<1>. HIDE DEF u
<1>14. KeysOf(u) = KeysOf(v)
  BY <1>3, <1>4, <1>5, <1>8, <1>9, <1>12
<1>15. ASSUME Sorted(v) PROVE Sorted(u)
  <2>1. /\ Sorted(c) /\ Sorted(m) /\ Sorted(r) /\ Sorted(a) /\ Sorted(x) /\ Sorted(y)
        /\ e < d /\ f < d /\ e < f
    BY <1>3, <1>4, <1>5, <1>15
  <2>2. Sorted(w)
    BY <1>3, <1>4, <1>5, <1>8, <1>15, <2>1
  <2>3. Sorted(z)
    BY <1>3, <1>4, <1>5, <1>9, <1>15, <2>1
  <2>4. \A k \in KeysOf(w) : k < f
    BY <1>3, <1>4, <1>5, <1>8, <1>15, <2>1
  <2>5. \A k \in KeysOf(z) : f < k
    BY <1>3, <1>4, <1>5, <1>9, <1>15, <2>1
  <2>. QED
    BY <1>12, <2>2, <2>3, <2>4, <2>5
<1>16. Rotated(v, u)
  BY <1>12, <1>13, <1>14, <1>15 DEF Rotated
<1>17. height(u) = height(v) - 1
  BY <1>2, <1>3, <1>11, <1>12
<1>. QED
  BY <1>1, <1>2, <1>16, <1>17

\* The left child of the higher right child moves up.
LEMMA RLRotation ==
    ASSUME NEW b, NEW e, NEW x, NEW f, NEW y, NEW d, NEW l,
           Node(l, d, Node(Node(x, f, y), e, b)) \in Trees,
           AllBalanced(b), AllBalanced(Node(x, f, y)), AllBalanced(l),
           height(Node(Node(x, f, y), e, b)) = height(l) + 2, height(Node(x, f, y)) - height(b) = 1
    PROVE  /\ Rotated(Node(l, d, Node(Node(x, f, y), e, b)),
                      rl_rotation(Node(l, d, Node(Node(x, f, y), e, b))))
           /\ height(rl_rotation(Node(l, d, Node(Node(x, f, y), e, b)))) =
                height(Node(l, d, Node(Node(x, f, y), e, b))) - 1
<1>. DEFINE m == Node(x, f, y)
            c == Node(m, e, b)
            v == Node(l, d, c)
            w == Node(l, d, x)
            z == Node(y, e, b)
            u == Node(w, f, z)
<1>1. rl_rotation(v) = u
  BY NodeParts DEF rl_rotation
<1>2. v \in Trees /\ height(c) = height(l) + 2 /\ height(m) - height(b) = 1 /\ AllBalanced(m)
      /\ v = Node(l, d, Node(Node(x, f, y), e, b))
  OBVIOUS
<1>. HIDE DEF v
<1>3. /\ c \in Trees /\ l \in Trees /\ d \in Int /\ height(l) \in Nat
      /\ height(c) \in Nat /\ height(c) < MaxHeight /\ height(l) < MaxHeight
      /\ height(v) = 1 + height(c)
      /\ KeysOf(v) = KeysOf(l) \cup {d} \cup KeysOf(c) /\ KeysOf(l) \subseteq Int
      /\ Sorted(v) => /\ Sorted(c) /\ Sorted(l)
                      /\ \A k \in KeysOf(l) : k < d
                      /\ \A k \in KeysOf(c) : d < k
  <2>. HIDE DEF c
  <2>. QED
    BY <1>2, NodeHas DEF v
<1>4. /\ b \in Trees /\ e \in Int /\ m \in Trees
      /\ height(b) < MaxHeight /\ height(b) \in Nat
      /\ height(m) < MaxHeight /\ height(m) \in Nat
      /\ height(c) = 1 + height(m)
      /\ KeysOf(b) \subseteq Int
      /\ KeysOf(c) = KeysOf(m) \cup {e} \cup KeysOf(b)
      /\ Sorted(c) => /\ Sorted(b) /\ Sorted(m)
                      /\ \A k \in KeysOf(m) : k < e
                      /\ \A k \in KeysOf(b) : e < k
  <2>. HIDE DEF m
  <2>. QED
    BY <1>2, <1>3, NodeHas
<1>. HIDE DEF c
<1>5. /\ x \in Trees /\ f \in Int /\ y \in Trees
      /\ height(x) < MaxHeight /\ height(y) < MaxHeight
      /\ height(x) \in Nat /\ height(y) \in Nat
      /\ height(m) = IF height(x) > height(y) THEN 1 + height(x) ELSE 1 + height(y)
      /\ KeysOf(x) \subseteq Int /\ KeysOf(y) \subseteq Int
      /\ KeysOf(m) = KeysOf(x) \cup {f} \cup KeysOf(y)
      /\ Sorted(m) => /\ Sorted(x) /\ Sorted(y)
                      /\ \A k \in KeysOf(x) : k < f
                      /\ \A k \in KeysOf(y) : f < k
  BY <1>4, NodeHas
<1>6. AllBalanced(x) /\ AllBalanced(y) /\ height(x) - height(y) \in {-1, 0, 1}
  BY <1>2, <1>4, BalancedNode
<1>. HIDE DEF m
<1>7. /\ height(b) = height(l) /\ height(m) = height(l) + 1
      /\ height(l) - height(x) \in {-1, 0, 1}
      /\ height(y) - height(b) \in {-1, 0, 1}
  BY <1>2, <1>3, <1>4, <1>5, <1>6
<1>8. /\ w \in Trees
      /\ height(w) = IF height(l) > height(x) THEN 1 + height(l) ELSE 1 + height(x)
      /\ KeysOf(w) = KeysOf(l) \cup {d} \cup KeysOf(x)
      /\ Sorted(w) <=> /\ Sorted(l) /\ Sorted(x)
                       /\ \A k \in KeysOf(l) : k < d
                       /\ \A k \in KeysOf(x) : d < k
  BY <1>3, <1>4, <1>5, NodeIs
<1>9. /\ z \in Trees
      /\ height(z) = IF height(y) > height(b) THEN 1 + height(y) ELSE 1 + height(b)
      /\ KeysOf(z) = KeysOf(y) \cup {e} \cup KeysOf(b)
      /\ Sorted(z) <=> /\ Sorted(y) /\ Sorted(b)
                       /\ \A k \in KeysOf(y) : k < e
                       /\ \A k \in KeysOf(b) : e < k
  BY <1>3, <1>4, <1>5, NodeIs
<1>10. AllBalanced(w) /\ AllBalanced(z)
  BY <1>6, <1>7, <1>8, <1>9, BalancedNode
<1>. HIDE DEF w, z
<1>11. height(w) = height(l) + 1 /\ height(z) = height(l) + 1 /\ MaxHeight \in Nat
  BY <1>3, <1>4, <1>5, <1>6, <1>7, <1>8, <1>9, TreesToIs
<1>12. /\ u \in Trees
       /\ height(u) = IF height(w) > height(z) THEN 1 + height(w) ELSE 1 + height(z)
       /\ KeysOf(u) = KeysOf(w) \cup {f} \cup KeysOf(z)
       /\ Sorted(u) <=> /\ Sorted(w) /\ Sorted(z)
                        /\ \A k \in KeysOf(w) : k < f
                        /\ \A k \in KeysOf(z) : f < k
  <2>1. height(w) < MaxHeight /\ height(z) < MaxHeight
    BY <1>2, <1>3, <1>11
  <2>. QED
    BY <1>5, <1>8, <1>9, <2>1, NodeIs
<1>13. AllBalanced(u)
  BY <1>3, <1>10, <1>11, <1>12, BalancedNode
<1>. HIDE DEF u
<1>14. KeysOf(u) = KeysOf(v)
  BY <1>3, <1>4, <1>5, <1>8, <1>9, <1>12
<1>15. ASSUME Sorted(v) PROVE Sorted(u)
  <2>1. /\ Sorted(c) /\ Sorted(m) /\ Sorted(l) /\ Sorted(b) /\ Sorted(x) /\ Sorted(y)
        /\ d < e /\ d < f /\ f < e
    BY <1>3, <1>4, <1>5, <1>15
  <2>2. Sorted(w)
    BY <1>3, <1>4, <1>5, <1>8, <1>15, <2>1
  <2>3. Sorted(z)
    BY <1>3, <1>4, <1>5, <1>9, <1>15, <2>1
  <2>4. \A k \in KeysOf(w) : k < f
    BY <1>3, <1>4, <1>5, <1>8, <1>15, <2>1
  <2>5. \A k \in KeysOf(z) : f < k
    BY <1>3, <1>4, <1>5, <1>9, <1>15, <2>1
  <2>. QED
    BY <1>12, <2>2, <2>3, <2>4, <2>5
<1>16. Rotated(v, u)
  BY <1>12, <1>13, <1>14, <1>15 DEF Rotated
<1>17. height(u) = height(v) - 1
  BY <1>2, <1>3, <1>11, <1>12
<1>. QED
  BY <1>1, <1>2, <1>16, <1>17

\* What insert rotates is balanced afterwards and one level lower: the
\* higher child leans, because it has grown.
LEMMA InsertRotationIs ==
    ASSUME NEW l, NEW d, NEW r, Node(l, d, r) \in Trees,
           AllBalanced(l), AllBalanced(r), height(l) - height(r) \in -2 .. 2,
           height(l) - height(r) = 2 => balance_factor(l) # 0,
           height(l) - height(r) = -2 => balance_factor(r) # 0
    PROVE  /\ Rotated(Node(l, d, r), InsertRotation(Node(l, d, r)))
           /\ height(l) - height(r) \in {-1, 0, 1} => InsertRotation(Node(l, d, r)) = Node(l, d, r)
           /\ height(l) - height(r) \notin {-1, 0, 1} =>
                 height(InsertRotation(Node(l, d, r))) = height(Node(l, d, r)) - 1
<1>. DEFINE v == Node(l, d, r)
<1>1. /\ l \in Trees /\ d \in Int /\ r \in Trees
      /\ height(l) < MaxHeight /\ height(r) < MaxHeight
      /\ height(l) \in Nat /\ height(r) \in Nat
      /\ height(v) = IF height(l) > height(r) THEN 1 + height(l) ELSE 1 + height(r)
      /\ balance_factor(v) = height(l) - height(r)
  BY NodeHas, BalancedNode
<1>2. InsertRotation(v) =
         IF height(l) - height(r) \in -1 .. 1 THEN v
         ELSE IF height(l) - height(r) > 1
         THEN IF balance_factor(l) = 1 THEN ll_rotation(v)
              ELSE IF balance_factor(l) = -1 THEN lr_rotation(v) ELSE v
         ELSE IF balance_factor(r) = 1 THEN rl_rotation(v)
              ELSE IF balance_factor(r) = -1 THEN rr_rotation(v) ELSE v
  BY <1>1, NodeParts DEF InsertRotation
<1>3. CASE height(l) - height(r) \in {-1, 0, 1}
  <2>1. InsertRotation(v) = v
    BY <1>1, <1>2, <1>3
  <2>2. AllBalanced(v)
    BY <1>3, BalancedNode
  <2>. QED
    BY <1>3, <2>1, <2>2 DEF Rotated, v
<1>4. CASE height(l) - height(r) = 2
  <2>1. PICK a, e, b : /\ l = Node(a, e, b) /\ AllBalanced(a) /\ AllBalanced(b)
                       /\ height(a) - height(b) \in {-1, 0, 1}
                       /\ balance_factor(l) = height(a) - height(b)
    BY <1>1, <1>4, BalancedParts
  <2>2. CASE height(a) - height(b) = 1
    <3>1. Rotated(v, ll_rotation(v)) /\ height(ll_rotation(v)) = height(v) - 1
      BY <1>1, <1>4, <2>1, <2>2, LLRotation
    <3>2. InsertRotation(v) = ll_rotation(v)
      BY <1>2, <1>4, <2>1, <2>2
    <3>. QED
      BY <1>4, <3>1, <3>2 DEF v
  <2>3. CASE height(a) - height(b) = -1
    <3>1. PICK x, f, y : b = Node(x, f, y)
      <4>1. l \in Trees /\ a \in Trees /\ b \in Trees /\ height(a) \in Nat /\ height(b) \in Nat
        BY <1>1, <2>1, NodeHas
      <4>2. height(b) > 0
        BY <2>3, <4>1
      <4>. QED
        BY <2>1, <4>1, <4>2, BalancedParts
    <3>2. Rotated(v, lr_rotation(v)) /\ height(lr_rotation(v)) = height(v) - 1
      BY <1>1, <1>4, <2>1, <2>3, <3>1, LRRotation
    <3>3. InsertRotation(v) = lr_rotation(v)
      BY <1>2, <1>4, <2>1, <2>3
    <3>. QED
      BY <1>4, <3>2, <3>3 DEF v
  <2>4. height(a) - height(b) # 0
    BY <1>4, <2>1
  <2>. QED
    BY <2>1, <2>2, <2>3, <2>4
<1>5. CASE height(l) - height(r) = -2
  <2>1. PICK a, e, b : /\ r = Node(a, e, b) /\ AllBalanced(a) /\ AllBalanced(b)
                       /\ height(a) - height(b) \in {-1, 0, 1}
                       /\ balance_factor(r) = height(a) - height(b)
    BY <1>1, <1>5, BalancedParts
  <2>2. CASE height(a) - height(b) = -1
    <3>1. Rotated(v, rr_rotation(v)) /\ height(rr_rotation(v)) = height(v) - 1
      BY <1>1, <1>5, <2>1, <2>2, RRRotation
    <3>2. InsertRotation(v) = rr_rotation(v)
      BY <1>2, <1>5, <2>1, <2>2
    <3>. QED
      BY <1>5, <3>1, <3>2 DEF v
  <2>3. CASE height(a) - height(b) = 1
    <3>1. PICK x, f, y : a = Node(x, f, y)
      <4>1. r \in Trees /\ a \in Trees /\ b \in Trees /\ height(a) \in Nat /\ height(b) \in Nat
        BY <1>1, <2>1, NodeHas
      <4>2. height(a) > 0
        BY <2>3, <4>1
      <4>. QED
        BY <2>1, <4>1, <4>2, BalancedParts
    <3>2. Rotated(v, rl_rotation(v)) /\ height(rl_rotation(v)) = height(v) - 1
      BY <1>1, <1>5, <2>1, <2>3, <3>1, RLRotation
    <3>3. InsertRotation(v) = rl_rotation(v)
      BY <1>2, <1>5, <2>1, <2>3
    <3>. QED
      BY <1>5, <3>2, <3>3 DEF v
  <2>4. height(a) - height(b) # 0
    BY <1>5, <2>1
  <2>. QED
    BY <2>1, <2>2, <2>3, <2>4
<1>. QED
  BY <1>3, <1>4, <1>5

\* What del rotates is balanced afterwards and at most one level lower, also
\* where the higher child is level.
LEMMA DelRotationIs ==
    ASSUME NEW l, NEW d, NEW r, Node(l, d, r) \in Trees,
           AllBalanced(l), AllBalanced(r), height(l) - height(r) \in -2 .. 2
    PROVE  /\ Rotated(Node(l, d, r), DelRotation(Node(l, d, r)))
           /\ height(l) - height(r) \in {-1, 0, 1} => DelRotation(Node(l, d, r)) = Node(l, d, r)
           /\ height(DelRotation(Node(l, d, r))) \in {height(Node(l, d, r)) - 1, height(Node(l, d, r))}
<1>. DEFINE v == Node(l, d, r)
<1>1. /\ l \in Trees /\ d \in Int /\ r \in Trees
      /\ height(l) < MaxHeight /\ height(r) < MaxHeight
      /\ height(l) \in Nat /\ height(r) \in Nat
      /\ height(v) = IF height(l) > height(r) THEN 1 + height(l) ELSE 1 + height(r)
      /\ balance_factor(v) = height(l) - height(r)
  BY NodeHas, BalancedNode
<1>2. DelRotation(v) =
         IF height(l) - height(r) \notin {-2, 2} THEN v
         ELSE IF height(l) - height(r) = 2
         THEN IF balance_factor(l) \in {0, 1} THEN ll_rotation(v)
              ELSE IF balance_factor(l) = -1 THEN lr_rotation(v) ELSE v
         ELSE IF balance_factor(r) \in {-1, 0} THEN rr_rotation(v)
              ELSE IF balance_factor(r) = 1 THEN rl_rotation(v) ELSE v
  BY <1>1, NodeParts DEF DelRotation
<1>3. CASE height(l) - height(r) \in {-1, 0, 1}
  <2>1. DelRotation(v) = v
    BY <1>1, <1>2, <1>3
  <2>2. AllBalanced(v)
    BY <1>3, BalancedNode
  <2>3. height(v) \in {height(v) - 1, height(v)}
    OBVIOUS
  <2>. QED
    BY <1>3, <2>1, <2>2, <2>3 DEF Rotated, v
<1>4. CASE height(l) - height(r) = 2
  <2>1. PICK a, e, b : /\ l = Node(a, e, b) /\ AllBalanced(a) /\ AllBalanced(b)
                       /\ height(a) - height(b) \in {-1, 0, 1}
                       /\ balance_factor(l) = height(a) - height(b)
    BY <1>1, <1>4, BalancedParts
  <2>2. CASE height(a) - height(b) \in {0, 1}
    <3>1. Rotated(v, ll_rotation(v)) /\ height(ll_rotation(v)) \in {height(v) - 1, height(v)}
      BY <1>1, <1>4, <2>1, <2>2, LLRotation
    <3>2. DelRotation(v) = ll_rotation(v)
      BY <1>2, <1>4, <2>1, <2>2
    <3>. QED
      BY <1>4, <3>1, <3>2 DEF v
  <2>3. CASE height(a) - height(b) = -1
    <3>1. PICK x, f, y : b = Node(x, f, y)
      <4>1. l \in Trees /\ a \in Trees /\ b \in Trees /\ height(a) \in Nat /\ height(b) \in Nat
        BY <1>1, <2>1, NodeHas
      <4>2. height(b) > 0
        BY <2>3, <4>1
      <4>. QED
        BY <2>1, <4>1, <4>2, BalancedParts
    <3>2. Rotated(v, lr_rotation(v)) /\ height(lr_rotation(v)) = height(v) - 1
      BY <1>1, <1>4, <2>1, <2>3, <3>1, LRRotation
    <3>3. DelRotation(v) = lr_rotation(v)
      BY <1>2, <1>4, <2>1, <2>3
    <3>. QED
      BY <1>4, <3>2, <3>3 DEF v
  <2>. QED
    BY <2>1, <2>2, <2>3
<1>5. CASE height(l) - height(r) = -2
  <2>1. PICK a, e, b : /\ r = Node(a, e, b) /\ AllBalanced(a) /\ AllBalanced(b)
                       /\ height(a) - height(b) \in {-1, 0, 1}
                       /\ balance_factor(r) = height(a) - height(b)
    BY <1>1, <1>5, BalancedParts
  <2>2. CASE height(a) - height(b) \in {-1, 0}
    <3>1. Rotated(v, rr_rotation(v)) /\ height(rr_rotation(v)) \in {height(v) - 1, height(v)}
      BY <1>1, <1>5, <2>1, <2>2, RRRotation
    <3>2. DelRotation(v) = rr_rotation(v)
      BY <1>2, <1>5, <2>1, <2>2
    <3>. QED
      BY <1>5, <3>1, <3>2 DEF v
  <2>3. CASE height(a) - height(b) = 1
    <3>1. PICK x, f, y : a = Node(x, f, y)
      <4>1. r \in Trees /\ a \in Trees /\ b \in Trees /\ height(a) \in Nat /\ height(b) \in Nat
        BY <1>1, <2>1, NodeHas
      <4>2. height(a) > 0
        BY <2>3, <4>1
      <4>. QED
        BY <2>1, <4>1, <4>2, BalancedParts
    <3>2. Rotated(v, rl_rotation(v)) /\ height(rl_rotation(v)) = height(v) - 1
      BY <1>1, <1>5, <2>1, <2>3, <3>1, RLRotation
    <3>3. DelRotation(v) = rl_rotation(v)
      BY <1>2, <1>5, <2>1, <2>3
    <3>. QED
      BY <1>5, <3>2, <3>3 DEF v
  <2>. QED
    BY <2>1, <2>2, <2>3
<1>. QED
  BY <1>3, <1>4, <1>5

\* A rotation changes nothing about the keys.
LEMMA RotatedKeys ==
    ASSUME NEW t, NEW v, NEW u, NEW k, Rotated(v, u)
    PROVE  /\ OneMore(t, v, k) => OneMore(t, u, k)
           /\ OneLess(t, v, k) => OneLess(t, u, k)
  BY DEF Rotated, OneMore, OneLess

\* AVLTree::insert puts a key into a balanced tree and leaves it balanced; a
\* tree that has got higher leans to the side that has.
LEMMA AVLInsertIs ==
    \A t \in Trees : height(t) < MaxHeight /\ AllBalanced(t) =>
       \A k \in Int :
          /\ AVLTree_insert(t, k) \in Trees /\ AllBalanced(AVLTree_insert(t, k))
          /\ height(AVLTree_insert(t, k)) \in {height(t), height(t) + 1}
          /\ OneMore(t, AVLTree_insert(t, k), k)
          /\ t # Empty /\ height(AVLTree_insert(t, k)) = height(t) + 1 =>
                balance_factor(AVLTree_insert(t, k)) # 0
<1>. DEFINE Good(t, u, k) ==
              /\ u \in Trees /\ AllBalanced(u)
              /\ height(u) \in {height(t), height(t) + 1}
              /\ OneMore(t, u, k)
              /\ t # Empty /\ height(u) = height(t) + 1 => balance_factor(u) # 0
            Fits(t) ==
              height(t) < MaxHeight /\ AllBalanced(t) => \A k \in Int : Good(t, AVLTree_insert(t, k), k)
            P == {t \in Trees : Fits(t)}
<1>1. Empty \in P
  <2>. SUFFICES ASSUME height(Empty) < MaxHeight, NEW k \in Int
                PROVE  Good(Empty, Node(Empty, k, Empty), k)
    BY TreeIs, AVLTree_insertNode
  <2>1. height(Empty) = 0 /\ KeysOf(Empty) = {} /\ Sorted(Empty) /\ AllBalanced(Empty)
    BY heightNode, KeysNode, SortedNode, BalancedNode
  <2>2. /\ Node(Empty, k, Empty) \in Trees /\ height(Node(Empty, k, Empty)) = 1
        /\ OneMore(Empty, Node(Empty, k, Empty), k)
    BY <2>1, TreeIs, NodeIs DEF OneMore
  <2>3. AllBalanced(Node(Empty, k, Empty))
    BY <2>1, <2>2, BalancedNode
  <2>. QED
    BY <2>1, <2>2, <2>3
<1>2. ASSUME NEW l \in Trees \cap P, NEW r \in Trees \cap P, NEW d \in Int, Node(l, d, r) \in Trees
      PROVE  Node(l, d, r) \in P
  <2>. DEFINE t == Node(l, d, r)
  <2>. SUFFICES ASSUME height(t) < MaxHeight, AllBalanced(t), NEW k \in Int
                PROVE  Good(t, AVLTree_insert(t, k), k)
    BY <1>2
  <2>1. /\ height(l) < MaxHeight /\ height(r) < MaxHeight
        /\ height(l) \in Nat /\ height(r) \in Nat
        /\ height(t) = IF height(l) > height(r) THEN 1 + height(l) ELSE 1 + height(r)
        /\ KeysOf(t) = KeysOf(l) \cup {d} \cup KeysOf(r)
        /\ AllBalanced(l) /\ AllBalanced(r) /\ height(l) - height(r) \in {-1, 0, 1}
    BY <1>2, NodeHas, BalancedNode
  <2>2. AVLTree_insert(t, k) =
           InsertRotation(IF k < d THEN Node(AVLTree_insert(l, k), d, r)
                          ELSE IF k > d THEN Node(l, d, AVLTree_insert(r, k))
                          ELSE t)
    BY <1>2, AVLTree_insertNode
  <2>3. Good(l, AVLTree_insert(l, k), k) /\ Good(r, AVLTree_insert(r, k), k)
    BY <1>2, <2>1
  <2>4. height(Empty) = 0 /\ MaxHeight \in Nat
    BY heightNode, TreesToIs
  <2>5. CASE k < d
    <3>. DEFINE u == AVLTree_insert(l, k)
                v == Node(u, d, r)
    <3>1. Good(l, u, k) /\ AVLTree_insert(t, k) = InsertRotation(v)
      BY <2>2, <2>3, <2>5
    <3>. HIDE DEF u
    <3>2. /\ height(u) \in {height(l), height(l) + 1} /\ height(u) < MaxHeight
          /\ height(u) - height(r) \in -1 .. 2
      BY <2>1, <2>4, <3>1
    <3>3. v \in Trees /\ height(v) = IF height(u) > height(r) THEN 1 + height(u) ELSE 1 + height(r)
      BY <1>2, <2>1, <3>1, <3>2, NodeIs
    <3>4. OneMore(t, v, k)
      BY <1>2, <2>5, <3>1, <3>2, MoreBelow
    <3>5. height(u) - height(r) = 2 => balance_factor(u) # 0
      <4>1. height(u) - height(r) = 2 => height(l) > 0 /\ height(u) = height(l) + 1
        BY <2>1, <3>2
      <4>. QED
        BY <2>4, <3>1, <4>1
    <3>6. /\ Rotated(v, InsertRotation(v))
          /\ height(u) - height(r) \in {-1, 0, 1} => InsertRotation(v) = v
          /\ height(u) - height(r) \notin {-1, 0, 1} => height(InsertRotation(v)) = height(v) - 1
      BY <2>1, <3>1, <3>2, <3>3, <3>5, InsertRotationIs
    <3>7. balance_factor(v) = height(u) - height(r)
      BY <3>3, BalancedNode
    <3>. HIDE DEF v, t
    <3>8. CASE height(u) - height(r) \in {-1, 0, 1}
      <4>1. height(v) \in {height(t), height(t) + 1}
        BY <2>1, <3>2, <3>3
      <4>2. height(v) = height(t) + 1 => height(u) - height(r) # 0
        BY <2>1, <3>2, <3>3
      <4>. QED
        BY <3>1, <3>4, <3>6, <3>7, <3>8, <4>1, <4>2, RotatedKeys DEF Rotated
    <3>9. CASE height(u) - height(r) = 2
      <4>1. height(v) - 1 = height(t) /\ height(t) # height(t) + 1
        BY <2>1, <3>2, <3>3, <3>9
      <4>2. height(InsertRotation(v)) = height(t)
        BY <3>6, <3>9, <4>1
      <4>. QED
        BY <3>1, <3>4, <3>6, <4>1, <4>2, RotatedKeys DEF Rotated
    <3>. QED
      BY <3>2, <3>8, <3>9
  <2>6. CASE k > d
    <3>. DEFINE u == AVLTree_insert(r, k)
                v == Node(l, d, u)
    <3>1. Good(r, u, k) /\ AVLTree_insert(t, k) = InsertRotation(v)
      <4>1. ~ (k < d)
        BY <2>6
      <4>. QED
        BY <2>2, <2>3, <2>6, <4>1
    <3>. HIDE DEF u
    <3>2. /\ height(u) \in {height(r), height(r) + 1} /\ height(u) < MaxHeight
          /\ height(l) - height(u) \in -2 .. 1
      BY <2>1, <2>4, <3>1
    <3>3. v \in Trees /\ height(v) = IF height(l) > height(u) THEN 1 + height(l) ELSE 1 + height(u)
      BY <1>2, <2>1, <3>1, <3>2, NodeIs
    <3>4. OneMore(t, v, k)
      BY <1>2, <2>6, <3>1, <3>2, MoreBelow
    <3>5. height(l) - height(u) = -2 => balance_factor(u) # 0
      <4>1. height(l) - height(u) = -2 => height(r) > 0 /\ height(u) = height(r) + 1
        BY <2>1, <3>2
      <4>. QED
        BY <2>4, <3>1, <4>1
    <3>6. /\ Rotated(v, InsertRotation(v))
          /\ height(l) - height(u) \in {-1, 0, 1} => InsertRotation(v) = v
          /\ height(l) - height(u) \notin {-1, 0, 1} => height(InsertRotation(v)) = height(v) - 1
      BY <2>1, <3>1, <3>2, <3>3, <3>5, InsertRotationIs
    <3>7. balance_factor(v) = height(l) - height(u)
      BY <3>3, BalancedNode
    <3>. HIDE DEF v, t
    <3>8. CASE height(l) - height(u) \in {-1, 0, 1}
      <4>1. height(v) \in {height(t), height(t) + 1}
        BY <2>1, <3>2, <3>3
      <4>2. height(v) = height(t) + 1 => height(l) - height(u) # 0
        BY <2>1, <3>2, <3>3
      <4>. QED
        BY <3>1, <3>4, <3>6, <3>7, <3>8, <4>1, <4>2, RotatedKeys DEF Rotated
    <3>9. CASE height(l) - height(u) = -2
      <4>1. height(v) - 1 = height(t) /\ height(t) # height(t) + 1
        BY <2>1, <3>2, <3>3, <3>9
      <4>2. height(InsertRotation(v)) = height(t)
        BY <3>6, <3>9, <4>1
      <4>. QED
        BY <3>1, <3>4, <3>6, <4>1, <4>2, RotatedKeys DEF Rotated
    <3>. QED
      BY <3>2, <3>8, <3>9
  <2>7. CASE k = d
    <3>1. AVLTree_insert(t, k) = InsertRotation(t)
      <4>1. ~ (k < d) /\ ~ (k > d)
        BY <2>7
      <4>. QED
        BY <2>2, <4>1
    <3>2. InsertRotation(t) = t
      <4>1. /\ height(l) - height(r) \in -2 .. 2
            /\ height(l) - height(r) = 2 => balance_factor(l) # 0
            /\ height(l) - height(r) = -2 => balance_factor(r) # 0
        BY <2>1
      <4>. QED
        BY <1>2, <2>1, <4>1, InsertRotationIs
    <3>3. height(t) # height(t) + 1 /\ OneMore(t, t, k)
      BY <2>1, <2>7 DEF OneMore
    <3>. QED
      BY <1>2, <3>1, <3>2, <3>3
  <2>. QED
    BY <2>5, <2>6, <2>7
<1>. HIDE DEF P
<1>3. Trees \subseteq P
  BY <1>1, <1>2, TreeInduct
<1>. QED
  BY <1>3 DEF P

\* AVLTree::del takes a key out of a balanced tree, the one it was asked for
\* if it is there, and leaves it balanced and at most one level lower.
LEMMA AVLDelIs ==
    \A t \in Trees : AllBalanced(t) =>
       \A k \in Int :
          /\ AVLTree_del(t, k) \in Trees /\ AllBalanced(AVLTree_del(t, k))
          /\ height(AVLTree_del(t, k)) \in {height(t) - 1, height(t)}
          /\ Sorted(t) => OneLess(t, AVLTree_del(t, k), k)
<1>. DEFINE Good(t, u, k) ==
              /\ u \in Trees /\ AllBalanced(u)
              /\ height(u) \in {height(t) - 1, height(t)}
              /\ Sorted(t) => OneLess(t, u, k)
            Fits(t) == AllBalanced(t) => \A k \in Int : Good(t, AVLTree_del(t, k), k)
            P == {t \in Trees : Fits(t)}
<1>1. Empty \in P
  BY TreeIs, AVLTree_delNode, heightNode, KeysNode, BalancedNode DEF OneLess
<1>2. ASSUME NEW l \in Trees \cap P, NEW r \in Trees \cap P, NEW d \in Int, Node(l, d, r) \in Trees
      PROVE  Node(l, d, r) \in P
  <2>. DEFINE t == Node(l, d, r)
              e == Data(inorder_pre(l))
              f == Data(inorder_succ(r))
  <2>. SUFFICES ASSUME AllBalanced(t), NEW k \in Int PROVE Good(t, AVLTree_del(t, k), k)
    BY <1>2
  <2>1. /\ height(l) < MaxHeight /\ height(r) < MaxHeight
        /\ height(l) \in Nat /\ height(r) \in Nat
        /\ height(t) = IF height(l) > height(r) THEN 1 + height(l) ELSE 1 + height(r)
        /\ KeysOf(t) = KeysOf(l) \cup {d} \cup KeysOf(r)
        /\ AllBalanced(l) /\ AllBalanced(r) /\ height(l) - height(r) \in {-1, 0, 1}
        /\ Sorted(t) => Sorted(l) /\ Sorted(r)
    BY <1>2, NodeHas, BalancedNode
  <2>2. AVLTree_del(t, k) =
           IF l = Empty /\ r = Empty THEN Empty
           ELSE DelRotation(IF k < d THEN Node(AVLTree_del(l, k), d, r)
                            ELSE IF k > d THEN Node(l, d, AVLTree_del(r, k))
                            ELSE IF height(l) > height(r) THEN Node(AVLTree_del(l, e), e, r)
                            ELSE Node(l, f, AVLTree_del(r, f)))
    BY <1>2, AVLTree_delNode DEF node_height
  <2>3. ASSUME NEW x \in Int, NEW c \in Int
        PROVE  /\ AVLTree_del(l, x) \in Trees /\ height(AVLTree_del(l, x)) < MaxHeight
               /\ Sorted(t) => OneLess(l, AVLTree_del(l, x), x)
               /\ OneLess(t, Node(AVLTree_del(l, x), c, r), k) \/ ~ Sorted(t) =>
                     Good(t, DelRotation(Node(AVLTree_del(l, x), c, r)), k)
    <3>. DEFINE u == AVLTree_del(l, x)
                v == Node(u, c, r)
    <3>1. Good(l, u, x)
      BY <1>2, <2>1
    <3>. HIDE DEF u
    <3>2. height(u) \in Nat /\ height(u) < MaxHeight /\ height(u) - height(r) \in -2 .. 2
      BY <2>1, <3>1, heightLevel, TreesToIs
    <3>3. v \in Trees /\ height(v) = IF height(u) > height(r) THEN 1 + height(u) ELSE 1 + height(r)
      BY <1>2, <2>1, <3>1, <3>2, NodeIs
    <3>4. /\ Rotated(v, DelRotation(v))
          /\ height(u) - height(r) \in {-1, 0, 1} => DelRotation(v) = v
          /\ height(DelRotation(v)) \in {height(v) - 1, height(v)}
      BY <2>1, <3>1, <3>2, <3>3, DelRotationIs
    <3>. HIDE DEF v, t
    <3>5. height(DelRotation(v)) \in {height(t) - 1, height(t)}
      <4>1. CASE height(u) - height(r) \in {-1, 0, 1}
        BY <2>1, <3>1, <3>2, <3>3, <3>4, <4>1
      <4>2. CASE height(u) - height(r) \notin {-1, 0, 1}
        <5>1. height(v) = height(t)
          BY <2>1, <3>1, <3>2, <3>3, <4>2
        <5>. QED
          BY <3>4, <5>1
      <4>. QED
        BY <4>1, <4>2
    <3>6. OneLess(t, v, k) \/ ~ Sorted(t) => Good(t, DelRotation(v), k)
      BY <3>4, <3>5, RotatedKeys DEF Rotated
    <3>7. Sorted(t) => OneLess(l, u, x)
      BY <2>1, <3>1
    <3>. QED
      BY <3>1, <3>2, <3>6, <3>7 DEF u, v
  <2>4. ASSUME NEW x \in Int, NEW c \in Int
        PROVE  /\ AVLTree_del(r, x) \in Trees /\ height(AVLTree_del(r, x)) < MaxHeight
               /\ Sorted(t) => OneLess(r, AVLTree_del(r, x), x)
               /\ OneLess(t, Node(l, c, AVLTree_del(r, x)), k) \/ ~ Sorted(t) =>
                     Good(t, DelRotation(Node(l, c, AVLTree_del(r, x))), k)
    <3>. DEFINE u == AVLTree_del(r, x)
                v == Node(l, c, u)
    <3>1. Good(r, u, x)
      BY <1>2, <2>1
    <3>. HIDE DEF u
    <3>2. height(u) \in Nat /\ height(u) < MaxHeight /\ height(l) - height(u) \in -2 .. 2
      BY <2>1, <3>1, heightLevel, TreesToIs
    <3>3. v \in Trees /\ height(v) = IF height(l) > height(u) THEN 1 + height(l) ELSE 1 + height(u)
      BY <1>2, <2>1, <3>1, <3>2, NodeIs
    <3>4. /\ Rotated(v, DelRotation(v))
          /\ height(l) - height(u) \in {-1, 0, 1} => DelRotation(v) = v
          /\ height(DelRotation(v)) \in {height(v) - 1, height(v)}
      BY <2>1, <3>1, <3>2, <3>3, DelRotationIs
    <3>. HIDE DEF v, t
    <3>5. height(DelRotation(v)) \in {height(t) - 1, height(t)}
      <4>1. CASE height(l) - height(u) \in {-1, 0, 1}
        BY <2>1, <3>1, <3>2, <3>3, <3>4, <4>1
      <4>2. CASE height(l) - height(u) \notin {-1, 0, 1}
        <5>1. height(v) = height(t)
          BY <2>1, <3>1, <3>2, <3>3, <4>2
        <5>. QED
          BY <3>4, <5>1
      <4>. QED
        BY <4>1, <4>2
    <3>6. OneLess(t, v, k) \/ ~ Sorted(t) => Good(t, DelRotation(v), k)
      BY <3>4, <3>5, RotatedKeys DEF Rotated
    <3>7. Sorted(t) => OneLess(r, u, x)
      BY <2>1, <3>1
    <3>. QED
      BY <3>1, <3>2, <3>6, <3>7 DEF u, v
  <2>5. CASE l = Empty /\ r = Empty
    <3>1. AVLTree_del(t, k) = Empty /\ Empty \in Trees /\ height(Empty) = 0 /\ height(t) = 1
      BY <2>1, <2>2, <2>5, TreeIs, heightNode
    <3>2. KeysOf(t) = {d} /\ KeysOf(Empty) = {} /\ Sorted(Empty) /\ AllBalanced(Empty)
      BY <2>1, <2>5, KeysNode, SortedNode, BalancedNode
    <3>3. OneLess(t, Empty, k)
      BY <3>2 DEF OneLess, Nearest
    <3>. QED
      BY <3>1, <3>2, <3>3
  <2>6. CASE ~ (l = Empty /\ r = Empty) /\ k < d
    <3>1. AVLTree_del(t, k) = DelRotation(Node(AVLTree_del(l, k), d, r))
      BY <2>2, <2>6
    <3>2. Sorted(t) => OneLess(t, Node(AVLTree_del(l, k), d, r), k)
      BY <1>2, <2>3, <2>6, LessBelow
    <3>. QED
      BY <1>2, <2>3, <3>1, <3>2
  <2>7. CASE ~ (l = Empty /\ r = Empty) /\ k > d
    <3>1. AVLTree_del(t, k) = DelRotation(Node(l, d, AVLTree_del(r, k)))
      BY <2>2, <2>7
    <3>2. Sorted(t) => OneLess(t, Node(l, d, AVLTree_del(r, k)), k)
      BY <1>2, <2>4, <2>7, LessBelow
    <3>. QED
      BY <1>2, <2>4, <3>1, <3>2
  <2>8. CASE ~ (l = Empty /\ r = Empty) /\ k = d /\ height(l) > height(r)
    <3>1. AVLTree_del(t, k) = DelRotation(Node(AVLTree_del(l, e), e, r))
      BY <2>2, <2>8
    <3>2. l # Empty /\ e \in Int
      BY <1>2, <2>8, ReplacementIs
    <3>3. Sorted(t) => OneLess(t, Node(AVLTree_del(l, e), e, r), k)
      BY <1>2, <2>3, <2>8, <3>2, Replaced
    <3>. QED
      BY <2>3, <3>1, <3>2, <3>3
  <2>9. CASE ~ (l = Empty /\ r = Empty) /\ k = d /\ ~ (height(l) > height(r))
    <3>1. AVLTree_del(t, k) = DelRotation(Node(l, f, AVLTree_del(r, f)))
      BY <2>2, <2>9
    <3>2. r # Empty /\ f \in Int
      BY <1>2, <2>9, ReplacementIs
    <3>3. Sorted(t) => OneLess(t, Node(l, f, AVLTree_del(r, f)), k)
      BY <1>2, <2>4, <2>9, <3>2, Replaced
    <3>. QED
      BY <2>4, <3>1, <3>2, <3>3
  <2>. QED
    BY <2>5, <2>6, <2>7, <2>8, <2>9
<1>. HIDE DEF P
<1>3. Trees \subseteq P
  BY <1>1, <1>2, TreeInduct
<1>. QED
  BY <1>3 DEF P

-----------------------------------------------------------------------------
(* The run of a tree.                                                      *)

(* Every call finds a search tree that is sorted and, if its class is      *)
(* AVLTree, balanced: the lemmas about the operations need no more.        *)
TreesInv ==
  /\ class \in {"BST", "AVLTree", "BinaryTree"}
  /\ tree \in Trees /\ Sorted(tree) /\ KeysOf(tree) \subseteq Keys
  /\ class = "AVLTree" => AllBalanced(tree)
  /\ class = "BinaryTree" => tree = Empty

\* What one insertion and one deletion do to the tree of either class.
LEMMA CallsAre ==
    ASSUME TreesInv, IsSearchTree, NEW k \in Int
    PROVE  /\ height(tree) < MaxHeight =>
                /\ Insertion(tree, k) \in Trees /\ OneMore(tree, Insertion(tree, k), k)
                /\ class = "AVLTree" => AllBalanced(Insertion(tree, k))
           /\ Deletion(tree, k) \in Trees /\ OneLess(tree, Deletion(tree, k), k)
           /\ class = "AVLTree" => AllBalanced(Deletion(tree, k))
<1>1. CASE class = "BST"
  BY <1>1, BSTInsertIs, BSTDelIs DEF TreesInv, Insertion, Deletion
<1>2. CASE class = "AVLTree"
  BY <1>2, AVLInsertIs, AVLDelIs DEF TreesInv, Insertion, Deletion
<1>. QED
  BY <1>1, <1>2 DEF IsSearchTree

\* The keys are integers.
LEMMA KeysAreInt == Keys \subseteq Int
  BY KeysAssumption DEF Keys

\* A step leaves the tree alone, puts a key into it or takes one out.
LEMMA StepsAre ==
    ASSUME TreesInv, TreesNext
    PROVE  /\ class' = class
           /\ \/ tree' = tree
              \/ /\ IsSearchTree /\ tree' \in Trees /\ Sorted(tree')
                 /\ class = "AVLTree" => AllBalanced(tree')
                 /\ \/ \E k \in Keys : KeysOf(tree') = KeysOf(tree) \cup {k}
                    \/ KeysOf(tree') = KeysOf(tree)
                    \/ \E k \in KeysOf(tree) : KeysOf(tree') = KeysOf(tree) \ {k}
<1>1. ASSUME IsSearchTree, NEW k \in Keys, InsertKey(k)
      PROVE  /\ class' = class /\ tree' \in Trees /\ Sorted(tree')
             /\ class = "AVLTree" => AllBalanced(tree')
             /\ KeysOf(tree') = KeysOf(tree) \cup {k}
  <2>1. k \in Int
    BY KeysAreInt
  <2>2. height(tree) < MaxHeight /\ tree' = Insertion(tree, k) /\ class' = class
    BY <1>1 DEF InsertKey
  <2>. QED
    BY <1>1, <2>1, <2>2, CallsAre DEF OneMore, TreesInv
<1>2. ASSUME IsSearchTree, NEW k \in Keys, DeleteKey(k)
      PROVE  /\ class' = class /\ tree' \in Trees /\ Sorted(tree')
             /\ class = "AVLTree" => AllBalanced(tree')
             /\ \/ KeysOf(tree') = KeysOf(tree)
                \/ \E x \in KeysOf(tree) : KeysOf(tree') = KeysOf(tree) \ {x}
  <2>1. k \in Int
    BY KeysAreInt
  <2>2. tree' = Deletion(tree, k) /\ class' = class
    BY <1>2 DEF DeleteKey
  <2>. QED
    BY <1>2, <2>1, <2>2, CallsAre DEF OneLess
<1>3. ASSUME UNCHANGED << class, tree >>
      PROVE  class' = class /\ tree' = tree
  BY <1>3
<1>. QED
  BY <1>1, <1>2, <1>3 DEF TreesNext

\* The invariant holds at first and after every step.
LEMMA TreesInvHolds == TreesSpec => []TreesInv
<1>1. TreesInit => TreesInv
  BY TreeIs, SortedNode, KeysNode, BalancedNode DEF TreesInit, TreesInv
<1>2. TreesInv /\ [TreesNext]_treesVars => TreesInv'
  <2>. SUFFICES ASSUME TreesInv, [TreesNext]_treesVars PROVE TreesInv'
    OBVIOUS
  <2>1. CASE UNCHANGED treesVars
    BY <2>1 DEF TreesInv, treesVars, Keys
  <2>2. CASE TreesNext
    <3>1. class' = class /\ Keys' = Keys
      BY <2>2, StepsAre DEF Keys
    <3>2. CASE tree' = tree
      BY <3>1, <3>2 DEF TreesInv
    <3>3. CASE tree' # tree
      <4>1. KeysOf(tree') \subseteq Keys
        BY <2>2, <3>3, StepsAre DEF TreesInv
      <4>2. /\ IsSearchTree /\ tree' \in Trees /\ Sorted(tree')
            /\ class = "AVLTree" => AllBalanced(tree')
        BY <2>2, <3>3, StepsAre
      <4>. QED
        BY <3>1, <4>1, <4>2 DEF TreesInv, IsSearchTree
    <3>. QED
      BY <3>2, <3>3
  <2>. QED
    BY <2>1, <2>2
<1>. QED
  BY <1>1, <1>2, PTL DEF TreesSpec

\* Whatever is inserted and deleted, and however high the trees may get, the
\* walk of a search tree is sorted, its keys are keys that were inserted, and
\* the one path of BST::search finds exactly those (bst_adt.cpp:54, 147).
THEOREM SearchTreeHolds == TreesSpec => []SearchTree
<1>1. TreesInv => SearchTree
  BY BSTSearchIs, KeysAreInt DEF TreesInv, SearchTree
<1>. QED
  BY <1>1, TreesInvHolds, PTL

\* At every node of an AVL tree the heights of the two sides differ by at
\* most one, after every insert and del (avl_tree_adt.cpp:54, 147).
THEOREM BalancedHolds == TreesSpec => []Balanced
<1>1. TreesInv => Balanced
  BY DEF TreesInv, Balanced, AllBalanced
<1>. QED
  BY <1>1, TreesInvHolds, PTL

\* del of a value that is in the tree takes out that value and no other,
\* wherever its replacement comes from (bst_adt.cpp:135, avl_tree_adt.cpp:156).
THEOREM PresentIsDeletedHolds == TreesSpec => []PresentIsDeleted
<1>1. TreesInv => PresentIsDeleted
  <2>. SUFFICES ASSUME TreesInv, NEW k \in KeysOf(tree)
                PROVE  KeysOf(Deletion(tree, k)) = KeysOf(tree) \ {k}
    BY DEF PresentIsDeleted
  <2>1. k \in Int
    BY KeysNode DEF TreesInv
  <2>2. IsSearchTree
    BY KeysNode DEF TreesInv, IsSearchTree
  <2>. QED
    BY <2>1, <2>2, CallsAre DEF OneLess
<1>. QED
  BY <1>1, TreesInvHolds, PTL

\* Each call does to the keys what its own argument says, in trees of any
\* height: insert adds it and loses none, and del of one that is not there
\* takes out nothing or one of its neighbours (bst_adt.cpp:135,
\* avl_tree_adt.cpp:105, 156).
THEOREM OneKeyPerCallHolds == TreesSpec => []OneKeyPerCall
<1>1. TreesInv => OneKeyPerCall
  <2>. SUFFICES ASSUME TreesInv, IsSearchTree, NEW k \in Keys
                PROVE  LET now == KeysOf(tree)
                       IN  /\ height(tree) < MaxHeight =>
                                KeysOf(Insertion(tree, k)) = now \cup {k}
                           /\ k \notin now =>
                                \/ KeysOf(Deletion(tree, k)) = now
                                \/ \E x \in now : /\ Nearest(tree, x, k)
                                                 /\ KeysOf(Deletion(tree, k)) = now \ {x}
    BY DEF OneKeyPerCall
  <2>1. k \in Int
    BY KeysAreInt
  <2>2. height(tree) < MaxHeight => KeysOf(Insertion(tree, k)) = KeysOf(tree) \cup {k}
    BY <2>1, CallsAre DEF OneMore
  <2>3. OneLess(tree, Deletion(tree, k), k)
    BY <2>1, CallsAre
  <2>. QED
    BY <2>2, <2>3 DEF OneLess
<1>. QED
  BY <1>1, TreesInvHolds, PTL

-----------------------------------------------------------------------------
(* Of BinaryTree: functions that are defined by a recursion over numbers.  *)

RunOf(f, n, V, v, step) ==
  f \in [0 .. n -> V] /\ f[0] = v /\ \A k \in 1 .. n : f[k] = step[<<k, f[k - 1]>>]

\* A value for 0 and a step from each number to the next make a function.
LEMMA Recursion ==
    ASSUME NEW n \in Nat, NEW V, NEW v \in V, NEW step \in [(1 .. n) \X V -> V]
    PROVE  \E f : RunOf(f, n, V, v, step)
<1>. DEFINE Run(f, m) == /\ f \in [0 .. n -> V] /\ f[0] = v
                         /\ \A k \in 1 .. m : f[k] = step[<<k, f[k - 1]>>]
            J == {m \in 0 .. n : \E f : Run(f, m)}
<1>1. 0 \in J
  <2>1. Run([k \in 0 .. n |-> v], 0)
    OBVIOUS
  <2>. HIDE DEF Run
  <2>. QED
    BY <2>1
<1>2. ASSUME NEW k \in 1 .. n, k - 1 \in J PROVE k \in J
  <2>1. PICK f : Run(f, k - 1)
    BY <1>2
  <2>. DEFINE x == step[<<k, f[k - 1]>>]
              g == [f EXCEPT ![k] = x]
  <2>2. f[k - 1] \in V /\ x \in V
    BY <2>1
  <2>3. Run(g, k)
    BY <2>1, <2>2
  <2>. HIDE DEF Run
  <2>. QED
    BY <2>3
<1>3. n \in J
  <2>. HIDE DEF J
  <2>. QED
    BY <1>1, <1>2, InductTo
<1>4. PICK f : Run(f, n)
  BY <1>3
<1>5. RunOf(f, n, V, v, step)
  BY <1>4 DEF RunOf
<1>. QED
  BY <1>5

Paths == Seq({0, 1})

\* The children are paths, which tell whose children they are, and on which side.
LEMMA ChildPaths ==
    ASSUME NEW p \in Paths
    PROVE  /\ T!LeftChild(p) \in Paths /\ T!RightChild(p) \in Paths
           /\ T!LeftChild(p) # << >> /\ T!RightChild(p) # << >>
           /\ \A r \in Paths : /\ T!LeftChild(p) # T!RightChild(r)
                               /\ T!LeftChild(p) = T!LeftChild(r) => p = r
                               /\ T!RightChild(p) = T!RightChild(r) => p = r
<1>1. /\ T!LeftChild(p) \in Paths /\ T!RightChild(p) \in Paths
      /\ T!LeftChild(p) # << >> /\ T!RightChild(p) # << >>
  BY DEF Paths, T!LeftChild, T!RightChild
<1>2. ASSUME NEW r \in Paths, NEW i \in {0, 1}, NEW j \in {0, 1}, Append(p, i) = Append(r, j)
      PROVE  i = j /\ p = r
  <2>1. Len(p) \in Nat /\ Len(r) \in Nat /\ Len(p) + 1 = Len(r) + 1
    BY <1>2 DEF Paths
  <2>2. Append(p, i)[Len(p) + 1] = i /\ Append(r, j)[Len(r) + 1] = j
    BY DEF Paths
  <2>3. \A k \in 1 .. Len(p) : Append(p, i)[k] = p[k] /\ Append(r, j)[k] = r[k]
    BY <2>1 DEF Paths
  <2>. QED
    BY <1>2, <2>1, <2>2, <2>3, SeqEqual DEF Paths
<1>. QED
  BY <1>1, <1>2 DEF T!LeftChild, T!RightChild

\* What the answers say about the children of a node.
LEMMA ChildrenEnteredAre ==
    ASSUME NEW e \in Seq(Int), NEW p \in Paths, NEW k \in Nat
    PROVE  /\ T!ChildrenEntered(e, p, k) \in Seq(Paths)
           /\ Len(T!ChildrenEntered(e, p, k)) \in Nat
           /\ T!ChildrenEntered(e, p, k) =
                IF T!Answered(e, 2 * k)
                THEN IF T!Answered(e, 2 * k + 1) THEN << T!LeftChild(p), T!RightChild(p) >>
                     ELSE << T!LeftChild(p) >>
                ELSE IF T!Answered(e, 2 * k + 1) THEN << T!RightChild(p) >> ELSE << >>
<1>. DEFINE l == T!LeftChild(p)
            r == T!RightChild(p)
<1>1. l \in Paths /\ r \in Paths
  BY ChildPaths
<1>. HIDE DEF l, r
<1>2. /\ << >> \in Seq(Paths) /\ << l >> \in Seq(Paths) /\ << r >> \in Seq(Paths) /\ << l, r >> \in Seq(Paths)
      /\ << l >> \o << >> = << l >>
      /\ << >> \o << r >> = << r >> /\ << >> \o << >> = << >>
  BY <1>1
<1>20. << l >> \o << r >> = << l, r >>
  <2>1. << l >> \in Seq(Paths) /\ << r >> \in Seq(Paths) /\ << l, r >> \in Seq(Paths)
        /\ Len(<< l >>) = 1 /\ Len(<< r >>) = 1 /\ Len(<< l, r >>) = 2
    BY <1>1
  <2>2. << l >> \o << r >> \in Seq(Paths) /\ Len(<< l >> \o << r >>) = 2
    BY <2>1
  <2>3. (<< l >> \o << r >>)[1] = l /\ (<< l >> \o << r >>)[2] = r
    BY <2>1, ConcatProperties
  <2>. DEFINE c == << l >> \o << r >>
              d == << l, r >>
  <2>4. d \in Seq(Paths) /\ c \in Seq(Paths) /\ Len(c) = 2 /\ Len(d) = 2
        /\ c[1] = d[1] /\ c[2] = d[2]
    BY <2>1, <2>2, <2>3
  <2>. HIDE DEF c, d
  <2>5. c = d
    BY <2>4, SeqEqual
  <2>. QED
    BY <2>5 DEF c, d
<1>3. T!ChildrenEntered(e, p, k) = (IF T!Answered(e, 2 * k) THEN << l >> ELSE << >>)
                                   \o (IF T!Answered(e, 2 * k + 1) THEN << r >> ELSE << >>)
  BY DEF T!ChildrenEntered, l, r
<1>4. T!ChildrenEntered(e, p, k) =
                IF T!Answered(e, 2 * k)
                THEN IF T!Answered(e, 2 * k + 1) THEN << l, r >> ELSE << l >>
                ELSE IF T!Answered(e, 2 * k + 1) THEN << r >> ELSE << >>
  <2>1. CASE T!Answered(e, 2 * k) /\ T!Answered(e, 2 * k + 1)
    BY <1>20, <1>3, <2>1
  <2>2. CASE T!Answered(e, 2 * k) /\ ~ T!Answered(e, 2 * k + 1)
    BY <1>2, <1>3, <2>2
  <2>3. CASE ~ T!Answered(e, 2 * k) /\ T!Answered(e, 2 * k + 1)
    BY <1>2, <1>3, <2>3
  <2>4. CASE ~ T!Answered(e, 2 * k) /\ ~ T!Answered(e, 2 * k + 1)
    BY <1>2, <1>3, <2>4
  <2>. QED
    BY <2>1, <2>2, <2>3, <2>4
<1>5. T!ChildrenEntered(e, p, k) \in Seq(Paths)
  BY <1>2, <1>4
<1>. QED
  BY <1>4, <1>5 DEF l, r

\* The nodes after each pair of answers.
LEMMA NodesToIs ==
    ASSUME NEW e \in Seq(Int)
    PROVE  /\ T!NodesTo(e) \in [0 .. Len(e) -> Seq(Paths)]
           /\ T!NodesTo(e)[0] = << << >> >>
           /\ \A k \in 1 .. Len(e) :
                 T!NodesTo(e)[k] =
                    IF k > Len(T!NodesTo(e)[k - 1]) THEN T!NodesTo(e)[k - 1]
                    ELSE T!NodesTo(e)[k - 1] \o T!ChildrenEntered(e, T!NodesTo(e)[k - 1][k], k)
<1>. DEFINE n == Len(e)
            V == Seq(Paths)
            More(k, s) == IF k > Len(s) THEN s ELSE s \o T!ChildrenEntered(e, s[k], k)
            step == [x \in (1 .. n) \X V |-> More(x[1], x[2])]
<1>1. n \in Nat /\ << << >> >> \in V
  BY DEF Paths
<1>2. ASSUME NEW k \in 1 .. n, NEW s \in V PROVE More(k, s) \in V
  <2>1. CASE k > Len(s)
    BY <2>1
  <2>2. CASE ~ k > Len(s)
    <3>1. s[k] \in Paths /\ k \in Nat
      BY <1>1, <2>2
    <3>2. T!ChildrenEntered(e, s[k], k) \in V
      BY <3>1, ChildrenEnteredAre
    <3>3. s \o T!ChildrenEntered(e, s[k], k) \in V
      BY <3>2
    <3>. QED
      BY <2>2, <3>3
  <2>. QED
    BY <2>1, <2>2
<1>. HIDE DEF More, V
<1>3. step \in [(1 .. n) \X V -> V]
  BY <1>2
<1>. HIDE DEF n
<1>4. \A k \in 1 .. n, s \in V : step[<<k, s>>] = More(k, s)
  OBVIOUS
<1>. HIDE DEF step
<1>51. PICK f : RunOf(f, n, V, << << >> >>, step)
  BY ONLY <1>1, <1>3, Recursion
<1>5. f \in [0 .. n -> V] /\ f[0] = << << >> >> /\ \A k \in 1 .. n : f[k] = step[<<k, f[k - 1]>>]
  BY <1>51 DEF RunOf
<1>50. \A k \in 1 .. n : f[k] = More(k, f[k - 1])
  <2>1. \A k \in 1 .. n : f[k - 1] \in V
    BY <1>1, <1>5
  <2>. QED
    BY <1>4, <1>5, <2>1
<1>. DEFINE Is(to) == to = [k \in 0 .. n |-> IF k = 0 THEN << << >> >> ELSE More(k, to[k - 1])]
<1>6. Is(f)
  BY <1>1, <1>5, <1>50
<1>. DEFINE r == CHOOSE to : Is(to)
<1>7. Is(r)
  BY <1>6
<1>8. r = T!NodesTo(e)
  BY DEF T!NodesTo, n, More
<1>. HIDE DEF r
<1>9. r[0] = << << >> >> /\ \A k \in 1 .. n : r[k] = More(k, r[k - 1])
  BY <1>1, <1>7
<1>10. \A k \in 0 .. n : r[k] \in V
  <2>. DEFINE J == {k \in 0 .. n : r[k] \in V}
  <2>1. 0 \in J
    BY <1>1, <1>9
  <2>2. ASSUME NEW k \in 1 .. n, k - 1 \in J PROVE k \in J
    BY <1>1, <1>2, <1>9, <2>2
  <2>. HIDE DEF J
  <2>3. \A k \in 0 .. n : k \in J
    BY <1>1, <2>1, <2>2, InductTo
  <2>. QED
    BY <2>3 DEF J
<1>11. r \in [0 .. n -> V]
  BY <1>7, <1>10
<1>. QED
  BY <1>8, <1>9, <1>11 DEF n, V, More

(* t is s with the children of p, which the k-th pair of answers names.     *)
Extended(e, s, t, p, k) ==
  /\ t \in Seq(Paths) /\ Len(s) <= Len(t)
  /\ \A i \in 1 .. Len(s) : t[i] = s[i]
  /\ \A i \in Len(s) + 1 .. Len(t) :
        \/ t[i] = T!LeftChild(p) /\ T!Answered(e, 2 * k)
        \/ t[i] = T!RightChild(p) /\ T!Answered(e, 2 * k + 1)
  /\ \A i, j \in Len(s) + 1 .. Len(t) : t[i] = t[j] => i = j
  /\ T!Answered(e, 2 * k) => \E i \in Len(s) + 1 .. Len(t) : t[i] = T!LeftChild(p)
  /\ T!Answered(e, 2 * k + 1) => \E i \in Len(s) + 1 .. Len(t) : t[i] = T!RightChild(p)

\* What the children of one more node add to a sequence of nodes.
LEMMA WithChildren ==
    ASSUME NEW e \in Seq(Int), NEW s \in Seq(Paths), NEW p \in Paths, NEW k \in Nat,
           NEW t, t = s \o T!ChildrenEntered(e, p, k)
    PROVE  Extended(e, s, t, p, k)
<1>. DEFINE l == T!LeftChild(p)
            r == T!RightChild(p)
            c == T!ChildrenEntered(e, p, k)
            a == T!Answered(e, 2 * k)
            b == T!Answered(e, 2 * k + 1)
<1>1. l \in Paths /\ r \in Paths /\ l # r /\ c \in Seq(Paths) /\ Len(s) \in Nat
  BY ChildPaths, ChildrenEnteredAre
<1>2. c = IF a THEN IF b THEN << l, r >> ELSE << l >> ELSE IF b THEN << r >> ELSE << >>
  BY ChildrenEnteredAre
<1>. HIDE DEF l, r, a, b, c
<1>3. /\ a /\ b => Len(c) = 2 /\ c[1] = l /\ c[2] = r
      /\ a /\ ~ b => Len(c) = 1 /\ c[1] = l
      /\ ~ a /\ b => Len(c) = 1 /\ c[1] = r
      /\ ~ a /\ ~ b => Len(c) = 0
  BY <1>2
<1>4. t \in Seq(Paths) /\ Len(t) = Len(s) + Len(c)
      /\ \A i \in 1 .. Len(s) + Len(c) : t[i] = IF i <= Len(s) THEN s[i] ELSE c[i - Len(s)]
  BY <1>1, ConcatProperties DEF c
<1>5. Len(c) \in 0 .. 2
  BY <1>3
<1>6. \A i \in Len(s) + 1 .. Len(t) : t[i] = c[i - Len(s)] /\ i - Len(s) \in 1 .. Len(c)
  BY <1>1, <1>4, <1>5
<1>7. \A i \in 1 .. Len(s) : t[i] = s[i]
  BY <1>1, <1>4, <1>5
<1>8. \A i \in 1 .. Len(c) : t[Len(s) + i] = c[i] /\ Len(s) + i \in Len(s) + 1 .. Len(t)
  BY <1>1, <1>4, <1>5
<1>9. \A i \in 1 .. Len(c) : (c[i] = l /\ a) \/ (c[i] = r /\ b)
  BY <1>3
<1>10. \A i, j \in 1 .. Len(c) : c[i] = c[j] => i = j
  BY <1>1, <1>3
<1>11. (a => \E i \in 1 .. Len(c) : c[i] = l) /\ (b => \E i \in 1 .. Len(c) : c[i] = r)
  BY <1>3
<1>12. \A i \in Len(s) + 1 .. Len(t) : (t[i] = l /\ a) \/ (t[i] = r /\ b)
  BY <1>6, <1>9
<1>13. \A i, j \in Len(s) + 1 .. Len(t) : t[i] = t[j] => i = j
  <2>. SUFFICES ASSUME NEW i \in Len(s) + 1 .. Len(t), NEW j \in Len(s) + 1 .. Len(t), t[i] = t[j]
                PROVE  i = j
    OBVIOUS
  <2>1. i - Len(s) = j - Len(s)
    BY <1>6, <1>10
  <2>. QED
    BY <1>1, <1>4, <1>5, <2>1
<1>14. a => \E i \in Len(s) + 1 .. Len(t) : t[i] = l
  BY <1>8, <1>11
<1>15. b => \E i \in Len(s) + 1 .. Len(t) : t[i] = r
  BY <1>8, <1>11
<1>16. Len(s) <= Len(t)
  BY <1>1, <1>4, <1>5
<1>. QED
  BY <1>4, <1>7, <1>12, <1>13, <1>14, <1>15, <1>16 DEF l, r, a, b, Extended

(* nodes is what the first k pairs of answers make: the root, and for each *)
(* of the first k nodes its children, in their order and each once.        *)
ChildEntered(e, nodes, i, j) ==
  \/ nodes[i] = T!LeftChild(nodes[j]) /\ T!Answered(e, 2 * j)
  \/ nodes[i] = T!RightChild(nodes[j]) /\ T!Answered(e, 2 * j + 1)

Made(e, nodes, k) ==
  /\ nodes \in Seq(Paths) /\ Len(nodes) >= 1 /\ nodes[1] = << >>
  /\ \A i, j \in 1 .. Len(nodes) : nodes[i] = nodes[j] => i = j
  /\ \A i \in 2 .. Len(nodes) : \E j \in 1 .. i - 1 : j <= k /\ ChildEntered(e, nodes, i, j)
  /\ \A j \in 1 .. Len(nodes) : j <= k =>
        /\ T!Answered(e, 2 * j) => \E i \in 1 .. Len(nodes) : nodes[i] = T!LeftChild(nodes[j])
        /\ T!Answered(e, 2 * j + 1) => \E i \in 1 .. Len(nodes) : nodes[i] = T!RightChild(nodes[j])

\* One more node's children.
LEMMA MadeStep ==
    ASSUME NEW e \in Seq(Int), NEW s, NEW k \in Nat, Made(e, s, k), k + 1 <= Len(s),
           NEW t, t = s \o T!ChildrenEntered(e, s[k + 1], k + 1)
    PROVE  /\ Made(e, t, k + 1) /\ Len(s) <= Len(t)
           /\ \A i \in 1 .. Len(s) : t[i] = s[i]
<1>. DEFINE p == s[k + 1]
<1>1. /\ s \in Seq(Paths) /\ Len(s) \in Nat /\ Len(s) >= 1 /\ s[1] = << >>
      /\ \A i, j \in 1 .. Len(s) : s[i] = s[j] => i = j
      /\ k + 1 \in 1 .. Len(s) /\ \A i \in 1 .. Len(s) : s[i] \in Paths
  <2>1. s \in Seq(Paths) /\ Len(s) >= 1 /\ s[1] = << >>
        /\ \A i, j \in 1 .. Len(s) : s[i] = s[j] => i = j
    BY DEF Made
  <2>. QED
    BY <2>1
<1>2. /\ t \in Seq(Paths) /\ Len(s) <= Len(t)
      /\ \A i \in 1 .. Len(s) : t[i] = s[i]
      /\ \A i \in Len(s) + 1 .. Len(t) :
            \/ t[i] = T!LeftChild(p) /\ T!Answered(e, 2 * (k + 1))
            \/ t[i] = T!RightChild(p) /\ T!Answered(e, 2 * (k + 1) + 1)
      /\ \A i, j \in Len(s) + 1 .. Len(t) : t[i] = t[j] => i = j
      /\ T!Answered(e, 2 * (k + 1)) => \E i \in Len(s) + 1 .. Len(t) : t[i] = T!LeftChild(p)
      /\ T!Answered(e, 2 * (k + 1) + 1) => \E i \in Len(s) + 1 .. Len(t) : t[i] = T!RightChild(p)
  <2>1. s \in Seq(Paths) /\ p \in Paths /\ k + 1 \in Nat
    BY <1>1
  <2>2. t = s \o T!ChildrenEntered(e, p, k + 1)
    OBVIOUS
  <2>. HIDE DEF p
  <2>3. Extended(e, s, t, p, k + 1)
    BY ONLY e \in Seq(Int), <2>1, <2>2, WithChildren
  <2>. QED
    BY ONLY <2>3 DEF Extended
<1>3. Len(t) \in Nat /\ \A i \in 1 .. Len(t) : i \in 1 .. Len(s) \/ i \in Len(s) + 1 .. Len(t)
  BY <1>1, <1>2
<1>4. \A i \in Len(s) + 1 .. Len(t) : ChildEntered(e, t, i, k + 1)
  BY <1>1, <1>2 DEF ChildEntered
<1>5. \A i \in 2 .. Len(s) : \E j \in 1 .. i - 1 : j <= k /\ ChildEntered(e, t, i, j)
  <2>. SUFFICES ASSUME NEW i \in 2 .. Len(s)
                PROVE  \E j \in 1 .. i - 1 : j <= k /\ ChildEntered(e, t, i, j)
    OBVIOUS
  <2>1. PICK j \in 1 .. i - 1 : j <= k /\ ChildEntered(e, s, i, j)
    BY DEF Made
  <2>2. t[i] = s[i] /\ t[j] = s[j]
    BY <1>1, <1>2
  <2>3. ChildEntered(e, t, i, j)
    BY <2>1, <2>2 DEF ChildEntered
  <2>. QED
    BY <2>1, <2>3
\* What is new is no child of an earlier node, and not the root.
<1>6. ASSUME NEW i \in 1 .. Len(s), NEW j \in Len(s) + 1 .. Len(t) PROVE t[i] # t[j]
  <2>0. p \in Paths /\ s[i] \in Paths
    BY <1>1
  <2>1. CASE i = 1
    <3>1. t[i] = << >>
      BY <1>1, <1>2, <2>1
    <3>. QED
      BY <1>2, <2>0, <3>1, ChildPaths
  <2>2. CASE i # 1
    <3>1. i \in 2 .. Len(s)
      BY <1>1, <2>2
    <3>2. PICK m \in 1 .. i - 1 : m <= k /\ ChildEntered(e, s, i, m)
      BY <3>1 DEF Made
    <3>3. m \in 1 .. Len(s) /\ s[m] \in Paths /\ m # k + 1
      BY <1>1, <3>2
    <3>4. s[m] # p
      BY <1>1, <3>3
    <3>5. t[i] = T!LeftChild(s[m]) \/ t[i] = T!RightChild(s[m])
      BY <1>2, <3>2 DEF ChildEntered
    <3>6. t[j] = T!LeftChild(p) \/ t[j] = T!RightChild(p)
      BY <1>2
    <3>. HIDE DEF p
    <3>. QED
      BY <2>0, <3>3, <3>4, <3>5, <3>6, ChildPaths
  <2>. QED
    BY <2>1, <2>2
<1>7. \A i, j \in 1 .. Len(t) : t[i] = t[j] => i = j
  <2>. SUFFICES ASSUME NEW i \in 1 .. Len(t), NEW j \in 1 .. Len(t), t[i] = t[j] PROVE i = j
    OBVIOUS
  <2>1. CASE i \in 1 .. Len(s) /\ j \in 1 .. Len(s)
    BY <1>1, <1>2, <2>1
  <2>2. CASE i \in Len(s) + 1 .. Len(t) /\ j \in Len(s) + 1 .. Len(t)
    BY <1>2, <2>2
  <2>. QED
    BY <1>3, <1>6, <2>1, <2>2
<1>8. \A i \in 2 .. Len(t) : \E j \in 1 .. i - 1 : j <= k + 1 /\ ChildEntered(e, t, i, j)
  <2>. SUFFICES ASSUME NEW i \in 2 .. Len(t)
                PROVE  \E j \in 1 .. i - 1 : j <= k + 1 /\ ChildEntered(e, t, i, j)
    OBVIOUS
  <2>1. CASE i \in 2 .. Len(s)
    <3>1. PICK j \in 1 .. i - 1 : j <= k /\ ChildEntered(e, t, i, j)
      BY <1>5, <2>1
    <3>2. j <= k + 1
      BY <3>1
    <3>. QED
      BY <3>1, <3>2
  <2>2. CASE i \in Len(s) + 1 .. Len(t)
    <3>1. k + 1 \in 1 .. i - 1 /\ k + 1 <= k + 1
      BY <1>1, <2>2
    <3>. QED
      BY <1>4, <2>2, <3>1
  <2>. QED
    BY <1>1, <1>3, <2>1, <2>2
<1>9. ASSUME NEW j \in 1 .. Len(t), j <= k + 1
      PROVE  /\ T!Answered(e, 2 * j) => \E i \in 1 .. Len(t) : t[i] = T!LeftChild(t[j])
             /\ T!Answered(e, 2 * j + 1) => \E i \in 1 .. Len(t) : t[i] = T!RightChild(t[j])
  <2>0. j \in 1 .. Len(s) /\ t[j] = s[j]
    BY <1>1, <1>2, <1>9
  <2>1. CASE j <= k
    <3>1. /\ T!Answered(e, 2 * j) => \E i \in 1 .. Len(s) : s[i] = T!LeftChild(s[j])
          /\ T!Answered(e, 2 * j + 1) => \E i \in 1 .. Len(s) : s[i] = T!RightChild(s[j])
      BY <2>0, <2>1 DEF Made
    <3>2. \A i \in 1 .. Len(s) : i \in 1 .. Len(t) /\ t[i] = s[i]
      BY <1>1, <1>2, <1>3
    <3>. QED
      BY <2>0, <3>1, <3>2
  <2>2. CASE j = k + 1
    <3>1. \A i \in Len(s) + 1 .. Len(t) : i \in 1 .. Len(t)
      BY <1>1
    <3>2. t[j] = p
      BY <2>0, <2>2
    <3>. HIDE DEF p
    <3>. QED
      BY <1>2, <2>2, <3>1, <3>2
  <2>. QED
    BY <1>9, <2>1, <2>2
<1>10. t \in Seq(Paths) /\ Len(t) >= 1 /\ t[1] = << >>
  BY <1>1, <1>2, <1>3
<1>11. Made(e, t, k + 1)
  BY <1>7, <1>8, <1>9, <1>10 DEF Made
<1>. QED
  BY <1>2, <1>11

\* Each pair of answers makes what it should of what those before it made.
LEMMA NodesMade ==
    ASSUME NEW e \in Seq(Int)
    PROVE  \A k \in 0 .. Len(e) : Made(e, T!NodesTo(e)[k], k)
<1>. DEFINE n == Len(e)
            E(k) == T!NodesTo(e)[k]
            J == {k \in 0 .. n : Made(e, E(k), k)}
<1>0. n \in Nat
  OBVIOUS
<1>1. 0 \in J
  <2>. DEFINE s == E(0)
  <2>1. s = << << >> >>
    BY NodesToIs
  <2>. HIDE DEF s
  <2>2. s \in Seq(Paths) /\ Len(s) = 1 /\ s[1] = << >>
    BY <2>1 DEF Paths
  <2>3. Made(e, s, 0)
    BY <2>2 DEF Made
  <2>4. 0 \in 0 .. n /\ Made(e, E(0), 0)
    BY <1>0, <2>3 DEF s
  <2>. QED
    BY <2>4
<1>2. ASSUME NEW k \in 1 .. n, k - 1 \in J PROVE k \in J
  <2>. DEFINE s == E(k - 1)
  <2>1. Made(e, s, k - 1) /\ k - 1 \in Nat /\ (k - 1) + 1 = k
    BY <1>2
  <2>2. E(k) = IF k > Len(s) THEN s ELSE s \o T!ChildrenEntered(e, s[k], k)
    BY NodesToIs
  <2>3. Len(s) \in Nat
    <3>. HIDE DEF s
    <3>. QED
      BY <2>1 DEF Made
  <2>. HIDE DEF E, s
  <2>4. CASE k > Len(s)
    <3>1. \A j \in 1 .. Len(s) : j <= k - 1
      BY <2>3, <2>4
    <3>2. \A i \in 2 .. Len(s) : \E j \in 1 .. i - 1 : j <= k /\ ChildEntered(e, s, i, j)
      <4>1. \A i \in 2 .. Len(s) : \E j \in 1 .. i - 1 : j <= k - 1 /\ ChildEntered(e, s, i, j)
        BY <2>1 DEF Made
      <4>2. \A j \in Int : j <= k - 1 => j <= k
        OBVIOUS
      <4>. QED
        BY <4>1, <4>2
    <3>3. Made(e, s, k)
      BY <2>1, <3>1, <3>2 DEF Made
    <3>. QED
      BY <2>2, <2>4, <3>3
  <2>5. CASE ~ k > Len(s)
    <3>. DEFINE t == E(k)
    <3>1. t = s \o T!ChildrenEntered(e, s[(k - 1) + 1], (k - 1) + 1) /\ (k - 1) + 1 <= Len(s)
      BY <2>1, <2>2, <2>3, <2>5
    <3>. HIDE DEF t
    <3>2. Made(e, t, (k - 1) + 1)
      BY <2>1, <3>1, MadeStep
    <3>. QED
      BY <2>1, <3>2 DEF t
  <2>. QED
    BY <2>4, <2>5
<1>. HIDE DEF J
<1>3. \A k \in 0 .. n : k \in J
  BY <1>0, <1>1, <1>2, InductTo
<1>. QED
  BY <1>3 DEF J

\* When there is no further node, or no further answer, nothing is added.
LEMMA NodesStop ==
    ASSUME NEW e \in Seq(Int), NEW k \in 0 .. Len(e),
           Len(T!NodesTo(e)[k]) <= k \/ 2 * (k + 1) > Len(e)
    PROVE  T!NodesOf(e) = T!NodesTo(e)[k]
<1>. DEFINE n == Len(e)
            E(j) == T!NodesTo(e)[j]
            J == {j \in 0 .. n : j >= k => E(j) = E(k)}
<1>0. n \in Nat /\ E(k) \in Seq(Paths) /\ Len(E(k)) \in Nat
  BY NodesToIs
<1>1. 0 \in J
  BY <1>0
<1>2. ASSUME NEW j \in 1 .. n, j - 1 \in J PROVE j \in J
  <2>. SUFFICES ASSUME j > k PROVE E(j) = E(k)
    BY <1>0
  <2>1. j - 1 >= k /\ E(j - 1) = E(k)
    BY <1>0, <1>2
  <2>2. E(j) = IF j > Len(E(k)) THEN E(k) ELSE E(k) \o T!ChildrenEntered(e, E(k)[j], j)
    BY <2>1, NodesToIs
  <2>3. CASE Len(E(k)) <= k
    BY <1>0, <2>2, <2>3
  <2>4. CASE 2 * (k + 1) > Len(e)
    <3>1. 2 * j > n /\ 2 * j + 1 > n
      BY <1>0, <2>4
    <3>2. ~ T!Answered(e, 2 * j) /\ ~ T!Answered(e, 2 * j + 1)
      BY <1>0, <3>1 DEF T!Answered
    <3>3. T!ChildrenEntered(e, E(k)[j], j) = << >>
      BY <3>2 DEF T!ChildrenEntered
    <3>4. E(k) \o << >> = E(k)
      BY <1>0
    <3>. QED
      BY <2>2, <3>3, <3>4
  <2>. QED
    BY <2>3, <2>4
<1>. HIDE DEF J
<1>3. \A j \in 0 .. n : j \in J
  BY <1>0, <1>1, <1>2, InductTo
<1>4. n \in J /\ n >= k
  BY <1>0, <1>3
<1>. QED
  BY <1>4 DEF J, T!NodesOf

\* One more answer leaves the others, and what is made of pairs that were complete.
LEMMA NodesAgree ==
    ASSUME NEW e \in Seq(Int), NEW x \in Int
    PROVE  /\ Append(e, x) \in Seq(Int) /\ Len(Append(e, x)) = Len(e) + 1
           /\ \A i \in Nat : /\ T!Answered(e, i) => i <= Len(e)
                             /\ i <= Len(e) => (T!Answered(Append(e, x), i) <=> T!Answered(e, i))
           /\ T!Answered(Append(e, x), Len(e) + 1) <=> x # -1
           /\ \A k \in 0 .. Len(e) : 2 * k + 1 <= Len(e) =>
                 T!NodesTo(Append(e, x))[k] = T!NodesTo(e)[k]
<1>. DEFINE d == Append(e, x)
            n == Len(e)
<1>1. /\ d \in Seq(Int) /\ Len(d) = n + 1 /\ n \in Nat
      /\ \A i \in 1 .. n : d[i] = e[i]
      /\ d[n + 1] = x
  OBVIOUS
<1>2. DOMAIN d = 1 .. n + 1 /\ DOMAIN e = 1 .. n
  BY <1>1
<1>. HIDE DEF d, n
<1>3. \A i \in Nat : (T!Answered(e, i) => i <= n) /\ (i <= n => (T!Answered(d, i) <=> T!Answered(e, i)))
  BY <1>1, <1>2 DEF T!Answered, T!IsValue
<1>4. T!Answered(d, n + 1) <=> x # -1
  BY <1>1, <1>2 DEF T!Answered, T!IsValue
<1>. DEFINE J == {k \in 0 .. n : 2 * k + 1 <= n => T!NodesTo(d)[k] = T!NodesTo(e)[k]}
<1>5. 0 \in J
  <2>1. T!NodesTo(d)[0] = << << >> >> /\ T!NodesTo(e)[0] = << << >> >>
    BY <1>1, NodesToIs
  <2>2. 0 \in 0 .. n /\ (2 * 0 + 1 <= n => T!NodesTo(d)[0] = T!NodesTo(e)[0])
    BY <1>1, <2>1
  <2>. QED
    BY <2>2
<1>6. ASSUME NEW k \in 1 .. n, k - 1 \in J PROVE k \in J
  <2>. SUFFICES ASSUME 2 * k + 1 <= n PROVE T!NodesTo(d)[k] = T!NodesTo(e)[k]
    BY <1>1
  <2>. DEFINE s == T!NodesTo(e)[k - 1]
  <2>1. T!NodesTo(d)[k - 1] = s
    BY <1>1, <1>6
  <2>2. T!NodesTo(e)[k] = IF k > Len(s) THEN s ELSE s \o T!ChildrenEntered(e, s[k], k)
    BY NodesToIs DEF n
  <2>3. T!NodesTo(d)[k] = IF k > Len(s) THEN s ELSE s \o T!ChildrenEntered(d, s[k], k)
    <3>1. k \in 1 .. Len(d)
      BY <1>1
    <3>. QED
      BY <1>1, <2>1, <3>1, NodesToIs
  <2>4. (T!Answered(d, 2 * k) <=> T!Answered(e, 2 * k)) /\ (T!Answered(d, 2 * k + 1) <=> T!Answered(e, 2 * k + 1))
    <3>1. 2 * k \in Nat /\ 2 * k + 1 \in Nat /\ 2 * k <= n
      BY <1>1
    <3>. QED
      BY <1>3, <3>1
  <2>5. T!ChildrenEntered(d, s[k], k) = T!ChildrenEntered(e, s[k], k)
    BY <2>4 DEF T!ChildrenEntered
  <2>. QED
    BY <2>2, <2>3, <2>5
<1>. HIDE DEF J
<1>7. \A k \in 0 .. n : k \in J
  BY <1>1, <1>5, <1>6, InductTo
<1>. QED
  BY <1>1, <1>3, <1>4, <1>7 DEF J, d, n

\* The next answer is the left child of the node whose pair comes next ...
LEMMA LeftEntered ==
    ASSUME NEW e \in Seq(Int), NEW x \in Int, NEW m \in Nat, Len(e) = 2 * m + 1,
           m + 1 <= Len(T!NodesOf(e))
    PROVE  T!NodesOf(Append(e, x)) =
              IF x = -1 THEN T!NodesOf(e)
              ELSE Append(T!NodesOf(e), T!LeftChild(T!NodesOf(e)[m + 1]))
<1>. DEFINE d == Append(e, x)
            s == T!NodesTo(e)[m]
            p == s[m + 1]
<1>1. m \in 0 .. Len(e) /\ 2 * (m + 1) > Len(e) /\ 2 * m + 1 <= Len(e)
  OBVIOUS
<1>2. T!NodesOf(e) = s
  BY <1>1, NodesStop
<1>3. s \in Seq(Paths) /\ m + 1 <= Len(s) /\ p \in Paths
  <2>1. s \in Seq(Paths)
    BY <1>1, NodesToIs
  <2>. QED
    BY <1>2, <2>1
<1>4. /\ d \in Seq(Int) /\ Len(d) = 2 * m + 2 /\ T!NodesTo(d)[m] = s
      /\ T!Answered(d, 2 * (m + 1)) <=> x # -1
      /\ ~ T!Answered(d, 2 * (m + 1) + 1)
  <2>1. d \in Seq(Int) /\ Len(d) = Len(e) + 1 /\ T!NodesTo(d)[m] = s
    BY <1>1, NodesAgree
  <2>2. T!Answered(d, Len(e) + 1) <=> x # -1
    BY NodesAgree
  <2>3. DOMAIN d = 1 .. 2 * m + 2 /\ Len(d) = 2 * m + 2 /\ Len(e) + 1 = 2 * (m + 1)
    BY <2>1
  <2>4. 2 * (m + 1) + 1 \notin DOMAIN d
    BY <2>3
  <2>. HIDE DEF d, s
  <2>5. ~ T!Answered(d, 2 * (m + 1) + 1)
    BY <2>4 DEF T!Answered
  <2>. QED
    BY <2>1, <2>2, <2>3, <2>5
<1>5. T!NodesTo(d)[m + 1] = s \o T!ChildrenEntered(d, p, m + 1)
  <2>1. m + 1 \in 1 .. Len(d) /\ (m + 1) - 1 = m /\ ~ m + 1 > Len(s)
    <3>. HIDE DEF d, s
    <3>1. Len(s) \in Nat
      BY <1>3
    <3>. QED
      BY <1>3, <1>4, <3>1
  <2>. HIDE DEF d
  <2>2. T!NodesTo(d)[m + 1] = IF m + 1 > Len(T!NodesTo(d)[(m + 1) - 1]) THEN T!NodesTo(d)[(m + 1) - 1]
                    ELSE T!NodesTo(d)[(m + 1) - 1] \o T!ChildrenEntered(d, T!NodesTo(d)[(m + 1) - 1][m + 1], m + 1)
    BY <1>4, <2>1, NodesToIs
  <2>. QED
    BY <1>4, <2>1, <2>2
<1>6. T!NodesOf(d) = T!NodesTo(d)[m + 1]
  <2>1. m + 1 \in 0 .. Len(d) /\ 2 * ((m + 1) + 1) > Len(d)
    BY <1>4
  <2>. HIDE DEF d
  <2>. QED
    BY <1>4, <2>1, NodesStop
<1>7. T!LeftChild(p) \in Paths
  BY <1>3, ChildPaths
<1>. HIDE DEF d, s, p
<1>8. CASE x = -1
  <2>1. T!ChildrenEntered(d, p, m + 1) = << >>
    BY <1>4, <1>8 DEF T!ChildrenEntered
  <2>. QED
    BY <1>2, <1>3, <1>5, <1>6, <1>8, <2>1 DEF d
<1>9. CASE x # -1
  <2>1. T!ChildrenEntered(d, p, m + 1) = << T!LeftChild(p) >> \o << >>
    BY <1>4, <1>9 DEF T!ChildrenEntered
  <2>2. << T!LeftChild(p) >> \o << >> = << T!LeftChild(p) >>
    BY <1>7
  <2>3. T!NodesOf(d) = s \o << T!LeftChild(p) >>
    BY <1>5, <1>6, <2>1, <2>2
  <2>4. T!NodesOf(d) = Append(s, T!LeftChild(p))
    BY <1>3, <1>7, <2>3, AppendIsConcat
  <2>. QED
    BY <1>2, <1>9, <2>4 DEF d, p
<1>. QED
  BY <1>8, <1>9

\* ... and then its right child.
LEMMA RightEntered ==
    ASSUME NEW e \in Seq(Int), NEW x \in Int, NEW m \in Nat, Len(e) = 2 * m + 2,
           m + 1 <= Len(T!NodesOf(e))
    PROVE  T!NodesOf(Append(e, x)) =
              IF x = -1 THEN T!NodesOf(e)
              ELSE Append(T!NodesOf(e), T!RightChild(T!NodesOf(e)[m + 1]))
<1>. DEFINE d == Append(e, x)
            s == T!NodesTo(e)[m]
            t == T!NodesTo(e)[m + 1]
            p == s[m + 1]
            X(c) == IF T!Answered(c, 2 * (m + 1)) THEN << T!LeftChild(p) >> ELSE << >>
            Y(c) == IF T!Answered(c, 2 * (m + 1) + 1) THEN << T!RightChild(p) >> ELSE << >>
<1>1. /\ m \in 0 .. Len(e) /\ m + 1 \in 1 .. Len(e) /\ m + 1 \in 0 .. Len(e)
      /\ 2 * ((m + 1) + 1) > Len(e) /\ 2 * m + 1 <= Len(e) /\ (m + 1) - 1 = m
  OBVIOUS
<1>2. T!NodesOf(e) = t
  BY <1>1, NodesStop
<1>3. s \in Seq(Paths) /\ t \in Seq(Paths)
  BY <1>1, NodesToIs
<1>4. t = IF m + 1 > Len(s) THEN s ELSE s \o T!ChildrenEntered(e, p, m + 1)
  <2>1. t = IF m + 1 > Len(T!NodesTo(e)[(m + 1) - 1]) THEN T!NodesTo(e)[(m + 1) - 1]
            ELSE T!NodesTo(e)[(m + 1) - 1] \o T!ChildrenEntered(e, T!NodesTo(e)[(m + 1) - 1][m + 1], m + 1)
    BY <1>1, NodesToIs
  <2>. QED
    BY <1>1, <2>1
<1>5. m + 1 <= Len(s) /\ t = s \o T!ChildrenEntered(e, p, m + 1) /\ p \in Paths
  <2>. HIDE DEF s, t, X, Y, d
  <2>1. m + 1 <= Len(t) /\ Len(s) \in Nat
    BY <1>2, <1>3
  <2>2. ~ m + 1 > Len(s)
    BY <1>4, <2>1
  <2>3. m + 1 \in 1 .. Len(s)
    BY <2>1, <2>2
  <2>. QED
    BY <1>3, <1>4, <2>2, <2>3
<1>6. /\ d \in Seq(Int) /\ Len(d) = 2 * m + 3 /\ T!NodesTo(d)[m] = s
      /\ T!Answered(d, 2 * (m + 1)) <=> T!Answered(e, 2 * (m + 1))
      /\ T!Answered(d, 2 * (m + 1) + 1) <=> x # -1
      /\ ~ T!Answered(e, 2 * (m + 1) + 1)
  <2>1. d \in Seq(Int) /\ Len(d) = Len(e) + 1 /\ T!NodesTo(d)[m] = s
    BY <1>1, NodesAgree
  <2>2. T!Answered(d, Len(e) + 1) <=> x # -1
    BY NodesAgree
  <2>3. Len(d) = 2 * m + 3 /\ Len(e) + 1 = 2 * (m + 1) + 1 /\ 2 * (m + 1) <= Len(e) /\ 2 * (m + 1) \in Nat
    BY <2>1
  <2>4. 2 * (m + 1) + 1 \notin DOMAIN e
    OBVIOUS
  <2>5. T!Answered(d, 2 * (m + 1)) <=> T!Answered(e, 2 * (m + 1))
    BY <2>3, NodesAgree
  <2>. HIDE DEF d, s
  <2>6. ~ T!Answered(e, 2 * (m + 1) + 1)
    BY <2>4 DEF T!Answered
  <2>. QED
    BY <2>1, <2>2, <2>3, <2>5, <2>6
<1>7. T!NodesTo(d)[m + 1] = s \o T!ChildrenEntered(d, p, m + 1)
  <2>1. m + 1 \in 1 .. Len(d) /\ ~ m + 1 > Len(s)
    <3>1. m + 1 \in 1 .. Len(d) /\ Len(s) \in Nat
      BY <1>3, <1>6
    <3>. HIDE DEF d, s
    <3>2. ~ m + 1 > Len(s)
      BY <1>5, <3>1
    <3>. QED
      BY <3>1, <3>2
  <2>. HIDE DEF d
  <2>2. T!NodesTo(d)[m + 1] = IF m + 1 > Len(T!NodesTo(d)[(m + 1) - 1]) THEN T!NodesTo(d)[(m + 1) - 1]
                    ELSE T!NodesTo(d)[(m + 1) - 1] \o T!ChildrenEntered(d, T!NodesTo(d)[(m + 1) - 1][m + 1], m + 1)
    BY <1>6, <2>1, NodesToIs
  <2>. QED
    BY <1>1, <1>6, <2>1, <2>2
<1>8. T!NodesOf(d) = T!NodesTo(d)[m + 1]
  <2>1. m + 1 \in 0 .. Len(d) /\ 2 * ((m + 1) + 1) > Len(d)
    BY <1>6
  <2>. HIDE DEF d
  <2>. QED
    BY <1>6, <2>1, NodesStop
<1>9. T!ChildrenEntered(d, p, m + 1) = X(d) \o Y(d) /\ T!ChildrenEntered(e, p, m + 1) = X(e) \o Y(e)
  BY DEF T!ChildrenEntered
<1>10. T!LeftChild(p) \in Paths /\ T!RightChild(p) \in Paths
  BY <1>5, ChildPaths
<1>11. X(d) = X(e) /\ Y(e) = << >> /\ X(e) \in Seq(Paths) /\ Y(d) \in Seq(Paths)
       /\ Y(d) = IF x = -1 THEN << >> ELSE << T!RightChild(p) >>
  BY <1>6, <1>10
<1>. HIDE DEF X, Y
<1>12. t = s \o X(e)
  <2>1. X(e) \o << >> = X(e)
    BY <1>11
  <2>. QED
    BY <1>5, <1>9, <1>11, <2>1
<1>13. T!NodesOf(d) = t \o Y(d)
  <2>. HIDE DEF s, t, d, p
  <2>1. T!NodesOf(d) = s \o (X(e) \o Y(d))
    BY <1>7, <1>8, <1>9, <1>11
  <2>2. s \o (X(e) \o Y(d)) = (s \o X(e)) \o Y(d)
    <3>1. s \in Seq(Paths) /\ X(e) \in Seq(Paths) /\ Y(d) \in Seq(Paths)
      BY <1>3, <1>11
    <3>. QED
      BY ONLY <3>1, ConcatAssociative
  <2>. QED
    BY <1>12, <2>1, <2>2
<1>14. p = t[m + 1]
  <2>1. m + 1 \in 1 .. Len(s) /\ X(e) \in Seq(Paths)
    BY <1>3, <1>5, <1>11
  <2>2. t[m + 1] = s[m + 1]
    BY <1>3, <1>12, <2>1
  <2>. QED
    BY <2>2
<1>. HIDE DEF d, s, t, p
<1>15. CASE x = -1
  BY <1>2, <1>3, <1>11, <1>13, <1>15 DEF d
<1>16. CASE x # -1
  <2>1. T!NodesOf(d) = t \o << T!RightChild(p) >>
    BY <1>11, <1>13, <1>16
  <2>2. T!NodesOf(d) = Append(t, T!RightChild(p))
    BY <1>3, <1>10, <2>1, AppendIsConcat
  <2>. QED
    BY <1>2, <1>14, <1>16, <2>2 DEF d
<1>. QED
  BY <1>15, <1>16

\* The values among the first answers.
LEMMA ValuesToIs ==
    ASSUME NEW e \in Seq(Int)
    PROVE  /\ T!ValuesTo(e) \in [0 .. Len(e) -> Seq(Int)]
           /\ T!ValuesTo(e)[0] = << >>
           /\ \A k \in 1 .. Len(e) :
                 T!ValuesTo(e)[k] = IF e[k] # -1 THEN Append(T!ValuesTo(e)[k - 1], e[k])
                                    ELSE T!ValuesTo(e)[k - 1]
           /\ \A k \in 0 .. Len(e) : Len(T!ValuesTo(e)[k]) <= k
<1>. DEFINE n == Len(e)
            V == Seq(Int)
            More(k, s) == IF T!IsValue(e[k]) THEN Append(s, e[k]) ELSE s
            step == [x \in (1 .. n) \X V |-> More(x[1], x[2])]
<1>1. n \in Nat /\ << >> \in V /\ \A k \in 1 .. n : e[k] \in Int
  OBVIOUS
<1>2. \A k \in 1 .. n, s \in V : More(k, s) \in V
  BY <1>1
<1>. HIDE DEF More, V
<1>3. step \in [(1 .. n) \X V -> V]
  BY <1>2
<1>. HIDE DEF n
<1>4. \A k \in 1 .. n, s \in V : step[<<k, s>>] = More(k, s)
  OBVIOUS
<1>. HIDE DEF step
<1>5. PICK f : RunOf(f, n, V, << >>, step)
  BY ONLY <1>1, <1>3, Recursion
<1>6. f \in [0 .. n -> V] /\ f[0] = << >> /\ \A k \in 1 .. n : f[k] = step[<<k, f[k - 1]>>]
  BY <1>5 DEF RunOf
<1>7. \A k \in 1 .. n : f[k] = More(k, f[k - 1])
  <2>1. \A k \in 1 .. n : f[k - 1] \in V
    BY <1>1, <1>6
  <2>. QED
    BY <1>4, <1>6, <2>1
<1>. DEFINE Is(to) == to = [k \in 0 .. n |-> IF k = 0 THEN << >> ELSE More(k, to[k - 1])]
<1>8. Is(f)
  BY <1>1, <1>6, <1>7
<1>. DEFINE r == CHOOSE to : Is(to)
<1>9. Is(r)
  BY <1>8
<1>10. r = T!ValuesTo(e)
  BY DEF T!ValuesTo, n, More
<1>. HIDE DEF r
<1>11. r[0] = << >> /\ \A k \in 1 .. n : r[k] = More(k, r[k - 1])
  BY <1>1, <1>9
<1>. DEFINE J == {k \in 0 .. n : r[k] \in V /\ Len(r[k]) <= k}
<1>12. 0 \in J
  BY <1>1, <1>11
<1>13. ASSUME NEW k \in 1 .. n, k - 1 \in J PROVE k \in J
  <2>. DEFINE s == r[k - 1]
  <2>1. s \in V /\ Len(s) <= k - 1 /\ r[k] = More(k, s) /\ e[k] \in Int
    BY <1>1, <1>11, <1>13
  <2>. HIDE DEF s
  <2>2. Len(s) \in Nat /\ Append(s, e[k]) \in V /\ Len(Append(s, e[k])) = Len(s) + 1
    BY <2>1 DEF V
  <2>3. r[k] = s \/ r[k] = Append(s, e[k])
    BY <2>1 DEF More
  <2>4. r[k] \in V /\ Len(r[k]) <= k
    <3>1. CASE r[k] = s
      BY <2>1, <2>2, <3>1
    <3>2. CASE r[k] = Append(s, e[k])
      BY <2>1, <2>2, <3>2
    <3>. QED
      BY <2>3, <3>1, <3>2
  <2>. QED
    BY <2>4
<1>. HIDE DEF J
<1>14. \A k \in 0 .. n : k \in J
  BY <1>1, <1>12, <1>13, InductTo
<1>15. \A k \in 0 .. n : r[k] \in V /\ Len(r[k]) <= k
  BY <1>14 DEF J
<1>16. r \in [0 .. n -> V]
  BY <1>9, <1>15
<1>. QED
  BY <1>10, <1>11, <1>15, <1>16 DEF n, V, More, T!IsValue

\* A value is one more, and -1 is none.
LEMMA ValueEntered ==
    ASSUME NEW e \in Seq(Int), NEW x \in Int
    PROVE  /\ T!ValuesOf(e) \in Seq(Int) /\ Len(T!ValuesOf(e)) <= Len(e)
           /\ T!ValuesOf(Append(e, x)) =
                 IF x = -1 THEN T!ValuesOf(e) ELSE Append(T!ValuesOf(e), x)
<1>. DEFINE d == Append(e, x)
            n == Len(e)
            J == {k \in 0 .. n : T!ValuesTo(d)[k] = T!ValuesTo(e)[k]}
<1>1. d \in Seq(Int) /\ Len(d) = n + 1 /\ n \in Nat /\ d[n + 1] = x /\ \A i \in 1 .. n : d[i] = e[i]
  OBVIOUS
<1>2. T!ValuesOf(e) \in Seq(Int) /\ Len(T!ValuesOf(e)) <= Len(e)
  <2>1. n \in 0 .. n
    BY <1>1
  <2>2. T!ValuesTo(e)[n] \in Seq(Int) /\ Len(T!ValuesTo(e)[n]) <= n
    BY <2>1, ValuesToIs
  <2>. QED
    BY <2>2 DEF T!ValuesOf
<1>. HIDE DEF d, n
<1>3. /\ T!ValuesTo(d)[0] = << >>
      /\ \A k \in 1 .. n + 1 :
            T!ValuesTo(d)[k] = IF d[k] # -1 THEN Append(T!ValuesTo(d)[k - 1], d[k])
                               ELSE T!ValuesTo(d)[k - 1]
  BY <1>1, ValuesToIs
<1>4. /\ T!ValuesTo(e)[0] = << >>
      /\ \A k \in 1 .. n :
            T!ValuesTo(e)[k] = IF e[k] # -1 THEN Append(T!ValuesTo(e)[k - 1], e[k])
                               ELSE T!ValuesTo(e)[k - 1]
  BY <1>1, ValuesToIs DEF n
<1>5. 0 \in J
  BY <1>1, <1>3, <1>4
<1>6. ASSUME NEW k \in 1 .. n, k - 1 \in J PROVE k \in J
  <2>1. k \in 1 .. n + 1 /\ d[k] = e[k] /\ T!ValuesTo(d)[k - 1] = T!ValuesTo(e)[k - 1]
    BY <1>1, <1>6
  <2>. QED
    BY <1>3, <1>4, <2>1
<1>. HIDE DEF J
<1>7. \A k \in 0 .. n : k \in J
  BY <1>1, <1>5, <1>6, InductTo
<1>8. n \in J /\ n + 1 \in 1 .. n + 1 /\ (n + 1) - 1 = n
  BY <1>1, <1>7
<1>9. T!ValuesTo(d)[n] = T!ValuesTo(e)[n]
  BY <1>8 DEF J
<1>10. T!ValuesTo(d)[n + 1] = IF x # -1 THEN Append(T!ValuesTo(e)[n], x) ELSE T!ValuesTo(e)[n]
  <2>1. T!ValuesTo(d)[n + 1] = IF d[n + 1] # -1 THEN Append(T!ValuesTo(d)[(n + 1) - 1], d[n + 1])
                               ELSE T!ValuesTo(d)[(n + 1) - 1]
    BY <1>3, <1>8
  <2>. QED
    BY <1>1, <1>8, <1>9, <2>1
<1>11. T!ValuesOf(d) = T!ValuesTo(d)[n + 1] /\ T!ValuesOf(e) = T!ValuesTo(e)[n]
  BY <1>1 DEF T!ValuesOf, n
<1>. QED
  BY <1>2, <1>10, <1>11 DEF d

\* The rest of a sequence, as a queue.
LEMMA RestIs ==
    ASSUME NEW P, NEW s \in Seq(P), NEW k \in 1 .. Len(s)
    PROVE  /\ SubSeq(s, k, Len(s)) # << >>
           /\ Head(SubSeq(s, k, Len(s))) = s[k]
           /\ Tail(SubSeq(s, k, Len(s))) = SubSeq(s, k + 1, Len(s))
<1>1. Len(s) \in Nat /\ Len(s) \in k .. Len(s)
  OBVIOUS
<1>2. /\ Head(SubSeq(s, k, Len(s))) = s[k]
      /\ Tail(SubSeq(s, k, Len(s))) = SubSeq(s, k + 1, Len(s))
  BY <1>1, HeadTailOfSubSeq
<1>. DEFINE r == SubSeq(s, k, Len(s))
<1>3. Len(r) = Len(s) - k + 1 /\ Len(s) - k + 1 >= 1
  BY <1>1
<1>. HIDE DEF r
<1>4. r # << >>
  BY <1>1, <1>3
<1>. QED
  BY <1>2, <1>4 DEF r

\* The rest of a sequence that becomes longer.
LEMMA RestJoined ==
    ASSUME NEW P, NEW s \in Seq(P), NEW c \in Seq(P), NEW k \in 1 .. Len(s) + 1,
           NEW t, t = s \o c
    PROVE  SubSeq(t, k, Len(t)) = SubSeq(s, k, Len(s)) \o c
<1>. DEFINE n == Len(s)
            m == Len(c)
            u == SubSeq(s, k, n)
            a == SubSeq(t, k, n + m)
            b == u \o c
<1>1. /\ n \in Nat /\ m \in Nat /\ t \in Seq(P) /\ Len(t) = n + m /\ k \in Int
      /\ \A i \in 1 .. n + m : t[i] = IF i <= n THEN s[i] ELSE c[i - n]
  <2>1. n \in Nat /\ m \in Nat /\ k \in Int
    OBVIOUS
  <2>. QED
    BY <2>1, ConcatProperties
<1>2. k <= n + 1
  OBVIOUS
<1>3. u \in Seq(P) /\ Len(u) = n - k + 1 /\ \A i \in 1 .. n - k + 1 : u[i] = s[k + i - 1]
  <2>1. (\A i \in k .. n : s[i] \in P) /\ (IF k <= n THEN n - k + 1 ELSE 0) = n - k + 1
    BY <1>1, <1>2
  <2>. HIDE DEF n
  <2>. QED
    BY <1>1, <2>1, SubSeqProperties
<1>4. a \in Seq(P) /\ Len(a) = n + m - k + 1 /\ \A i \in 1 .. n + m - k + 1 : a[i] = t[k + i - 1]
  <2>1. \A i \in k .. n + m : t[i] \in P
    BY <1>1
  <2>2. n + m \in Int /\ (IF k <= n + m THEN n + m - k + 1 ELSE 0) = n + m - k + 1
    BY <1>1, <1>2
  <2>. HIDE DEF n, m
  <2>. QED
    BY <1>1, <2>1, <2>2, SubSeqProperties
<1>. HIDE DEF u, a
<1>5. /\ b \in Seq(P) /\ Len(b) = n - k + 1 + m
      /\ \A i \in 1 .. n - k + 1 + m : b[i] = IF i <= n - k + 1 THEN u[i] ELSE c[i - (n - k + 1)]
  <2>1. /\ b \in Seq(P) /\ Len(b) = Len(u) + Len(c)
        /\ \A i \in 1 .. Len(u) + Len(c) : b[i] = IF i <= Len(u) THEN u[i] ELSE c[i - Len(u)]
    BY ONLY <1>3, c \in Seq(P), ConcatProperties
  <2>2. Len(u) = n - k + 1 /\ Len(c) = m
    BY <1>3
  <2>. HIDE DEF b, n, m
  <2>. QED
    BY ONLY <2>1, <2>2
<1>. HIDE DEF n, m, b
<1>6. ASSUME NEW i \in 1 .. Len(a) PROVE a[i] = b[i]
  <2>1. a[i] = t[k + i - 1] /\ i \in 1 .. n - k + 1 + m /\ i \in Int
    BY <1>1, <1>4
  <2>2. k + i - 1 \in 1 .. n + m
    BY <1>1, <2>1
  <2>3. CASE i <= n - k + 1
    <3>1. k + i - 1 <= n /\ i \in 1 .. n - k + 1
      BY <1>1, <2>1, <2>3
    <3>. QED
      BY <1>1, <1>3, <1>5, <2>1, <2>2, <2>3, <3>1
  <2>4. CASE ~ i <= n - k + 1
    <3>1. ~ k + i - 1 <= n /\ k + i - 1 - n = i - (n - k + 1)
      BY <1>1, <2>1, <2>4
    <3>0. PICK h \in Int : h = k + i - 1
      BY <1>1, <2>1
    <3>2. a[i] = t[h] /\ h \in 1 .. n + m /\ ~ h <= n /\ h - n = i - (n - k + 1)
      BY <1>1, <2>1, <2>2, <3>0, <3>1
    <3>4. t[h] = c[h - n]
      BY <1>1, <3>2
    <3>3. b[i] = c[i - (n - k + 1)]
      BY <1>5, <2>1, <2>4
    <3>. QED
      BY <3>2, <3>3, <3>4
  <2>. QED
    BY <2>3, <2>4
<1>7. Len(a) = Len(b)
  BY <1>1, <1>4, <1>5
<1>8. a = b
  BY <1>4, <1>5, <1>6, <1>7, SeqEqual
<1>. QED
  BY <1>1, <1>8 DEF a, b, u, n

\* ... by one element.
LEMMA RestAppended ==
    ASSUME NEW P, NEW s \in Seq(P), NEW c \in P, NEW k \in 1 .. Len(s) + 1
    PROVE  SubSeq(Append(s, c), k, Len(Append(s, c))) = Append(SubSeq(s, k, Len(s)), c)
<1>. DEFINE t == Append(s, c)
            u == SubSeq(s, k, Len(s))
<1>1. t = s \o << c >> /\ << c >> \in Seq(P)
  BY AppendIsConcat
<1>2. u \in Seq(P)
  <2>1. \A i \in k .. Len(s) : s[i] \in P
    OBVIOUS
  <2>2. k \in Int /\ Len(s) \in Int
    OBVIOUS
  <2>. QED
    BY ONLY <2>1, <2>2, SubSeqProperties
<1>. HIDE DEF t
<1>3. SubSeq(t, k, Len(t)) = u \o << c >>
  BY <1>1, RestJoined
<1>. HIDE DEF u
<1>4. Append(u, c) = u \o << c >>
  BY <1>2, AppendIsConcat
<1>. QED
  BY <1>3, <1>4 DEF t, u

-----------------------------------------------------------------------------
(* create_tree: the nodes are those that the answers name, and the queue   *)
(* has those of them whose pair of answers is still to come.               *)

Filled(nodes, values, d) ==
  /\ d \in [{nodes[i] : i \in 1 .. Len(nodes)} -> Int]
  /\ Len(values) = Len(nodes)
  /\ \A i \in 1 .. Len(nodes) : d[nodes[i]] = values[i]

Waiting(nodes, m) ==
  \/ /\ curr = << >> /\ Len(entered) = 2 * m + 1 /\ m <= Len(nodes)
     /\ q = SubSeq(nodes, m + 1, Len(nodes))
  \/ /\ curr = << nodes[m + 1] >> /\ Len(entered) = 2 * m + 2 /\ m + 1 <= Len(nodes)
     /\ q = SubSeq(nodes, m + 2, Len(nodes))

EnteredInv ==
  /\ entered \in Seq(Int)
  /\ entered = << >> => T!TreeInit
  /\ entered # << >> =>
        /\ \E m \in Nat : Waiting(T!NodesOf(entered), m)
        /\ Filled(T!NodesOf(entered), T!ValuesOf(entered), data)

\* The nodes that the answers name are well made.
LEMMA NodesAre ==
    ASSUME NEW e \in Seq(Int)
    PROVE  /\ Made(e, T!NodesOf(e), Len(e))
           /\ T!NodesOf(e) \in Seq(Paths) /\ Len(T!NodesOf(e)) \in Nat
           /\ \A i, j \in 1 .. Len(T!NodesOf(e)) : T!NodesOf(e)[i] = T!NodesOf(e)[j] => i = j
<1>1. Len(e) \in 0 .. Len(e)
  OBVIOUS
<1>2. Made(e, T!NodesOf(e), Len(e))
  BY <1>1, NodesMade DEF T!NodesOf
<1>3. T!NodesOf(e) \in Seq(Paths)
  BY <1>2 DEF Made
<1>4. \A i, j \in 1 .. Len(T!NodesOf(e)) : T!NodesOf(e)[i] = T!NodesOf(e)[j] => i = j
  BY <1>2 DEF Made
<1>. QED
  BY <1>2, <1>3, <1>4

\* A node that is new, with its value.
LEMMA FilledMore ==
    ASSUME NEW nodes \in Seq(Paths), NEW values \in Seq(Int), NEW d, Filled(nodes, values, d),
           NEW c \in Paths, NEW x \in Int,
           \A i, j \in 1 .. Len(Append(nodes, c)) :
              Append(nodes, c)[i] = Append(nodes, c)[j] => i = j,
           NEW f, f = [r \in DOMAIN d \cup {c} |-> IF r = c THEN x ELSE d[r]]
    PROVE  Filled(Append(nodes, c), Append(values, x), f)
<1>. DEFINE n == Len(nodes)
            t == Append(nodes, c)
            v == Append(values, x)
<1>1. /\ n \in Nat /\ Len(t) = n + 1 /\ t[n + 1] = c /\ \A i \in 1 .. n : t[i] = nodes[i]
      /\ Len(values) = n
      /\ Len(v) = n + 1 /\ v[n + 1] = x /\ \A i \in 1 .. n : v[i] = values[i]
  <2>1. n \in Nat /\ Len(t) = n + 1 /\ t[n + 1] = c /\ \A i \in 1 .. n : t[i] = nodes[i]
    OBVIOUS
  <2>2. Len(values) = n
    BY DEF Filled
  <2>3. Len(v) = n + 1 /\ v[n + 1] = x /\ \A i \in 1 .. n : v[i] = values[i]
    BY <2>2
  <2>. QED
    BY <2>1, <2>2, <2>3
<1>2. /\ d \in [{nodes[i] : i \in 1 .. n} -> Int]
      /\ \A i \in 1 .. n : d[nodes[i]] = values[i]
  BY DEF Filled
<1>3. \A i \in 1 .. n : nodes[i] # c
  <2>. SUFFICES ASSUME NEW i \in 1 .. n, nodes[i] = c PROVE FALSE
    OBVIOUS
  <2>1. t[i] = t[n + 1] /\ i \in 1 .. Len(t) /\ n + 1 \in 1 .. Len(t)
    BY <1>1
  <2>2. i = n + 1
    BY <2>1
  <2>. QED
    BY <1>1, <2>2
<1>. HIDE DEF n, t, v
<1>4. {t[i] : i \in 1 .. n + 1} = {nodes[i] : i \in 1 .. n} \cup {c}
  <2>1. \A i \in 1 .. n + 1 : i \in 1 .. n \/ i = n + 1
    BY <1>1
  <2>2. \A i \in 1 .. n : i \in 1 .. n + 1
    BY <1>1
  <2>3. n + 1 \in 1 .. n + 1
    BY <1>1
  <2>. QED
    BY <1>1, <2>1, <2>2, <2>3
<1>5. DOMAIN d = {nodes[i] : i \in 1 .. n} /\ \A r \in DOMAIN d : d[r] \in Int
  BY <1>2
<1>6. f \in [{t[i] : i \in 1 .. n + 1} -> Int]
  BY <1>4, <1>5
<1>7. \A i \in 1 .. n + 1 : f[t[i]] = v[i]
  <2>. SUFFICES ASSUME NEW i \in 1 .. n + 1 PROVE f[t[i]] = v[i]
    OBVIOUS
  <2>1. CASE i \in 1 .. n
    <3>1. t[i] = nodes[i] /\ nodes[i] \in DOMAIN d /\ nodes[i] # c /\ v[i] = values[i]
      BY <1>1, <1>3, <1>5, <2>1
    <3>2. f[nodes[i]] = d[nodes[i]]
      BY <3>1
    <3>. QED
      BY <1>2, <2>1, <3>1, <3>2
  <2>2. CASE i = n + 1
    BY <1>1, <2>2
  <2>. QED
    BY <1>1, <2>1, <2>2
<1>8. Filled(t, v, f)
  BY <1>1, <1>6, <1>7 DEF Filled
<1>. QED
  BY <1>8 DEF t, v

\* An answer to one of the questions: a value makes a node, -1 does not.
LEMMA AnswerFills ==
    ASSUME NEW e \in Seq(Int), NEW x \in Int, NEW d, Filled(T!NodesOf(e), T!ValuesOf(e), d),
           NEW c \in Paths,
           T!NodesOf(Append(e, x)) = IF x = -1 THEN T!NodesOf(e) ELSE Append(T!NodesOf(e), c),
           NEW f,
           f = IF x = -1 THEN d ELSE [r \in DOMAIN d \cup {c} |-> IF r = c THEN x ELSE d[r]]
    PROVE  Filled(T!NodesOf(Append(e, x)), T!ValuesOf(Append(e, x)), f)
<1>1. T!ValuesOf(e) \in Seq(Int)
      /\ T!ValuesOf(Append(e, x)) = IF x = -1 THEN T!ValuesOf(e) ELSE Append(T!ValuesOf(e), x)
  BY ValueEntered
<1>2. CASE x = -1
  BY <1>1, <1>2
<1>3. CASE x # -1
  <2>. DEFINE nodes == T!NodesOf(e)
  <2>1. nodes \in Seq(Paths)
    BY NodesAre
  <2>2. Append(e, x) \in Seq(Int) /\ T!NodesOf(Append(e, x)) = Append(nodes, c)
    BY <1>3
  <2>3. \A i, j \in 1 .. Len(Append(nodes, c)) :
              Append(nodes, c)[i] = Append(nodes, c)[j] => i = j
    <3>. DEFINE g == Append(e, x)
    <3>1. g \in Seq(Int)
      BY <2>2
    <3>. HIDE DEF g, nodes
    <3>2. \A i, j \in 1 .. Len(T!NodesOf(g)) : T!NodesOf(g)[i] = T!NodesOf(g)[j] => i = j
      BY <3>1, NodesAre
    <3>. QED
      BY <2>2, <3>2 DEF g
  <2>. HIDE DEF nodes
  <2>4. f = [r \in DOMAIN d \cup {c} |-> IF r = c THEN x ELSE d[r]]
    BY <1>3
  <2>5. Filled(nodes, T!ValuesOf(e), d)
    BY DEF nodes
  <2>6. Filled(Append(nodes, c), Append(T!ValuesOf(e), x), f)
    BY ONLY <1>1, <2>1, <2>3, <2>4, <2>5, c \in Paths, x \in Int, FilledMore
  <2>. QED
    BY <1>1, <1>3, <2>2, <2>6
<1>. QED
  BY <1>2, <1>3

\* The root is the first node ...
LEMMA EnteredFirst ==
    ASSUME NEW x \in Int, x # -1, entered = << >>, EnteredInv, T!EnterRoot(x)
    PROVE  EnteredInv'
<1>. DEFINE e == << x >>
            r == << << >> >>
<1>1. /\ entered' = Append(<< >>, x) /\ data' = T!With(<< >>, x) /\ q' = r /\ curr' = << >>
      /\ data = << >>
  BY DEF T!EnterRoot, T!Read, EnteredInv, T!TreeInit
<1>2. e \in Seq(Int) /\ Len(e) = 1 /\ Append(<< >>, x) = e /\ e # << >> /\ << >> \in Seq(Int) /\ Len(<< >>) = 0
  OBVIOUS
<1>3. r \in Seq(Paths) /\ Len(r) = 1 /\ r[1] = << >> /\ SubSeq(r, 1, 1) = r
  <2>1. << >> \in Paths
    BY DEF Paths
  <2>2. r \in Seq(Paths) /\ Len(r) = 1 /\ r[1] = << >>
    BY <2>1
  <2>. HIDE DEF r
  <2>3. SubSeq(r, 1, Len(r)) = r
    BY ONLY <2>2
  <2>. QED
    BY <2>2, <2>3
<1>4. T!NodesOf(e) = r
  <2>1. 0 \in 0 .. Len(e) /\ 2 * (0 + 1) > Len(e)
    BY <1>2
  <2>2. T!NodesTo(e)[0] = r
    BY <1>2, NodesToIs
  <2>. HIDE DEF e, r
  <2>. QED
    BY <1>2, <2>1, <2>2, NodesStop
<1>5. T!ValuesOf(e) = << x >>
  <2>1. T!ValuesOf(<< >>) = << >>
    BY <1>2, ValuesToIs DEF T!ValuesOf
  <2>2. T!ValuesOf(Append(<< >>, x)) = Append(T!ValuesOf(<< >>), x)
    BY <1>2, ValueEntered
  <2>. QED
    BY <1>2, <2>1, <2>2
<1>6. Filled(r, << x >>, data')
  <2>1. data' = [p \in {<< >>} |-> x]
    BY <1>1 DEF T!With
  <2>2. {r[i] : i \in 1 .. Len(r)} = {<< >>}
    BY <1>3
  <2>3. << x >> [1] = x /\ Len(<< x >>) = 1
    OBVIOUS
  <2>. HIDE DEF r
  <2>4. data' \in [{r[i] : i \in 1 .. Len(r)} -> Int]
    BY <2>1, <2>2
  <2>5. \A i \in 1 .. Len(r) : data'[r[i]] = << x >> [i]
    BY <1>3, <2>1, <2>3
  <2>. QED
    BY <1>3, <2>3, <2>4, <2>5 DEF Filled
<1>. HIDE DEF e, r
<1>7. Waiting(r, 0)'
  BY <1>1, <1>2, <1>3 DEF Waiting
<1>8. entered' = e /\ entered' # << >>
  BY <1>1, <1>2
<1>9. Waiting(T!NodesOf(entered), 0)' /\ Filled(T!NodesOf(entered), T!ValuesOf(entered), data)'
  BY <1>4, <1>5, <1>6, <1>7, <1>8 DEF e, r
<1>. QED
  BY <1>2, <1>8, <1>9 DEF EnteredInv

\* ... a left child comes from the node whose pair of answers is next ...
LEMMA EnteredLeft ==
    ASSUME NEW x \in Int, EnteredInv, T!EnterLeft(x)
    PROVE  EnteredInv'
<1>. DEFINE nodes == T!NodesOf(entered)
            g == Append(entered, x)
<1>1. /\ entered' = g /\ q # << >> /\ curr = << >> /\ curr' = << Head(q) >>
      /\ T!Link(T!LeftChild(Head(q)), x, Tail(q))
  BY DEF T!EnterLeft, T!Read
<1>2. entered \in Seq(Int) /\ entered # << >> /\ Filled(nodes, T!ValuesOf(entered), data)
      /\ \E m \in Nat : Waiting(nodes, m)
  BY <1>1 DEF EnteredInv, T!TreeInit
<1>3. g \in Seq(Int) /\ g # << >> /\ Len(g) = Len(entered) + 1 /\ Len(entered) \in Nat
  BY <1>2
<1>4. PICK m \in Nat : Waiting(nodes, m)
  BY <1>2
<1>5. Len(entered) = 2 * m + 1 /\ m <= Len(nodes) /\ q = SubSeq(nodes, m + 1, Len(nodes))
  BY <1>1, <1>4 DEF Waiting
<1>6. nodes \in Seq(Paths) /\ Len(nodes) \in Nat
  BY <1>2, NodesAre
<1>. HIDE DEF nodes, g
<1>7. m + 1 \in 1 .. Len(nodes) /\ nodes[m + 1] \in Paths
  <2>1. m # Len(nodes)
    <3>. SUFFICES ASSUME m = Len(nodes) PROVE FALSE
      OBVIOUS
    <3>1. SubSeq(nodes, m + 1, Len(nodes)) = << >>
      BY <1>6
    <3>. QED
      BY <1>1, <1>5, <3>1
  <2>. QED
    BY <1>5, <1>6, <2>1
<1>. DEFINE p == nodes[m + 1]
            c == T!LeftChild(p)
<1>8. Head(q) = p /\ Tail(q) = SubSeq(nodes, (m + 1) + 1, Len(nodes))
  BY <1>5, <1>6, <1>7, RestIs
<1>9. c \in Paths /\ p \in Paths
  BY <1>7, ChildPaths
<1>10. T!NodesOf(g) = IF x = -1 THEN nodes ELSE Append(nodes, c)
  BY <1>2, <1>5, <1>7, LeftEntered DEF g, nodes
<1>. HIDE DEF p, c
<1>11. T!Link(c, x, SubSeq(nodes, (m + 1) + 1, Len(nodes)))
  BY <1>1, <1>8 DEF c
<1>12. data' = IF x = -1 THEN data ELSE [r \in DOMAIN data \cup {c} |-> IF r = c THEN x ELSE data[r]]
  BY <1>11 DEF T!Link, T!With
<1>13. Filled(T!NodesOf(g), T!ValuesOf(g), data')
  BY ONLY <1>2, <1>9, <1>10, <1>12, x \in Int, AnswerFills DEF g, nodes
<1>14. Waiting(T!NodesOf(entered), m)'
  <2>1. CASE x = -1
    <3>1. q' = SubSeq(nodes, m + 2, Len(nodes)) /\ T!NodesOf(g) = nodes
      BY <1>6, <1>10, <1>11, <2>1 DEF T!Link
    <3>2. curr' = << nodes[m + 1] >> /\ Len(entered') = 2 * m + 2 /\ m + 1 <= Len(nodes)
      BY <1>1, <1>3, <1>5, <1>7, <1>8 DEF p
    <3>. QED
      BY <1>1, <3>1, <3>2 DEF Waiting
  <2>2. CASE x # -1
    <3>. DEFINE t == Append(nodes, c)
    <3>1. T!NodesOf(g) = t /\ q' = Append(SubSeq(nodes, (m + 1) + 1, Len(nodes)), c)
      BY <1>10, <1>11, <2>2 DEF T!Link
    <3>2. (m + 1) + 1 \in 1 .. Len(nodes) + 1 /\ (m + 1) + 1 = m + 2
      BY <1>6, <1>7
    <3>3. SubSeq(t, (m + 1) + 1, Len(t)) = Append(SubSeq(nodes, (m + 1) + 1, Len(nodes)), c)
      BY <1>6, <1>9, <3>2, RestAppended
    <3>4. t[m + 1] = p /\ Len(t) = Len(nodes) + 1
      BY <1>6, <1>7, <1>9 DEF p
    <3>. HIDE DEF t
    <3>5. q' = SubSeq(t, m + 2, Len(t))
      BY <3>1, <3>2, <3>3
    <3>7. m + 1 <= Len(t)
      BY <1>6, <1>7, <3>4
    <3>6. curr' = << t[m + 1] >> /\ Len(entered') = 2 * m + 2
      BY <1>1, <1>3, <1>5, <1>8, <3>4
    <3>. QED
      BY <1>1, <3>1, <3>5, <3>6, <3>7 DEF Waiting
  <2>. QED
    BY <2>1, <2>2
<1>. QED
  BY <1>1, <1>3, <1>13, <1>14 DEF EnteredInv

\* ... and a right child completes that pair.
LEMMA EnteredRight ==
    ASSUME NEW x \in Int, EnteredInv, T!EnterRight(x)
    PROVE  EnteredInv'
<1>. DEFINE nodes == T!NodesOf(entered)
            g == Append(entered, x)
<1>1. /\ entered' = g /\ curr # << >> /\ curr' = << >>
      /\ T!Link(T!RightChild(curr[1]), x, q)
  BY DEF T!EnterRight, T!Read
<1>2. entered \in Seq(Int) /\ entered # << >> /\ Filled(nodes, T!ValuesOf(entered), data)
      /\ \E m \in Nat : Waiting(nodes, m)
  BY <1>1 DEF EnteredInv, T!TreeInit
<1>3. g \in Seq(Int) /\ g # << >> /\ Len(g) = Len(entered) + 1 /\ Len(entered) \in Nat
  BY <1>2
<1>4. PICK m \in Nat : Waiting(nodes, m)
  BY <1>2
<1>5. /\ Len(entered) = 2 * m + 2 /\ m + 1 <= Len(nodes) /\ q = SubSeq(nodes, m + 2, Len(nodes))
      /\ curr = << nodes[m + 1] >>
  BY <1>1, <1>4 DEF Waiting
<1>6. nodes \in Seq(Paths) /\ Len(nodes) \in Nat
  BY <1>2, NodesAre
<1>. HIDE DEF nodes, g
<1>7. m + 1 \in 1 .. Len(nodes) /\ nodes[m + 1] \in Paths
  BY <1>5, <1>6
<1>. DEFINE p == nodes[m + 1]
            c == T!RightChild(p)
<1>8. curr[1] = p
  BY <1>5
<1>9. c \in Paths /\ p \in Paths
  BY <1>7, ChildPaths
<1>10. T!NodesOf(g) = IF x = -1 THEN nodes ELSE Append(nodes, c)
  BY <1>2, <1>5, <1>7, RightEntered DEF g, nodes
<1>. HIDE DEF p, c
<1>11. T!Link(c, x, SubSeq(nodes, m + 2, Len(nodes)))
  BY <1>1, <1>5, <1>8 DEF c
<1>12. data' = IF x = -1 THEN data ELSE [r \in DOMAIN data \cup {c} |-> IF r = c THEN x ELSE data[r]]
  BY <1>11 DEF T!Link, T!With
<1>13. Filled(T!NodesOf(g), T!ValuesOf(g), data')
  BY ONLY <1>2, <1>9, <1>10, <1>12, x \in Int, AnswerFills DEF g, nodes
<1>140. Len(entered') = 2 * (m + 1) + 1 /\ (m + 1) + 1 = m + 2 /\ curr' = << >>
  BY <1>1, <1>3, <1>5
<1>14. Waiting(T!NodesOf(entered), m + 1)'
  <2>1. CASE x = -1
    <3>1. q' = SubSeq(nodes, m + 2, Len(nodes)) /\ T!NodesOf(g) = nodes
      BY <1>10, <1>11, <2>1 DEF T!Link
    <3>. QED
      BY <1>1, <1>5, <1>140, <3>1 DEF Waiting
  <2>2. CASE x # -1
    <3>. DEFINE t == Append(nodes, c)
    <3>1. T!NodesOf(g) = t /\ q' = Append(SubSeq(nodes, m + 2, Len(nodes)), c)
      BY <1>10, <1>11, <2>2 DEF T!Link
    <3>2. m + 2 \in 1 .. Len(nodes) + 1
      BY <1>6, <1>7
    <3>3. SubSeq(t, m + 2, Len(t)) = Append(SubSeq(nodes, m + 2, Len(nodes)), c)
      BY <1>6, <1>9, <3>2, RestAppended
    <3>4. Len(t) = Len(nodes) + 1
      BY <1>6, <1>9
    <3>. HIDE DEF t
    <3>5. q' = SubSeq(t, m + 2, Len(t))
      BY <3>1, <3>3
    <3>7. m + 1 <= Len(t)
      BY <1>6, <1>7, <3>4
    <3>. QED
      BY <1>1, <1>140, <3>1, <3>5, <3>7 DEF Waiting
  <2>. QED
    BY <2>1, <2>2
<1>15. m + 1 \in Nat
  OBVIOUS
<1>. QED
  BY <1>1, <1>3, <1>13, <1>14, <1>15 DEF EnteredInv

\* The nodes and the queue are what the answers say, at every point of create_tree.
LEMMA EnteredInvHolds == TreesSpec => []EnteredInv
<1>1. TreesInit => EnteredInv
  BY DEF TreesInit, EnteredInv, T!TreeInit
<1>2. EnteredInv /\ [TreesNext]_treesVars => EnteredInv'
  <2>. SUFFICES ASSUME EnteredInv, [TreesNext]_treesVars PROVE EnteredInv'
    OBVIOUS
  <2>1. CASE UNCHANGED buildVars
    BY <2>1 DEF buildVars, EnteredInv, Waiting, T!TreeInit
  <2>2. CASE \E x \in Inputs : T!EnterRoot(x)
    <3>1. PICK x \in Inputs : T!EnterRoot(x)
      BY <2>2
    <3>2. x \in Int /\ x # -1 /\ entered = << >>
      BY <3>1, KeysAssumption DEF T!EnterRoot
    <3>. QED
      BY <3>1, <3>2, EnteredFirst
  <2>3. CASE \E x \in Inputs \cup {-1} : T!EnterLeft(x) \/ T!EnterRight(x)
    BY <2>3, KeysAssumption, EnteredLeft, EnteredRight
  <2>4. CASE T!Walked
    BY <2>1, <2>4 DEF T!Walked, T!treeVars, buildVars
  <2>5. IsSearchTree /\ (\E k \in Keys : InsertKey(k) \/ DeleteKey(k)) => UNCHANGED buildVars
    BY DEF InsertKey, DeleteKey
  <2>6. UNCHANGED treesVars => UNCHANGED buildVars
    BY DEF treesVars
  <2>. QED
    BY <2>1, <2>2, <2>3, <2>4, <2>5, <2>6 DEF TreesNext, T!TreeNext
<1>. QED
  BY <1>1, <1>2, PTL DEF TreesSpec

-----------------------------------------------------------------------------
(* level_order prints the nodes in the order of the answers.               *)

Once(s) == \A i, j \in 1 .. Len(s) : s[i] = s[j] => i = j

\* A sequence without repetitions is as long as the set of its elements.
LEMMA OnceCounted ==
    ASSUME NEW P, NEW s \in Seq(P), Once(s), NEW Met, Met = {s[i] : i \in 1 .. Len(s)}
    PROVE  IsFiniteSet(Met) /\ Cardinality(Met) = Len(s)
<1>. DEFINE n == Len(s)
            f == [i \in 1 .. n |-> s[i]]
<1>1. n \in Nat /\ IsFiniteSet(1 .. n) /\ Cardinality(1 .. n) = n
  <2>1. n \in Nat
    OBVIOUS
  <2>. HIDE DEF n
  <2>2. 1 \in Int /\ n \in Int /\ (IF 1 > n THEN 0 ELSE n - 1 + 1) = n
    BY <2>1
  <2>. QED
    BY ONLY <2>1, <2>2, FS_Interval
<1>2. f \in Bijection(1 .. n, Met)
  <2>1. f \in [1 .. n -> Met] /\ \A t \in Met : \E i \in 1 .. n : f[i] = t
    OBVIOUS
  <2>2. \A i, j \in 1 .. n : f[i] = f[j] => i = j
    BY DEF Once
  <2>. HIDE DEF f, n
  <2>. QED
    BY <2>1, <2>2 DEF Bijection, Injection, Surjection, IsInjective
<1>. HIDE DEF f
<1>3. ExistsBijection(1 .. n, Met)
  BY <1>2 DEF ExistsBijection
<1>. QED
  BY ONLY <1>1, <1>3, FS_Bijection

Begins(s, t) == Len(s) <= Len(t) /\ \A i \in 1 .. Len(s) : t[i] = s[i]

\* The nodes of the first pairs are the first of the nodes.
LEMMA NodesBegin ==
    ASSUME NEW e \in Seq(Int), NEW k \in 0 .. Len(e)
    PROVE  Begins(T!NodesTo(e)[k], T!NodesOf(e))
<1>. DEFINE n == Len(e)
            E(j) == T!NodesTo(e)[j]
            J == {j \in 0 .. n : k <= j => Begins(E(k), E(j))}
<1>0. n \in Nat /\ \A j \in 0 .. n : E(j) \in Seq(Paths) /\ Len(E(j)) \in Nat
  <2>0. n \in Nat
    OBVIOUS
  <2>1. \A j \in 0 .. n : E(j) \in Seq(Paths)
    BY ONLY e \in Seq(Int), NodesToIs
  <2>. HIDE DEF E
  <2>. QED
    BY <2>0, <2>1
<1>. HIDE DEF E
<1>1. Begins(E(k), E(k))
  BY <1>0 DEF Begins
<1>2. 0 \in J
  BY <1>0, <1>1
<1>3. ASSUME NEW j \in 1 .. n, j - 1 \in J PROVE j \in J
  <2>. SUFFICES ASSUME k < j PROVE Begins(E(k), E(j))
    BY <1>0, <1>1
  <2>. DEFINE s == E(j - 1)
              t == E(j)
  <2>1. Begins(E(k), s) /\ j - 1 \in 0 .. n /\ j - 1 \in Nat /\ (j - 1) + 1 = j
    BY <1>0, <1>3
  <2>2. t = IF j > Len(s) THEN s ELSE s \o T!ChildrenEntered(e, s[j], j)
    BY NodesToIs DEF E
  <2>3. Made(e, s, j - 1)
    BY <2>1, NodesMade DEF E
  <2>4. Len(s) \in Nat /\ Len(t) \in Nat
    BY <1>0, <2>1
  <2>. HIDE DEF s, t
  <2>5. Len(s) <= Len(t) /\ \A i \in 1 .. Len(s) : t[i] = s[i]
    <3>1. CASE j > Len(s)
      BY <2>2, <2>4, <3>1
    <3>2. CASE ~ j > Len(s)
      <4>1. t = s \o T!ChildrenEntered(e, s[(j - 1) + 1], (j - 1) + 1) /\ (j - 1) + 1 <= Len(s)
        BY <2>1, <2>2, <2>4, <3>2
      <4>. QED
        BY ONLY e \in Seq(Int), <2>1, <2>3, <4>1, MadeStep
    <3>. QED
      BY <3>1, <3>2
  <2>6. Len(E(k)) \in Nat
    BY <1>0
  <2>7. Begins(E(k), t)
    BY <2>1, <2>4, <2>5, <2>6 DEF Begins
  <2>. QED
    BY <2>7 DEF t
<1>. HIDE DEF J
<1>4. \A j \in 0 .. n : j \in J
  BY <1>0, <1>2, <1>3, InductTo
<1>5. n \in J /\ k <= n
  BY <1>0, <1>4
<1>. QED
  BY <1>5 DEF J, E, T!NodesOf

\* A node's child is a node exactly if its answer is a value.
LEMMA ChildrenAre ==
    ASSUME NEW e \in Seq(Int), DOMAIN data = {T!NodesOf(e)[i] : i \in 1 .. Len(T!NodesOf(e))},
           NEW k \in 1 .. Len(T!NodesOf(e))
    PROVE  T!Children(T!NodesOf(e)[k]) = T!ChildrenEntered(e, T!NodesOf(e)[k], k)
<1>. DEFINE s == T!NodesOf(e)
            D == DOMAIN data
<1>1. Made(e, s, Len(e)) /\ s \in Seq(Paths) /\ Len(s) \in Nat /\ \A i, j \in 1 .. Len(s) : s[i] = s[j] => i = j
  BY NodesAre
<1>2. D = {s[i] : i \in 1 .. Len(s)} /\ k \in 1 .. Len(s)
  OBVIOUS
<1>. HIDE DEF s, D
<1>3. s[k] \in Paths /\ \A i \in 1 .. Len(s) : s[i] \in Paths
  BY <1>1, <1>2
<1>4. \A i \in 2 .. Len(s) : \E j \in 1 .. Len(s) : ChildEntered(e, s, i, j)
  <2>1. \A i \in 2 .. Len(s) : \E j \in 1 .. i - 1 : ChildEntered(e, s, i, j)
    BY <1>1 DEF Made
  <2>2. \A i \in 2 .. Len(s) : \A j \in 1 .. i - 1 : j \in 1 .. Len(s)
    BY <1>1
  <2>. QED
    BY <2>1, <2>2
<1>5. ASSUME NEW c \in D, NEW l \in BOOLEAN, c = IF l THEN T!LeftChild(s[k]) ELSE T!RightChild(s[k])
      PROVE  T!Answered(e, IF l THEN 2 * k ELSE 2 * k + 1)
  <2>1. PICK i \in 1 .. Len(s) : c = s[i]
    BY <1>2
  <2>2. s[1] = << >>
    BY <1>1 DEF Made
  <2>3. i # 1
    BY <1>3, <1>5, <2>1, <2>2, ChildPaths
  <2>4. PICK j \in 1 .. Len(s) : ChildEntered(e, s, i, j)
    BY <1>1, <1>4, <2>3
  <2>5. s[j] \in Paths /\ (s[j] = s[k] => j = k)
    BY <1>1, <1>2, <1>3
  <2>6. CASE l
    BY <1>3, <1>5, <2>1, <2>4, <2>5, <2>6, ChildPaths DEF ChildEntered
  <2>7. CASE ~ l
    BY <1>3, <1>5, <2>1, <2>4, <2>5, <2>7, ChildPaths DEF ChildEntered
  <2>. QED
    BY <2>6, <2>7
<1>6. T!LeftChild(s[k]) \in D => T!Answered(e, 2 * k)
  <2>. SUFFICES ASSUME T!LeftChild(s[k]) \in D PROVE T!Answered(e, IF TRUE THEN 2 * k ELSE 2 * k + 1)
    OBVIOUS
  <2>. QED
    BY <1>5
<1>7. T!RightChild(s[k]) \in D => T!Answered(e, 2 * k + 1)
  <2>. SUFFICES ASSUME T!RightChild(s[k]) \in D PROVE T!Answered(e, IF FALSE THEN 2 * k ELSE 2 * k + 1)
    OBVIOUS
  <2>. QED
    BY <1>5
<1>8. /\ T!Answered(e, 2 * k) => T!LeftChild(s[k]) \in D
      /\ T!Answered(e, 2 * k + 1) => T!RightChild(s[k]) \in D
  <2>1. T!Answered(e, 2 * k) \/ T!Answered(e, 2 * k + 1) => k <= Len(e)
    <3>1. Len(e) \in Nat /\ DOMAIN e = 1 .. Len(e)
      OBVIOUS
    <3>2. T!Answered(e, 2 * k) \/ T!Answered(e, 2 * k + 1) => 2 * k \in DOMAIN e \/ 2 * k + 1 \in DOMAIN e
      BY DEF T!Answered
    <3>. QED
      BY <1>1, <1>2, <3>1, <3>2
  <2>2. k <= Len(e) =>
          /\ T!Answered(e, 2 * k) => \E i \in 1 .. Len(s) : s[i] = T!LeftChild(s[k])
          /\ T!Answered(e, 2 * k + 1) => \E i \in 1 .. Len(s) : s[i] = T!RightChild(s[k])
    BY <1>1, <1>2 DEF Made
  <2>. QED
    BY <1>2, <2>1, <2>2
<1>9. T!Children(s[k]) = T!ChildrenEntered(e, s[k], k)
  BY <1>6, <1>7, <1>8 DEF T!Children, T!ChildrenEntered, T!IsNode, D
<1>. QED
  BY <1>9 DEF s

\* The instance counts as the module does.
LEMMA SameCardinality == \A Met : T!Cardinality(Met) = Cardinality(Met)
  BY DEF T!Cardinality, Cardinality

(* What the loop of level_order has after k rounds.                        *)
Round(e, k) ==
  [queue   |-> SubSeq(T!NodesTo(e)[k], k + 1, Len(T!NodesTo(e)[k])),
   printed |-> T!NodesTo(e)[k]]

NextRound(loop) ==
  IF loop.queue = << >> THEN loop
  ELSE [queue   |-> Tail(loop.queue) \o T!Children(Head(loop.queue)),
        printed |-> loop.printed \o T!Children(Head(loop.queue))]

\* A round prints the children of one node and queues them.
LEMMA NextRoundIs ==
    ASSUME NEW e \in Seq(Int), DOMAIN data = {T!NodesOf(e)[i] : i \in 1 .. Len(T!NodesOf(e))},
           NEW k \in 1 .. Len(e), k <= Len(T!NodesOf(e))
    PROVE  Round(e, k) = NextRound(Round(e, k - 1))
<1>. DEFINE nodes == T!NodesOf(e)
            s == T!NodesTo(e)[k - 1]
            t == T!NodesTo(e)[k]
            C == T!ChildrenEntered(e, s[k], k)
<1>1. nodes \in Seq(Paths) /\ Len(nodes) \in Nat
  BY NodesAre
<1>2. k - 1 \in 0 .. Len(e) /\ k \in Nat /\ k >= 1 /\ (k - 1) + 1 = k
  OBVIOUS
<1>3. s \in Seq(Paths) /\ Begins(s, nodes)
  BY <1>2, NodesToIs, NodesBegin
<1>4. t = IF k > Len(s) THEN s ELSE s \o C
  BY NodesToIs
<1>5. k <= Len(s)
  <2>. SUFFICES ASSUME ~ k <= Len(s) PROVE FALSE
    OBVIOUS
  <2>1. Len(s) <= k - 1
    BY <1>2, <1>3
  <2>2. nodes = s
    BY <1>2, <2>1, NodesStop
  <2>. QED
    BY <2>2
<1>6. k \in 1 .. Len(s) /\ k \in 1 .. Len(nodes) /\ s[k] = nodes[k] /\ s[k] \in Paths
  <2>1. k \in 1 .. Len(s) /\ k \in 1 .. Len(nodes)
    BY <1>1, <1>2, <1>3, <1>5
  <2>. HIDE DEF s, nodes
  <2>. QED
    BY <1>3, <2>1 DEF Begins
<1>7. C \in Seq(Paths) /\ T!Children(s[k]) = C
  <2>1. T!Children(nodes[k]) = T!ChildrenEntered(e, nodes[k], k)
    BY <1>6, ChildrenAre
  <2>. HIDE DEF s, nodes
  <2>. QED
    BY <1>2, <1>6, <2>1, ChildrenEnteredAre
<1>8. Round(e, k - 1) = [queue |-> SubSeq(s, k, Len(s)), printed |-> s]
  BY <1>2 DEF Round
<1>9. Round(e, k) = [queue |-> SubSeq(t, k + 1, Len(t)), printed |-> t]
  BY DEF Round
<1>10. t = s \o C
  <2>1. Len(s) \in Nat
    BY <1>3
  <2>2. ~ k > Len(s)
    BY <1>2, <1>5, <2>1
  <2>. QED
    BY <1>4, <2>2
<1>. HIDE DEF s, t, C, nodes
<1>11. /\ SubSeq(s, k, Len(s)) # << >>
       /\ Head(SubSeq(s, k, Len(s))) = s[k]
       /\ Tail(SubSeq(s, k, Len(s))) = SubSeq(s, k + 1, Len(s))
  BY ONLY <1>3, <1>6, RestIs
<1>12. SubSeq(t, k + 1, Len(t)) = SubSeq(s, k + 1, Len(s)) \o C
  <2>1. k + 1 \in 1 .. Len(s) + 1
    BY <1>2, <1>3, <1>6
  <2>. QED
    BY ONLY <1>3, <1>7, <1>10, <2>1, RestJoined
<1>13. NextRound(Round(e, k - 1)) = [queue |-> SubSeq(s, k + 1, Len(s)) \o C, printed |-> s \o C]
  <2>. DEFINE u == SubSeq(s, k, Len(s))
  <2>1. Round(e, k - 1).queue = u /\ Round(e, k - 1).printed = s
    BY <1>8
  <2>. HIDE DEF u
  <2>2. u # << >> /\ Head(u) = s[k] /\ Tail(u) = SubSeq(s, k + 1, Len(s))
    BY <1>11 DEF u
  <2>. QED
    BY <1>7, <2>1, <2>2 DEF NextRound
<1>. QED
  BY <1>9, <1>10, <1>12, <1>13

\* The loop of level_order, round by round.
LEMMA LevelRoundsAre ==
    ASSUME NEW e \in Seq(Int), DOMAIN data = {T!NodesOf(e)[i] : i \in 1 .. Len(T!NodesOf(e))},
           Len(T!NodesOf(e)) <= Len(e)
    PROVE  \A k \in 0 .. Len(T!NodesOf(e)) : T!LevelRounds(<< >>)[k] = Round(e, k)
<1>. DEFINE N == Len(T!NodesOf(e))
            n == Cardinality(DOMAIN data)
<1>1. n = N /\ N \in Nat /\ N <= Len(e) /\ Len(e) \in Nat
  <2>. DEFINE nodes == T!NodesOf(e)
  <2>1. nodes \in Seq(Paths) /\ Len(nodes) \in Nat /\ Once(nodes)
    BY NodesAre DEF Once
  <2>2. DOMAIN data = {nodes[i] : i \in 1 .. Len(nodes)}
    OBVIOUS
  <2>. HIDE DEF nodes
  <2>3. Cardinality(DOMAIN data) = Len(nodes)
    BY <2>1, <2>2, OnceCounted
  <2>4. Len(e) \in Nat
    OBVIOUS
  <2>5. Len(nodes) <= Len(e)
    BY DEF nodes
  <2>. QED
    BY <2>1, <2>3, <2>4, <2>5 DEF nodes
<1>. HIDE DEF N, n
<1>2. Round(e, 0) = [queue |-> << << >> >>, printed |-> << << >> >>]
  <2>. DEFINE r == << << >> >>
  <2>1. T!NodesTo(e)[0] = r /\ r \in Seq(Paths) /\ Len(r) = 1
    BY NodesToIs DEF Paths
  <2>. HIDE DEF r
  <2>2. SubSeq(r, 1, Len(r)) = r
    BY <2>1
  <2>3. SubSeq(T!NodesTo(e)[0], 0 + 1, Len(T!NodesTo(e)[0])) = r
    BY <2>1, <2>2
  <2>. QED
    BY <2>1, <2>3 DEF Round, r
<1>3. \A k \in 1 .. n : Round(e, k) = NextRound(Round(e, k - 1))
  BY <1>1, NextRoundIs DEF N
<1>. DEFINE Is(to) == to = [k \in 0 .. n |->
               IF k = 0 THEN [queue |-> << << >> >>, printed |-> << << >> >>]
               ELSE NextRound(to[k - 1])]
            f == [k \in 0 .. n |-> Round(e, k)]
<1>4. Is(f)
  <2>1. \A k \in 1 .. n : k - 1 \in 0 .. n
    BY <1>1
  <2>. QED
    BY <1>1, <1>2, <1>3, <2>1
<1>. DEFINE r == CHOOSE to : Is(to)
<1>5. Is(r)
  BY <1>4
<1>6. r = T!LevelRounds(<< >>)
  BY SameCardinality DEF T!LevelRounds, n, NextRound
<1>. HIDE DEF r, f
<1>7. r[0] = Round(e, 0) /\ \A k \in 1 .. n : r[k] = NextRound(r[k - 1])
  BY <1>1, <1>2, <1>5
<1>. DEFINE J == {k \in 0 .. n : r[k] = Round(e, k)}
<1>8. 0 \in J
  BY <1>1, <1>7
<1>9. ASSUME NEW k \in 1 .. n, k - 1 \in J PROVE k \in J
  BY <1>3, <1>7, <1>9
<1>. HIDE DEF J
<1>10. \A k \in 0 .. n : k \in J
  BY <1>1, <1>8, <1>9, InductTo
<1>. QED
  BY <1>1, <1>6, <1>10 DEF J, N

\* In the states of EnteredInv the tree is what was entered.
LEMMA EnteredInLevelsFrom == EnteredInv /\ entered # << >> => EnteredInLevels
<1>. SUFFICES ASSUME EnteredInv, entered # << >> PROVE EnteredInLevels
  OBVIOUS
<1>. DEFINE e == entered
            nodes == T!NodesOf(e)
            values == T!ValuesOf(e)
            N == Len(nodes)
<1>1. e \in Seq(Int) /\ (\E m \in Nat : Waiting(nodes, m)) /\ Filled(nodes, values, data)
  BY DEF EnteredInv
<1>2. nodes \in Seq(Paths) /\ N \in Nat /\ Once(nodes)
  BY <1>1, NodesAre DEF Once
<1>3. values \in Seq(Int) /\ Len(values) <= Len(e)
  <2>1. 0 \in Int
    OBVIOUS
  <2>. QED
    BY <1>1, <2>1, ValueEntered
<1>. HIDE DEF e, nodes, values
<1>4. /\ DOMAIN data = {nodes[i] : i \in 1 .. N} /\ Len(values) = N
      /\ \A i \in 1 .. N : data[nodes[i]] = values[i]
  BY <1>1 DEF Filled
<1>5. Cardinality(DOMAIN data) = N
  BY <1>2, <1>4, OnceCounted
<1>6. N <= Len(e) /\ Len(e) \in Nat
  BY <1>1, <1>3, <1>4
<1>7. T!LevelRounds(<< >>)[N] = Round(e, N)
  <2>1. N \in 0 .. N
    BY <1>2
  <2>. QED
    BY <1>1, <1>4, <1>6, <2>1, LevelRoundsAre DEF nodes
<1>8. T!NodesTo(e)[N] = nodes
  <2>. DEFINE t == T!NodesTo(e)[N]
  <2>1. N \in 0 .. Len(e)
    BY <1>2, <1>6
  <2>2. t \in Seq(Paths) /\ Begins(t, nodes)
    BY <1>1, <2>1, NodesToIs, NodesBegin DEF nodes
  <2>3. Len(t) <= N
    BY <2>2 DEF Begins
  <2>. QED
    BY <1>1, <2>1, <2>3, NodesStop DEF nodes
<1>9. Round(e, N) = [queue |-> << >>, printed |-> nodes]
  <2>1. SubSeq(nodes, N + 1, N) = << >>
    BY <1>2
  <2>. QED
    BY <1>8, <2>1 DEF Round
<1>10. T!level_order(<< >>) = nodes /\ T!LevelRounds(<< >>)[N].queue = << >>
  <2>1. T!level_order(<< >>) = T!LevelRounds(<< >>)[N].printed
    BY <1>5, SameCardinality DEF T!level_order
  <2>. QED
    BY <1>7, <1>9, <2>1
<1>11. [i \in DOMAIN nodes |-> data[nodes[i]]] = values
  <2>1. DOMAIN nodes = 1 .. N /\ values = [i \in 1 .. N |-> values[i]]
    BY <1>2, <1>3, <1>4
  <2>. QED
    BY <1>4, <2>1
<1>12. ASSUME q = << >>, curr = << >> PROVE Len(e) = 2 * N + 1
  <2>1. PICK m \in Nat : Waiting(nodes, m)
    BY <1>1
  <2>2. Len(e) = 2 * m + 1 /\ m <= N /\ << >> = SubSeq(nodes, m + 1, N)
    BY <1>12, <2>1 DEF Waiting, e
  <2>3. m = N
    <3>. SUFFICES ASSUME m # N PROVE FALSE
      OBVIOUS
    <3>1. m + 1 \in 1 .. N
      BY <1>2, <2>2
    <3>. QED
      BY <1>2, <2>2, <3>1, RestIs
  <2>. QED
    BY <2>2, <2>3
<1>. QED
  BY <1>5, <1>10, <1>11, <1>12 DEF EnteredInLevels, e, nodes, values

-----------------------------------------------------------------------------
(* The nodes are a tree: each but the root is the child of another, and    *)
(* none is deeper than there are nodes.                                    *)

Grown(M) ==
  /\ M \in Nat /\ DOMAIN data \subseteq Paths /\ IsFiniteSet(DOMAIN data)
  /\ << >> \in DOMAIN data
  /\ \A p \in Paths : T!LeftChild(p) \in DOMAIN data \/ T!RightChild(p) \in DOMAIN data
                        => p \in DOMAIN data
  /\ \A p \in DOMAIN data : Len(p) < M

\* A child is one step longer than its parent, which it begins with.
LEMMA ChildIs ==
    ASSUME NEW p \in Paths, NEW c, c = T!LeftChild(p) \/ c = T!RightChild(p)
    PROVE  /\ c \in Paths /\ Len(c) = Len(p) + 1 /\ Len(p) \in Nat
           /\ \A i \in 1 .. Len(p) : c[i] = p[i]
           /\ c = T!LeftChild(p) => c[Len(p) + 1] = 0
           /\ c = T!RightChild(p) => c[Len(p) + 1] = 1
<1>1. CASE c = T!LeftChild(p)
  <2>1. c = Append(p, 0) /\ 0 \in {0, 1}
    BY <1>1 DEF T!LeftChild
  <2>2. c \in Seq({0, 1}) /\ Len(c) = Len(p) + 1 /\ Len(p) \in Nat
        /\ (\A i \in 1 .. Len(p) : c[i] = p[i]) /\ c[Len(p) + 1] = 0
    BY <2>1, AppendProperties DEF Paths
  <2>. QED
    BY <1>1, <2>2, ChildPaths DEF Paths
<1>2. CASE c = T!RightChild(p)
  <2>1. c = Append(p, 1) /\ 1 \in {0, 1}
    BY <1>2 DEF T!RightChild
  <2>2. c \in Seq({0, 1}) /\ Len(c) = Len(p) + 1 /\ Len(p) \in Nat
        /\ (\A i \in 1 .. Len(p) : c[i] = p[i]) /\ c[Len(p) + 1] = 1
    BY <2>1, AppendProperties DEF Paths
  <2>. QED
    BY <1>2, <2>2, ChildPaths DEF Paths
<1>. QED
  BY <1>1, <1>2

\* What was entered is a tree.
LEMMA GrownFrom ==
    ASSUME EnteredInv, entered # << >>
    PROVE  Grown(Len(T!NodesOf(entered)))
<1>. DEFINE e == entered
            s == T!NodesOf(e)
            N == Len(s)
<1>1. e \in Seq(Int) /\ DOMAIN data = {s[i] : i \in 1 .. N}
  BY DEF EnteredInv, Filled
<1>2. Made(e, s, Len(e)) /\ s \in Seq(Paths) /\ N \in Nat /\ Once(s)
  BY <1>1, NodesAre DEF Once
<1>. HIDE DEF e, s
<1>3. N >= 1 /\ s[1] = << >> /\ \A i \in 1 .. N : s[i] \in Paths
  BY <1>2 DEF Made
<1>4. \A i \in 2 .. N : \E j \in 1 .. i - 1 : ChildEntered(e, s, i, j)
  BY <1>2 DEF Made
<1>5. DOMAIN data \subseteq Paths /\ << >> \in DOMAIN data
  <2>1. 1 \in 1 .. N
    BY <1>2, <1>3
  <2>. QED
    BY <1>1, <1>3, <2>1
<1>6. IsFiniteSet(DOMAIN data)
  BY <1>1, <1>2, OnceCounted
<1>7. ASSUME NEW p \in Paths, NEW c \in DOMAIN data, c = T!LeftChild(p) \/ c = T!RightChild(p)
      PROVE  p \in DOMAIN data
  <2>1. PICK i \in 1 .. N : c = s[i]
    BY <1>1
  <2>2. i \in 2 .. N
    BY <1>2, <1>3, <1>7, <2>1, ChildPaths
  <2>3. PICK j \in 1 .. i - 1 : ChildEntered(e, s, i, j)
    BY <1>4, <2>2
  <2>4. j \in 1 .. N
    BY <1>2, <2>2
  <2>5. s[j] \in Paths /\ s[j] \in DOMAIN data
    BY <1>1, <1>3, <2>4
  <2>6. c = T!LeftChild(s[j]) \/ c = T!RightChild(s[j])
    BY <2>1, <2>3 DEF ChildEntered
  <2>7. p = s[j]
    BY ONLY <1>7, p \in Paths, <2>5, <2>6, ChildPaths
  <2>. QED
    BY <2>5, <2>7
<1>8. \A i \in 1 .. N : Len(s[i]) < i
  <2>. DEFINE J == {k \in 0 .. N : \A i \in 1 .. k : Len(s[i]) < i}
  <2>1. 0 \in J
    BY <1>2
  <2>2. ASSUME NEW k \in 1 .. N, k - 1 \in J PROVE k \in J
    <3>1. \A i \in 1 .. k - 1 : Len(s[i]) < i
      BY <2>2
    <3>2. Len(s[k]) < k
      <4>1. CASE k = 1
        BY <1>3, <4>1
      <4>2. CASE k # 1
        <5>1. PICK j \in 1 .. k - 1 : ChildEntered(e, s, k, j)
          <6>1. k \in 2 .. N
            BY <1>2, <4>2
          <6>. QED
            BY <1>4, <6>1
        <5>2. s[j] \in Paths /\ Len(s[j]) < j
          <6>1. j \in 1 .. N
            BY <1>2
          <6>. QED
            BY <1>3, <3>1, <6>1
        <5>3. Len(s[k]) = Len(s[j]) + 1 /\ Len(s[j]) \in Nat
          BY <5>1, <5>2, ChildIs DEF ChildEntered
        <5>. QED
          BY <5>2, <5>3
      <4>. QED
        BY <4>1, <4>2
    <3>3. \A i \in 1 .. k : i \in 1 .. k - 1 \/ i = k
      OBVIOUS
    <3>. QED
      BY <3>1, <3>2, <3>3
  <2>. HIDE DEF J
  <2>3. \A k \in 0 .. N : k \in J
    BY <1>2, <2>1, <2>2, InductTo
  <2>4. N \in J
    BY <1>2, <2>3
  <2>. QED
    BY <2>4 DEF J
<1>9. \A p \in DOMAIN data : Len(p) < N
  <2>. SUFFICES ASSUME NEW i \in 1 .. N PROVE Len(s[i]) < N
    BY <1>1
  <2>1. Len(s[i]) < i /\ i <= N /\ Len(s[i]) \in Nat
    BY <1>3, <1>8 DEF Paths
  <2>. QED
    BY <1>2, <2>1
<1>10. \A p \in Paths : T!LeftChild(p) \in DOMAIN data \/ T!RightChild(p) \in DOMAIN data
                        => p \in DOMAIN data
  BY <1>7
<1>11. Grown(N)
  BY <1>2, <1>5, <1>6, <1>9, <1>10 DEF Grown
<1>. QED
  BY <1>11 DEF e, s

\* Where a walk may go.
LEMMA PlacesAre ==
    ASSUME NEW M, Grown(M)
    PROVE  /\ << >> \in T!Places /\ T!Places \subseteq Paths
           /\ \A p \in T!Places : Len(p) \in Nat
           /\ \A p \in DOMAIN data : /\ p \in T!Places /\ T!LeftChild(p) \in T!Places
                                     /\ T!RightChild(p) \in T!Places
                                     /\ Len(T!LeftChild(p)) = Len(p) + 1
                                     /\ Len(T!RightChild(p)) = Len(p) + 1
<1>1. DOMAIN data \subseteq Paths /\ << >> \in DOMAIN data /\ << >> \in Paths
  BY DEF Grown, Paths
<1>2. \A p \in DOMAIN data : /\ T!LeftChild(p) \in Paths /\ T!RightChild(p) \in Paths
                             /\ Len(T!LeftChild(p)) = Len(p) + 1
                             /\ Len(T!RightChild(p)) = Len(p) + 1
  BY <1>1, ChildIs
<1>3. T!Places \subseteq Paths
  BY <1>1, <1>2 DEF T!Places
<1>4. \A p \in Paths : Len(p) \in Nat
  BY DEF Paths
<1>. QED
  BY <1>1, <1>2, <1>3, <1>4 DEF T!Places

\* Induction from the places below upwards.
LEMMA InductPlaces ==
    ASSUME NEW M, Grown(M), NEW G,
           \A p \in T!Places : p \notin DOMAIN data => p \in G,
           \A p \in DOMAIN data : T!LeftChild(p) \in G /\ T!RightChild(p) \in G => p \in G
    PROVE  T!Places \subseteq G
<1>. DEFINE J == {k \in 0 .. M : \A p \in T!Places : Len(p) >= M - k => p \in G}
<1>1. M \in Nat /\ \A p \in DOMAIN data : Len(p) < M
  BY DEF Grown
<1>2. 0 \in J
  BY <1>1, PlacesAre
<1>3. ASSUME NEW k \in 1 .. M, k - 1 \in J PROVE k \in J
  <2>. SUFFICES ASSUME NEW p \in T!Places, Len(p) >= M - k PROVE p \in G
    BY <1>1
  <2>1. CASE p \notin DOMAIN data
    BY <2>1
  <2>2. CASE p \in DOMAIN data
    <3>1. /\ T!LeftChild(p) \in T!Places /\ Len(T!LeftChild(p)) = Len(p) + 1 /\ Len(p) \in Nat
          /\ T!RightChild(p) \in T!Places /\ Len(T!RightChild(p)) = Len(p) + 1
      BY <2>2, PlacesAre
    <3>2. Len(p) + 1 >= M - (k - 1)
      BY <1>1, <3>1
    <3>3. \A c \in T!Places : Len(c) >= M - (k - 1) => c \in G
      BY <1>3
    <3>. QED
      BY <2>2, <3>1, <3>2, <3>3
  <2>. QED
    BY <2>1, <2>2
<1>. HIDE DEF J
<1>4. \A k \in 0 .. M : k \in J
  BY <1>1, <1>2, <1>3, InductTo
<1>5. M \in J /\ M - M = 0
  BY <1>1, <1>4
<1>6. \A p \in T!Places : Len(p) \in Nat /\ (Len(p) >= M - M => p \in G)
  BY <1>5, PlacesAre DEF J
<1>. QED
  BY <1>5, <1>6

At(f, p, none, step) ==
  f[p] = IF p \in DOMAIN data THEN step[<<f[T!LeftChild(p)], p, f[T!RightChild(p)]>>] ELSE none

WalkOf(f, V, none, step) == f \in [T!Places -> V] /\ \A p \in T!Places : At(f, p, none, step)

\* A recursion over the children makes a function.
LEMMA WalkExists ==
    ASSUME NEW M, Grown(M), NEW V, NEW none \in V, NEW step \in [V \X T!Places \X V -> V]
    PROVE  \E f : WalkOf(f, V, none, step)
<1>. DEFINE Q == T!Places
            Run(f, k) == f \in [Q -> V] /\ \A p \in Q : Len(p) >= M - k => At(f, p, none, step)
            J == {k \in 0 .. M : \E f : Run(f, k)}
<1>1. M \in Nat /\ (\A p \in DOMAIN data : Len(p) < M) /\ \A p \in Q : Len(p) \in Nat
  BY PlacesAre DEF Grown
<1>2. 0 \in J
  <2>. DEFINE f == [p \in Q |-> none]
  <2>1. \A p \in Q : Len(p) >= M - 0 => p \notin DOMAIN data
    BY <1>1
  <2>2. f \in [Q -> V] /\ \A p \in Q : f[p] = none
    OBVIOUS
  <2>. HIDE DEF f
  <2>3. Run(f, 0)
    BY <2>1, <2>2 DEF At
  <2>. HIDE DEF Run
  <2>. QED
    BY <1>1, <2>3
<1>3. ASSUME NEW k \in 1 .. M, k - 1 \in J PROVE k \in J
  <2>1. PICK f : Run(f, k - 1)
    BY <1>3
  <2>. DEFINE Make(p) == IF p \in DOMAIN data
                         THEN step[<<f[T!LeftChild(p)], p, f[T!RightChild(p)]>>] ELSE none
              g == [p \in Q |-> IF Len(p) = M - k THEN Make(p) ELSE f[p]]
  <2>2. f \in [Q -> V] /\ \A p \in Q : Len(p) >= M - (k - 1) => At(f, p, none, step)
    BY <2>1
  <2>3. \A p \in DOMAIN data : /\ T!LeftChild(p) \in Q /\ T!RightChild(p) \in Q /\ p \in Q
                               /\ Len(T!LeftChild(p)) = Len(p) + 1
                               /\ Len(T!RightChild(p)) = Len(p) + 1
    BY PlacesAre
  <2>4. \A p \in Q : Make(p) \in V
    <3>1. \A p \in DOMAIN data : <<f[T!LeftChild(p)], p, f[T!RightChild(p)]>> \in V \X Q \X V
      BY <2>2, <2>3
    <3>. QED
      BY <3>1
  <2>. HIDE DEF Make
  <2>5. g \in [Q -> V] /\ \A p \in Q : g[p] = IF Len(p) = M - k THEN Make(p) ELSE f[p]
    BY <2>2, <2>4
  <2>. HIDE DEF g
  <2>6. ASSUME NEW p \in Q, Len(p) >= M - k PROVE At(g, p, none, step)
    <3>1. p \in DOMAIN data => g[T!LeftChild(p)] = f[T!LeftChild(p)]
                               /\ g[T!RightChild(p)] = f[T!RightChild(p)]
      <4>. SUFFICES ASSUME p \in DOMAIN data,
                           NEW c \in Q, Len(c) = Len(p) + 1 PROVE g[c] = f[c]
        BY <2>3
      <4>1. Len(c) # M - k
        BY <1>1, <2>6
      <4>. QED
        BY <2>5, <4>1
    <3>2. CASE Len(p) = M - k
      <4>1. g[p] = Make(p)
        BY <2>5, <3>2
      <4>. QED
        BY <3>1, <4>1 DEF At, Make
    <3>3. CASE Len(p) # M - k
      <4>1. Len(p) >= M - (k - 1)
        BY <1>1, <2>6, <3>3
      <4>2. g[p] = f[p] /\ At(f, p, none, step)
        BY <2>2, <2>5, <3>3, <4>1
      <4>. QED
        BY <3>1, <4>2 DEF At
    <3>. QED
      BY <3>2, <3>3
  <2>7. Run(g, k)
    BY <2>5, <2>6
  <2>. HIDE DEF Run
  <2>. QED
    BY <1>1, <2>7
<1>4. M \in J
  <2>. HIDE DEF J
  <2>1. \A k \in 0 .. M : k \in J
    BY <1>1, <1>2, <1>3, InductTo
  <2>. QED
    BY <1>1, <2>1
<1>5. PICK f : Run(f, M)
  BY <1>4
<1>6. M - M = 0
  BY <1>1
<1>7. WalkOf(f, V, none, step)
  BY <1>1, <1>5, <1>6 DEF WalkOf
<1>. QED
  BY <1>7

-----------------------------------------------------------------------------
(* The nodes below a place, and how they lie.                              *)

Starts(p, r) == Len(p) <= Len(r) /\ \A i \in 1 .. Len(p) : r[i] = p[i]

Below(p) == {r \in DOMAIN data : Starts(p, r)}

\* What a node begins with is a node.
LEMMA StartsAreNodes ==
    ASSUME NEW M, Grown(M), NEW r \in DOMAIN data, NEW p \in Paths, Starts(p, r)
    PROVE  p \in DOMAIN data
<1>. DEFINE n == Len(r)
            J == {k \in 0 .. n : \A m \in 0 .. n : m + k = n => SubSeq(r, 1, m) \in DOMAIN data}
<1>1. r \in Seq({0, 1}) /\ p \in Seq({0, 1}) /\ n \in Nat /\ Len(p) \in 0 .. n
  <2>1. r \in Seq({0, 1}) /\ p \in Seq({0, 1})
    BY DEF Grown, Paths
  <2>. QED
    BY <2>1 DEF Starts
<1>2. \A c \in Paths : T!LeftChild(c) \in DOMAIN data \/ T!RightChild(c) \in DOMAIN data
                         => c \in DOMAIN data
  BY DEF Grown
<1>3. 0 \in J
  <2>1. SubSeq(r, 1, n) = r
    BY <1>1
  <2>. HIDE DEF n
  <2>2. \A m \in 0 .. n : m + 0 = n => m = n
    BY <1>1
  <2>3. \A m \in 0 .. n : m + 0 = n => SubSeq(r, 1, m) \in DOMAIN data
    BY <2>1, <2>2
  <2>. QED
    BY <1>1, <2>3
<1>4. ASSUME NEW k \in 1 .. n, k - 1 \in J PROVE k \in J
  <2>. SUFFICES ASSUME NEW j \in 0 .. n, j + k = n PROVE SubSeq(r, 1, j) \in DOMAIN data
    BY <1>1
  <2>. DEFINE c == SubSeq(r, 1, j)
  <2>1. PICK m \in 1 .. n : m = j + 1
    BY <1>1
  <2>2. m - 1 = j /\ m + (k - 1) = n /\ m \in 0 .. n
    BY <1>1, <2>1
  <2>3. SubSeq(r, 1, m) \in DOMAIN data
    BY <1>4, <2>2
  <2>4. SubSeq(r, 1, m) = c \o << r[m] >> /\ c \in Seq({0, 1}) /\ r[m] \in {0, 1}
    <3>1. 1 \in 1 .. Len(r) /\ m \in 1 .. Len(r)
      BY <1>1
    <3>2. SubSeq(r, 1, m) = SubSeq(r, 1, m - 1) \o << r[m] >>
      BY ONLY <1>1, <3>1, SubSeqRecursiveSecond
    <3>3. c \in Seq({0, 1}) /\ r[m] \in {0, 1}
      BY <1>1
    <3>. QED
      BY <2>2, <3>2, <3>3
  <2>. HIDE DEF c
  <2>5. SubSeq(r, 1, m) = Append(c, r[m])
    BY <2>4, AppendIsConcat
  <2>6. SubSeq(r, 1, m) = T!LeftChild(c) \/ SubSeq(r, 1, m) = T!RightChild(c)
    BY <2>4, <2>5 DEF T!LeftChild, T!RightChild
  <2>7. c \in DOMAIN data
    BY <1>2, <2>3, <2>4, <2>6 DEF Paths
  <2>. QED
    BY <2>7 DEF c
<1>. HIDE DEF J
<1>5. \A k \in 0 .. n : k \in J
  BY <1>1, <1>3, <1>4, InductTo
<1>6. n - Len(p) \in J /\ Len(p) + (n - Len(p)) = n
  BY <1>1, <1>5
<1>7. SubSeq(r, 1, Len(p)) \in DOMAIN data
  BY <1>1, <1>6 DEF J
<1>8. SubSeq(r, 1, Len(p)) = p
  <2>1. /\ SubSeq(r, 1, Len(p)) \in Seq({0, 1}) /\ Len(SubSeq(r, 1, Len(p))) = Len(p)
        /\ \A i \in 1 .. Len(p) : SubSeq(r, 1, Len(p))[i] = r[i]
    BY <1>1
  <2>2. \A i \in 1 .. Len(p) : r[i] = p[i]
    BY DEF Starts
  <2>. QED
    BY <1>1, <2>1, <2>2, SeqEqual
<1>. QED
  BY <1>7, <1>8

\* Below a node is the node and what is below its children.
LEMMA BelowIs ==
    ASSUME NEW M, Grown(M)
    PROVE  /\ Below(<< >>) = DOMAIN data
           /\ \A p \in T!Places : p \notin DOMAIN data => Below(p) = {}
           /\ \A p \in DOMAIN data :
                 Below(p) = Below(T!LeftChild(p)) \cup {p} \cup Below(T!RightChild(p))
<1>1. DOMAIN data \subseteq Paths /\ T!Places \subseteq Paths
      /\ \A r \in Paths : Len(r) \in Nat /\ \A i \in 1 .. Len(r) : r[i] \in {0, 1}
  BY PlacesAre DEF Grown, Paths
<1>2. Below(<< >>) = DOMAIN data
  <2>1. \A r \in DOMAIN data : Starts(<< >>, r)
    BY <1>1 DEF Starts
  <2>. QED
    BY <2>1 DEF Below
<1>3. ASSUME NEW p \in T!Places, p \notin DOMAIN data PROVE Below(p) = {}
  BY <1>1, <1>3, StartsAreNodes DEF Below
<1>4. ASSUME NEW p \in DOMAIN data
      PROVE  Below(p) = Below(T!LeftChild(p)) \cup {p} \cup Below(T!RightChild(p))
  <2>. DEFINE l == T!LeftChild(p)
              c == T!RightChild(p)
              n == Len(p)
  <2>1. /\ l \in Paths /\ Len(l) = n + 1 /\ n \in Nat /\ (\A i \in 1 .. n : l[i] = p[i]) /\ l[n + 1] = 0
        /\ c \in Paths /\ Len(c) = n + 1 /\ (\A i \in 1 .. n : c[i] = p[i]) /\ c[n + 1] = 1
    BY <1>1, ChildIs
  <2>. HIDE DEF l, c
  <2>2. ASSUME NEW r \in DOMAIN data, Starts(p, r)
        PROVE  r = p \/ Starts(l, r) \/ Starts(c, r)
    <3>1. n <= Len(r) /\ (\A i \in 1 .. n : r[i] = p[i]) /\ Len(r) \in Nat
      BY <1>1, <2>2 DEF Starts
    <3>2. CASE Len(r) = n
      <4>1. r \in Seq({0, 1}) /\ p \in Seq({0, 1})
        BY <1>1 DEF Paths
      <4>. QED
        BY <3>1, <3>2, <4>1, SeqEqual
    <3>3. CASE Len(r) # n
      <4>1. n + 1 <= Len(r) /\ n + 1 \in 1 .. Len(r)
        BY <2>1, <3>1, <3>3
      <4>2. r[n + 1] \in {0, 1}
        BY <1>1, <4>1
      <4>3. \A i \in 1 .. n + 1 : i \in 1 .. n \/ i = n + 1
        BY <2>1
      <4>. QED
        BY <2>1, <3>1, <4>1, <4>2, <4>3 DEF Starts
    <3>. QED
      BY <3>2, <3>3
  <2>3. ASSUME NEW r \in DOMAIN data, Starts(l, r) \/ Starts(c, r) PROVE Starts(p, r)
    <3>1. \A i \in 1 .. n : i \in 1 .. n + 1
      BY <2>1
    <3>2. n + 1 <= Len(r) /\ Len(r) \in Nat
      BY <1>1, <2>1, <2>3 DEF Starts
    <3>3. n <= Len(r)
      BY <2>1, <3>2
    <3>. QED
      BY <2>1, <2>3, <3>1, <3>3 DEF Starts
  <2>4. Starts(p, p)
    BY <2>1 DEF Starts
  <2>5. Below(p) = Below(l) \cup {p} \cup Below(c)
    BY <2>2, <2>3, <2>4 DEF Below
  <2>. QED
    BY <2>5 DEF l, c
<1>. QED
  BY <1>2, <1>3, <1>4

\* The same beginning, as the walks' orders say it.
LEMMA StartIs ==
    ASSUME NEW p \in Paths, NEW r \in Paths, Starts(p, r)
    PROVE  SubSeq(r, 1, Len(p)) = p /\ SubSeq(p, 1, Len(p)) = p
<1>1. p \in Seq({0, 1}) /\ r \in Seq({0, 1}) /\ Len(p) \in 0 .. Len(r)
  BY DEF Starts, Paths
<1>2. /\ SubSeq(r, 1, Len(p)) \in Seq({0, 1}) /\ Len(SubSeq(r, 1, Len(p))) = Len(p)
      /\ \A i \in 1 .. Len(p) : SubSeq(r, 1, Len(p))[i] = r[i]
  BY <1>1
<1>3. SubSeq(r, 1, Len(p)) = p
  BY <1>1, <1>2, SeqEqual DEF Starts
<1>. QED
  BY <1>1, <1>3

\* How a node and those below its children lie.
LEMMA OrderIs ==
    ASSUME NEW M, Grown(M), NEW p \in DOMAIN data
    PROVE  /\ \A r \in Below(T!LeftChild(p)) : T!Above(p, r) /\ r[Len(p) + 1] = 0
           /\ \A r \in Below(T!RightChild(p)) : T!Above(p, r) /\ r[Len(p) + 1] = 1
           /\ \A r \in Below(T!LeftChild(p)), s \in Below(T!RightChild(p)) : T!LeftOf(r, s)
<1>. DEFINE l == T!LeftChild(p)
            c == T!RightChild(p)
            n == Len(p)
<1>1. DOMAIN data \subseteq Paths /\ p \in Paths
      /\ \A r \in Paths : Len(r) \in Nat /\ DOMAIN r = 1 .. Len(r)
  BY DEF Grown, Paths
<1>2. /\ l \in Paths /\ Len(l) = n + 1 /\ n \in Nat /\ (\A i \in 1 .. n : l[i] = p[i]) /\ l[n + 1] = 0
      /\ c \in Paths /\ Len(c) = n + 1 /\ (\A i \in 1 .. n : c[i] = p[i]) /\ c[n + 1] = 1
  BY <1>1, ChildIs
<1>. HIDE DEF l, c
<1>3. ASSUME NEW r \in Below(l) \cup Below(c)
      PROVE  /\ r \in Paths /\ n + 1 \in DOMAIN r /\ T!Above(p, r) /\ SubSeq(r, 1, n) = p
             /\ r \in Below(l) => r[n + 1] = 0
             /\ r \in Below(c) => r[n + 1] = 1
  <2>1. r \in Paths /\ n + 1 <= Len(r) /\ Len(r) \in Nat /\ n + 1 \in 1 .. n + 1
    BY <1>1, <1>2 DEF Below, Starts
  <2>2. /\ \A i \in 1 .. n : r[i] = p[i]
        /\ r \in Below(l) => r[n + 1] = 0
        /\ r \in Below(c) => r[n + 1] = 1
    <3>1. \A i \in 1 .. n : i \in 1 .. n + 1
      BY <1>2
    <3>. QED
      BY <1>2, <2>1, <3>1 DEF Below, Starts
  <2>3. n <= Len(r) /\ n # Len(r) /\ n + 1 \in 1 .. Len(r)
    BY <1>2, <2>1
  <2>4. Starts(p, r)
    BY <2>2, <2>3 DEF Starts
  <2>5. SubSeq(r, 1, n) = p /\ SubSeq(p, 1, n) = p
    BY <1>1, <2>1, <2>4, StartIs
  <2>6. T!Above(p, r)
    BY <2>3, <2>5 DEF T!Above, T!IsStrictPrefix, T!IsPrefix
  <2>. QED
    BY <1>1, <2>1, <2>2, <2>3, <2>5, <2>6
<1>4. ASSUME NEW r \in Below(l), NEW s \in Below(c) PROVE T!LeftOf(r, s)
  <2>1. /\ n + 1 \in DOMAIN r \cap DOMAIN s /\ SubSeq(r, 1, n) = SubSeq(s, 1, n)
        /\ r[n + 1] = 0 /\ s[n + 1] = 1
    BY <1>3
  <2>2. (n + 1) - 1 = n
    BY <1>2
  <2>3. SubSeq(r, 1, (n + 1) - 1) = SubSeq(s, 1, (n + 1) - 1) /\ r[n + 1] < s[n + 1]
    BY <2>1, <2>2
  <2>. QED
    BY <2>1, <2>3 DEF T!LeftOf
<1>. QED
  BY <1>3, <1>4 DEF l, c

\* No node comes before itself.
LEMMA NotBefore ==
    ASSUME NEW p \in Paths
    PROVE  ~ T!PreBefore(p, p) /\ ~ T!PostBefore(p, p) /\ ~ T!InBefore(p, p)
<1>1. ~ T!Above(p, p)
  BY DEF T!Above, T!IsStrictPrefix
<1>2. ~ T!LeftOf(p, p)
  <2>1. \A i \in DOMAIN p : p[i] \in {0, 1}
    BY DEF Paths
  <2>2. \A i \in DOMAIN p : ~ p[i] < p[i]
    BY <2>1
  <2>. QED
    BY <2>2 DEF T!LeftOf
<1>. QED
  BY <1>1, <1>2 DEF T!PreBefore, T!PostBefore, T!InBefore

-----------------------------------------------------------------------------
(* A walk over a set of nodes, in the order of the pairs B.                *)

Walk(w, Met, B) ==
  /\ w \in Seq(Paths) /\ {w[i] : i \in 1 .. Len(w)} = Met
  /\ \A i, j \in 1 .. Len(w) : i < j => <<w[i], w[j]>> \in B

\* Of no nodes.
LEMMA WalkNone == \A B : Walk(<< >>, {}, B)
  BY DEF Walk

\* Of one node.
LEMMA WalkOne ==
    ASSUME NEW p \in Paths, NEW B
    PROVE  Walk(<< p >>, {p}, B)
<1>. DEFINE w == << p >>
<1>1. w \in Seq(Paths) /\ Len(w) = 1 /\ w[1] = p
  OBVIOUS
<1>. HIDE DEF w
<1>2. \A i, j \in 1 .. Len(w) : ~ i < j
  BY <1>1
<1>3. Walk(w, {p}, B)
  BY <1>1, <1>2 DEF Walk
<1>. QED
  BY <1>3 DEF w

\* A walk after a walk whose nodes all come first.
LEMMA WalkJoined ==
    ASSUME NEW B, NEW u, NEW v, NEW Met, NEW R, Walk(u, Met, B), Walk(v, R, B),
           \A x \in Met, y \in R : <<x, y>> \in B,
           NEW w, w = u \o v
    PROVE  Walk(w, Met \cup R, B)
<1>. DEFINE n == Len(u)
            m == Len(v)
<1>1. u \in Seq(Paths) /\ v \in Seq(Paths) /\ n \in Nat /\ m \in Nat
  <2>1. u \in Seq(Paths) /\ v \in Seq(Paths)
    BY DEF Walk
  <2>. QED
    BY <2>1
<1>2. /\ w \in Seq(Paths) /\ Len(w) = n + m
      /\ \A i \in 1 .. n + m : w[i] = IF i <= n THEN u[i] ELSE v[i - n]
  BY <1>1, ConcatProperties
<1>. HIDE DEF n, m
<1>3. /\ \A i \in 1 .. n : i \in 1 .. n + m /\ w[i] = u[i]
      /\ \A i \in 1 .. m : n + i \in 1 .. n + m /\ w[n + i] = v[i]
  <2>1. \A i \in 1 .. n : i \in 1 .. n + m /\ i <= n
    BY <1>1
  <2>2. \A i \in 1 .. m : n + i \in 1 .. n + m /\ ~ n + i <= n /\ (n + i) - n = i
    BY <1>1
  <2>. QED
    BY <1>2, <2>1, <2>2
<1>4. \A i \in 1 .. n + m : i \in 1 .. n \/ \E k \in 1 .. m : i = n + k
  <2>. SUFFICES ASSUME NEW i \in 1 .. n + m, i \notin 1 .. n PROVE \E k \in 1 .. m : i = n + k
    OBVIOUS
  <2>1. i - n \in 1 .. m /\ i = n + (i - n)
    BY <1>1
  <2>. QED
    BY <2>1
<1>5. {w[i] : i \in 1 .. n + m} = Met \cup R
  <2>1. Met = {u[i] : i \in 1 .. n} /\ R = {v[i] : i \in 1 .. m}
    BY DEF Walk, n, m
  <2>2. ASSUME NEW x \in Met \cup R PROVE \E i \in 1 .. n + m : x = w[i]
    <3>1. CASE x \in Met
      BY <1>3, <2>1, <3>1
    <3>2. CASE x \in R
      BY <1>3, <2>1, <3>2
    <3>. QED
      BY <2>2, <3>1, <3>2
  <2>3. ASSUME NEW i \in 1 .. n + m PROVE w[i] \in Met \cup R
    <3>1. CASE i \in 1 .. n
      BY <1>3, <2>1, <3>1
    <3>2. CASE i \notin 1 .. n
      <4>1. PICK k \in 1 .. m : i = n + k
        BY <1>4, <3>2
      <4>2. w[i] = v[k]
        BY <1>3, <4>1
      <4>. QED
        BY <2>1, <4>2
    <3>. QED
      BY <3>1, <3>2
  <2>. HIDE DEF n, m
  <2>. QED
    BY ONLY <2>2, <2>3
<1>6. ASSUME NEW i \in 1 .. n + m, NEW j \in 1 .. n + m, i < j PROVE <<w[i], w[j]>> \in B
  <2>1. /\ \A x, y \in 1 .. n : x < y => <<u[x], u[y]>> \in B
        /\ \A x, y \in 1 .. m : x < y => <<v[x], v[y]>> \in B
        /\ \A x \in 1 .. n, y \in 1 .. m : <<u[x], v[y]>> \in B
    BY DEF Walk, n, m
  <2>2. CASE i \in 1 .. n /\ j \in 1 .. n
    BY <1>3, <1>6, <2>1, <2>2
  <2>3. CASE i \in 1 .. n /\ j \notin 1 .. n
    <3>1. PICK y \in 1 .. m : j = n + y
      BY <1>4, <2>3
    <3>. QED
      BY <1>3, <2>1, <2>3, <3>1
  <2>4. CASE i \notin 1 .. n
    <3>1. PICK x \in 1 .. m : i = n + x
      BY <1>4, <2>4
    <3>2. j \notin 1 .. n
      BY <1>1, <1>6, <3>1
    <3>3. PICK y \in 1 .. m : j = n + y
      BY <1>4, <3>2
    <3>4. x < y
      BY <1>1, <1>6, <3>1, <3>3
    <3>. QED
      BY <1>3, <2>1, <3>1, <3>3, <3>4
  <2>. QED
    BY <2>2, <2>3, <2>4
<1>. QED
  BY <1>2, <1>5, <1>6 DEF Walk

-----------------------------------------------------------------------------
(* The walks.                                                              *)

\* pre_order, place by place.
LEMMA pre_ordersAre ==
    ASSUME NEW M, Grown(M)
    PROVE  \A p \in T!Places :
              T!pre_orders[p] = IF p \in DOMAIN data
                            THEN << p >> \o T!pre_orders[T!LeftChild(p)] \o T!pre_orders[T!RightChild(p)]
                            ELSE << >>
<1>. DEFINE Q == T!Places
            V == Seq(Paths)
            More(a, p, b) == << p >> \o a \o b
            step == [x \in V \X Q \X V |-> More(x[1], x[2], x[3])]
<1>1. \A a, b \in V, p \in Q : More(a, p, b) \in V
  <2>. SUFFICES ASSUME NEW a \in V, NEW b \in V, NEW p \in Q PROVE More(a, p, b) \in V
    OBVIOUS
  <2>1. << p >> \in Seq(Paths)
    BY PlacesAre
  <2>. QED
    BY <2>1
<1>2. \A p \in DOMAIN data : p \in Q /\ T!LeftChild(p) \in Q /\ T!RightChild(p) \in Q
  BY PlacesAre
<1>3. << >> \in V
  OBVIOUS
<1>. HIDE DEF More, V
<1>4. step \in [V \X Q \X V -> V]
  BY <1>1
<1>5. \A a, b \in V, p \in Q : step[<<a, p, b>>] = More(a, p, b)
  OBVIOUS
<1>. HIDE DEF step
<1>6. PICK f : WalkOf(f, V, << >>, step)
  BY ONLY Grown(M), <1>3, <1>4, WalkExists
<1>7. f \in [Q -> V] /\ \A p \in Q : At(f, p, << >>, step)
  BY <1>6 DEF WalkOf
<1>8. \A p \in DOMAIN data : f[T!LeftChild(p)] \in V /\ f[T!RightChild(p)] \in V /\ p \in Q
  BY <1>2, <1>7
<1>. DEFINE Value(g, p) ==
              IF T!IsNode(p) THEN << p >> \o g[T!LeftChild(p)] \o g[T!RightChild(p)]
              ELSE << >>
            Is(g) == g = [p \in Q |-> Value(g, p)]
<1>9. ASSUME NEW p \in Q PROVE f[p] = Value(f, p)
  <2>1. CASE p \in DOMAIN data
    <3>1. f[p] = step[<<f[T!LeftChild(p)], p, f[T!RightChild(p)]>>]
      BY <1>7, <2>1 DEF At
    <3>2. f[p] = More(f[T!LeftChild(p)], p, f[T!RightChild(p)])
      BY <1>5, <1>8, <2>1, <3>1
    <3>. QED
      BY <2>1, <3>2 DEF More, T!IsNode
  <2>2. CASE p \notin DOMAIN data
    <3>1. f[p] = << >>
      BY <1>7, <2>2 DEF At
    <3>. QED
      BY <2>2, <3>1 DEF T!IsNode
  <2>. QED
    BY <2>1, <2>2
<1>. HIDE DEF Value
<1>10. Is(f)
  BY <1>7, <1>9
<1>. DEFINE r == CHOOSE g : Is(g)
<1>11. Is(r)
  BY <1>10
<1>12. r = T!pre_orders
  BY DEF T!pre_orders, Value
<1>. HIDE DEF r
<1>13. \A p \in Q : r[p] = Value(r, p)
  BY <1>11
<1>. QED
  BY <1>12, <1>13 DEF Value, T!IsNode

\* post_order, place by place.
LEMMA post_ordersAre ==
    ASSUME NEW M, Grown(M)
    PROVE  \A p \in T!Places :
              T!post_orders[p] = IF p \in DOMAIN data
                            THEN T!post_orders[T!LeftChild(p)] \o T!post_orders[T!RightChild(p)] \o << p >>
                            ELSE << >>
<1>. DEFINE Q == T!Places
            V == Seq(Paths)
            More(a, p, b) == a \o b \o << p >>
            step == [x \in V \X Q \X V |-> More(x[1], x[2], x[3])]
<1>1. \A a, b \in V, p \in Q : More(a, p, b) \in V
  <2>. SUFFICES ASSUME NEW a \in V, NEW b \in V, NEW p \in Q PROVE More(a, p, b) \in V
    OBVIOUS
  <2>1. << p >> \in Seq(Paths)
    BY PlacesAre
  <2>. QED
    BY <2>1
<1>2. \A p \in DOMAIN data : p \in Q /\ T!LeftChild(p) \in Q /\ T!RightChild(p) \in Q
  BY PlacesAre
<1>3. << >> \in V
  OBVIOUS
<1>. HIDE DEF More, V
<1>4. step \in [V \X Q \X V -> V]
  BY <1>1
<1>5. \A a, b \in V, p \in Q : step[<<a, p, b>>] = More(a, p, b)
  OBVIOUS
<1>. HIDE DEF step
<1>6. PICK f : WalkOf(f, V, << >>, step)
  BY ONLY Grown(M), <1>3, <1>4, WalkExists
<1>7. f \in [Q -> V] /\ \A p \in Q : At(f, p, << >>, step)
  BY <1>6 DEF WalkOf
<1>8. \A p \in DOMAIN data : f[T!LeftChild(p)] \in V /\ f[T!RightChild(p)] \in V /\ p \in Q
  BY <1>2, <1>7
<1>. DEFINE Value(g, p) ==
              IF T!IsNode(p) THEN g[T!LeftChild(p)] \o g[T!RightChild(p)] \o << p >>
              ELSE << >>
            Is(g) == g = [p \in Q |-> Value(g, p)]
<1>9. ASSUME NEW p \in Q PROVE f[p] = Value(f, p)
  <2>1. CASE p \in DOMAIN data
    <3>1. f[p] = step[<<f[T!LeftChild(p)], p, f[T!RightChild(p)]>>]
      BY <1>7, <2>1 DEF At
    <3>2. f[p] = More(f[T!LeftChild(p)], p, f[T!RightChild(p)])
      BY <1>5, <1>8, <2>1, <3>1
    <3>. QED
      BY <2>1, <3>2 DEF More, T!IsNode
  <2>2. CASE p \notin DOMAIN data
    <3>1. f[p] = << >>
      BY <1>7, <2>2 DEF At
    <3>. QED
      BY <2>2, <3>1 DEF T!IsNode
  <2>. QED
    BY <2>1, <2>2
<1>. HIDE DEF Value
<1>10. Is(f)
  BY <1>7, <1>9
<1>. DEFINE r == CHOOSE g : Is(g)
<1>11. Is(r)
  BY <1>10
<1>12. r = T!post_orders
  BY DEF T!post_orders, Value
<1>. HIDE DEF r
<1>13. \A p \in Q : r[p] = Value(r, p)
  BY <1>11
<1>. QED
  BY <1>12, <1>13 DEF Value, T!IsNode

\* in_order, place by place.
LEMMA in_ordersAre ==
    ASSUME NEW M, Grown(M)
    PROVE  \A p \in T!Places :
              T!in_orders[p] = IF p \in DOMAIN data
                            THEN T!in_orders[T!LeftChild(p)] \o << p >> \o T!in_orders[T!RightChild(p)]
                            ELSE << >>
<1>. DEFINE Q == T!Places
            V == Seq(Paths)
            More(a, p, b) == a \o << p >> \o b
            step == [x \in V \X Q \X V |-> More(x[1], x[2], x[3])]
<1>1. \A a, b \in V, p \in Q : More(a, p, b) \in V
  <2>. SUFFICES ASSUME NEW a \in V, NEW b \in V, NEW p \in Q PROVE More(a, p, b) \in V
    OBVIOUS
  <2>1. << p >> \in Seq(Paths)
    BY PlacesAre
  <2>. QED
    BY <2>1
<1>2. \A p \in DOMAIN data : p \in Q /\ T!LeftChild(p) \in Q /\ T!RightChild(p) \in Q
  BY PlacesAre
<1>3. << >> \in V
  OBVIOUS
<1>. HIDE DEF More, V
<1>4. step \in [V \X Q \X V -> V]
  BY <1>1
<1>5. \A a, b \in V, p \in Q : step[<<a, p, b>>] = More(a, p, b)
  OBVIOUS
<1>. HIDE DEF step
<1>6. PICK f : WalkOf(f, V, << >>, step)
  BY ONLY Grown(M), <1>3, <1>4, WalkExists
<1>7. f \in [Q -> V] /\ \A p \in Q : At(f, p, << >>, step)
  BY <1>6 DEF WalkOf
<1>8. \A p \in DOMAIN data : f[T!LeftChild(p)] \in V /\ f[T!RightChild(p)] \in V /\ p \in Q
  BY <1>2, <1>7
<1>. DEFINE Value(g, p) ==
              IF T!IsNode(p) THEN g[T!LeftChild(p)] \o << p >> \o g[T!RightChild(p)]
              ELSE << >>
            Is(g) == g = [p \in Q |-> Value(g, p)]
<1>9. ASSUME NEW p \in Q PROVE f[p] = Value(f, p)
  <2>1. CASE p \in DOMAIN data
    <3>1. f[p] = step[<<f[T!LeftChild(p)], p, f[T!RightChild(p)]>>]
      BY <1>7, <2>1 DEF At
    <3>2. f[p] = More(f[T!LeftChild(p)], p, f[T!RightChild(p)])
      BY <1>5, <1>8, <2>1, <3>1
    <3>. QED
      BY <2>1, <3>2 DEF More, T!IsNode
  <2>2. CASE p \notin DOMAIN data
    <3>1. f[p] = << >>
      BY <1>7, <2>2 DEF At
    <3>. QED
      BY <2>2, <3>1 DEF T!IsNode
  <2>. QED
    BY <2>1, <2>2
<1>. HIDE DEF Value
<1>10. Is(f)
  BY <1>7, <1>9
<1>. DEFINE r == CHOOSE g : Is(g)
<1>11. Is(r)
  BY <1>10
<1>12. r = T!in_orders
  BY DEF T!in_orders, Value
<1>. HIDE DEF r
<1>13. \A p \in Q : r[p] = Value(r, p)
  BY <1>11
<1>. QED
  BY <1>12, <1>13 DEF Value, T!IsNode

\* count, place by place.
LEMMA countsAre ==
    ASSUME NEW M, Grown(M)
    PROVE  \A p \in T!Places :
              T!counts[p] = IF p \in DOMAIN data
                            THEN T!counts[T!LeftChild(p)] + T!counts[T!RightChild(p)] + 1
                            ELSE 0
<1>. DEFINE Q == T!Places
            V == Nat
            More(a, p, b) == a + b + 1
            step == [x \in V \X Q \X V |-> More(x[1], x[2], x[3])]
<1>1. \A a, b \in V, p \in Q : More(a, p, b) \in V
  OBVIOUS
<1>2. \A p \in DOMAIN data : p \in Q /\ T!LeftChild(p) \in Q /\ T!RightChild(p) \in Q
  BY PlacesAre
<1>3. 0 \in V
  OBVIOUS
<1>. HIDE DEF More, V
<1>4. step \in [V \X Q \X V -> V]
  BY <1>1
<1>5. \A a, b \in V, p \in Q : step[<<a, p, b>>] = More(a, p, b)
  OBVIOUS
<1>. HIDE DEF step
<1>6. PICK f : WalkOf(f, V, 0, step)
  BY ONLY Grown(M), <1>3, <1>4, WalkExists
<1>7. f \in [Q -> V] /\ \A p \in Q : At(f, p, 0, step)
  BY <1>6 DEF WalkOf
<1>8. \A p \in DOMAIN data : f[T!LeftChild(p)] \in V /\ f[T!RightChild(p)] \in V /\ p \in Q
  BY <1>2, <1>7
<1>. DEFINE Value(g, p) ==
              IF T!IsNode(p) THEN g[T!LeftChild(p)] + g[T!RightChild(p)] + 1 ELSE 0
            Is(g) == g = [p \in Q |-> Value(g, p)]
<1>9. ASSUME NEW p \in Q PROVE f[p] = Value(f, p)
  <2>1. CASE p \in DOMAIN data
    <3>1. f[p] = step[<<f[T!LeftChild(p)], p, f[T!RightChild(p)]>>]
      BY <1>7, <2>1 DEF At
    <3>2. f[p] = More(f[T!LeftChild(p)], p, f[T!RightChild(p)])
      BY <1>5, <1>8, <2>1, <3>1
    <3>. QED
      BY <2>1, <3>2 DEF More, T!IsNode
  <2>2. CASE p \notin DOMAIN data
    <3>1. f[p] = 0
      BY <1>7, <2>2 DEF At
    <3>. QED
      BY <2>2, <3>1 DEF T!IsNode
  <2>. QED
    BY <2>1, <2>2
<1>. HIDE DEF Value
<1>10. Is(f)
  BY <1>7, <1>9
<1>. DEFINE r == CHOOSE g : Is(g)
<1>11. Is(r)
  BY <1>10
<1>12. r = T!counts
  BY DEF T!counts, Value
<1>. HIDE DEF r
<1>13. \A p \in Q : r[p] = Value(r, p)
  BY <1>11
<1>. QED
  BY <1>12, <1>13 DEF Value, T!IsNode

\* height, place by place.
LEMMA TreeHeightsAre ==
    ASSUME NEW M, Grown(M)
    PROVE  \A p \in T!Places :
              T!heights[p] = IF p \in DOMAIN data
                            THEN (IF T!heights[T!LeftChild(p)] > T!heights[T!RightChild(p)] THEN T!heights[T!LeftChild(p)] + 1 ELSE T!heights[T!RightChild(p)] + 1)
                            ELSE 0
<1>. DEFINE Q == T!Places
            V == Nat
            More(a, p, b) == (IF a > b THEN a + 1 ELSE b + 1)
            step == [x \in V \X Q \X V |-> More(x[1], x[2], x[3])]
<1>1. \A a, b \in V, p \in Q : More(a, p, b) \in V
  OBVIOUS
<1>2. \A p \in DOMAIN data : p \in Q /\ T!LeftChild(p) \in Q /\ T!RightChild(p) \in Q
  BY PlacesAre
<1>3. 0 \in V
  OBVIOUS
<1>. HIDE DEF More, V
<1>4. step \in [V \X Q \X V -> V]
  BY <1>1
<1>5. \A a, b \in V, p \in Q : step[<<a, p, b>>] = More(a, p, b)
  OBVIOUS
<1>. HIDE DEF step
<1>6. PICK f : WalkOf(f, V, 0, step)
  BY ONLY Grown(M), <1>3, <1>4, WalkExists
<1>7. f \in [Q -> V] /\ \A p \in Q : At(f, p, 0, step)
  BY <1>6 DEF WalkOf
<1>8. \A p \in DOMAIN data : f[T!LeftChild(p)] \in V /\ f[T!RightChild(p)] \in V /\ p \in Q
  BY <1>2, <1>7
<1>. DEFINE Value(g, p) ==
              IF ~ T!IsNode(p) THEN 0
              ELSE LET x == g[T!LeftChild(p)]
                       y == g[T!RightChild(p)]
                   IN  IF x > y THEN x + 1 ELSE y + 1
            Is(g) == g = [p \in Q |-> Value(g, p)]
<1>9. ASSUME NEW p \in Q PROVE f[p] = Value(f, p)
  <2>1. CASE p \in DOMAIN data
    <3>1. f[p] = step[<<f[T!LeftChild(p)], p, f[T!RightChild(p)]>>]
      BY <1>7, <2>1 DEF At
    <3>2. f[p] = More(f[T!LeftChild(p)], p, f[T!RightChild(p)])
      BY <1>5, <1>8, <2>1, <3>1
    <3>. QED
      BY <2>1, <3>2 DEF More, T!IsNode
  <2>2. CASE p \notin DOMAIN data
    <3>1. f[p] = 0
      BY <1>7, <2>2 DEF At
    <3>. QED
      BY <2>2, <3>1 DEF T!IsNode
  <2>. QED
    BY <2>1, <2>2
<1>. HIDE DEF Value
<1>10. Is(f)
  BY <1>7, <1>9
<1>. DEFINE r == CHOOSE g : Is(g)
<1>11. Is(r)
  BY <1>10
<1>12. r = T!heights
  BY DEF T!heights, Value
<1>. HIDE DEF r
<1>13. \A p \in Q : r[p] = Value(r, p)
  BY <1>11
<1>. QED
  BY <1>12, <1>13 DEF Value, T!IsNode

\* A walk in an order in which no node comes before itself meets each once.
LEMMA WalkMeets ==
    ASSUME NEW B, \A p \in Paths : <<p, p>> \notin B,
           NEW w, NEW Met, Walk(w, Met, B)
    PROVE  /\ w \in Seq(Paths) /\ Len(w) \in Nat /\ T!Range(w) = Met /\ Len(w) = T!Cardinality(Met)
           /\ DOMAIN w = 1 .. Len(w)
           /\ \A i, j \in 1 .. Len(w) : i < j => <<w[i], w[j]>> \in B
<1>1. /\ w \in Seq(Paths) /\ {w[i] : i \in 1 .. Len(w)} = Met
      /\ \A i, j \in 1 .. Len(w) : i < j => <<w[i], w[j]>> \in B
  BY DEF Walk
<1>2. Len(w) \in Nat /\ DOMAIN w = 1 .. Len(w) /\ \A i \in 1 .. Len(w) : w[i] \in Paths
  BY <1>1
<1>3. Once(w)
  <2>. SUFFICES ASSUME NEW i \in 1 .. Len(w), NEW j \in 1 .. Len(w), w[i] = w[j], i # j PROVE FALSE
    BY DEF Once
  <2>1. i < j \/ j < i
    BY <1>2
  <2>2. <<w[i], w[i]>> \in B
    BY <1>1, <2>1
  <2>. QED
    BY <1>2, <2>2
<1>4. Cardinality(Met) = Len(w)
  BY <1>1, <1>3, OnceCounted
<1>5. T!Range(w) = {w[i] : i \in 1 .. Len(w)}
  BY <1>2 DEF T!Range
<1>. QED
  BY <1>1, <1>2, <1>4, <1>5, SameCardinality

PrePairs == {x \in Paths \X Paths : T!PreBefore(x[1], x[2])}

\* pre_order walks what is below each place: a node, what is on its left, what is on its right.
LEMMA PreWalks ==
    ASSUME NEW M, Grown(M)
    PROVE  \A p \in T!Places : Walk(T!pre_orders[p], Below(p), PrePairs)
<1>. DEFINE G == {p \in T!Places : Walk(T!pre_orders[p], Below(p), PrePairs)}
<1>1. \A p \in T!Places : p \notin DOMAIN data => p \in G
  <2>. SUFFICES ASSUME NEW p \in T!Places, p \notin DOMAIN data PROVE Walk(T!pre_orders[p], Below(p), PrePairs)
    OBVIOUS
  <2>1. T!pre_orders[p] = << >> /\ Below(p) = {}
    BY pre_ordersAre, BelowIs
  <2>. QED
    BY <2>1, WalkNone
<1>2. ASSUME NEW p \in DOMAIN data, T!LeftChild(p) \in G, T!RightChild(p) \in G PROVE p \in G
  <2>. DEFINE a == T!pre_orders[T!LeftChild(p)]
              b == T!pre_orders[T!RightChild(p)]
              left == Below(T!LeftChild(p))
              right == Below(T!RightChild(p))
  <2>1. Walk(a, left, PrePairs) /\ Walk(b, right, PrePairs)
    BY <1>2
  <2>2. p \in T!Places /\ p \in Paths /\ DOMAIN data \subseteq Paths
    BY PlacesAre DEF Grown
  <2>3. T!pre_orders[p] = << p >> \o a \o b
    BY <2>2, pre_ordersAre
  <2>4. Below(p) = left \cup {p} \cup right
    BY BelowIs
  <2>5. Walk(<< p >>, {p}, PrePairs)
    BY <2>2, WalkOne
  <2>6. left \subseteq Paths /\ right \subseteq Paths
    BY <2>2 DEF Below
  <2>7. /\ \A r \in left : T!Above(p, r) /\ r[Len(p) + 1] = 0
        /\ \A r \in right : T!Above(p, r) /\ r[Len(p) + 1] = 1
        /\ \A r \in left, s \in right : T!LeftOf(r, s)
    BY OrderIs
  <2>. HIDE DEF a, b, left, right
  <2>8. \A u \in {p}, v \in left : <<u, v>> \in PrePairs
    BY <2>2, <2>6, <2>7 DEF PrePairs, T!PreBefore
  <2>9. \A u \in {p}, v \in right : <<u, v>> \in PrePairs
    BY <2>2, <2>6, <2>7 DEF PrePairs, T!PreBefore
  <2>10. \A u \in left, v \in right : <<u, v>> \in PrePairs
    BY <2>2, <2>6, <2>7 DEF PrePairs, T!PreBefore
  <2>. DEFINE first == << p >> \o a
  <2>11. Walk(first, {p} \cup left, PrePairs)
    BY <2>1, <2>5, <2>8, WalkJoined
  <2>. HIDE DEF first
  <2>12. \A u \in {p} \cup left, v \in right : <<u, v>> \in PrePairs
    BY <2>9, <2>10
  <2>13. T!pre_orders[p] = first \o b
    BY <2>3 DEF first
  <2>14. Walk(T!pre_orders[p], ({p} \cup left) \cup right, PrePairs)
    BY <2>1, <2>5, <2>11, <2>12, <2>13, WalkJoined
  <2>15. ({p} \cup left) \cup right = Below(p)
    BY <2>4
  <2>. QED
    BY <2>2, <2>14, <2>15
<1>. HIDE DEF G
<1>3. T!Places \subseteq G
  BY <1>1, <1>2, InductPlaces
<1>. QED
  BY <1>3 DEF G

\* ... so pre_order of the root meets every node once and in its order.
LEMMA PreVisits ==
    ASSUME NEW M, Grown(M)
    PROVE  T!Visits(T!pre_order(<< >>), T!PreBefore)
<1>. DEFINE w == T!pre_order(<< >>)
<1>1. Walk(w, DOMAIN data, PrePairs)
  BY PreWalks, PlacesAre, BelowIs DEF T!pre_order
<1>2. \A p \in Paths : <<p, p>> \notin PrePairs
  BY NotBefore DEF PrePairs
<1>. HIDE DEF w
<1>3. /\ T!Range(w) = DOMAIN data /\ Len(w) = T!Cardinality(DOMAIN data) /\ DOMAIN w = 1 .. Len(w)
      /\ \A i, j \in 1 .. Len(w) : i < j => <<w[i], w[j]>> \in PrePairs
  BY <1>1, <1>2, WalkMeets
<1>4. \A i, j \in DOMAIN w : i < j => T!PreBefore(w[i], w[j])
  BY <1>3 DEF PrePairs
<1>. QED
  BY <1>3, <1>4 DEF T!Visits, w

PostPairs == {x \in Paths \X Paths : T!PostBefore(x[1], x[2])}

\* post_order walks what is below each place: what is on the left of a node, what is on its right, the node.
LEMMA PostWalks ==
    ASSUME NEW M, Grown(M)
    PROVE  \A p \in T!Places : Walk(T!post_orders[p], Below(p), PostPairs)
<1>. DEFINE G == {p \in T!Places : Walk(T!post_orders[p], Below(p), PostPairs)}
<1>1. \A p \in T!Places : p \notin DOMAIN data => p \in G
  <2>. SUFFICES ASSUME NEW p \in T!Places, p \notin DOMAIN data PROVE Walk(T!post_orders[p], Below(p), PostPairs)
    OBVIOUS
  <2>1. T!post_orders[p] = << >> /\ Below(p) = {}
    BY post_ordersAre, BelowIs
  <2>. QED
    BY <2>1, WalkNone
<1>2. ASSUME NEW p \in DOMAIN data, T!LeftChild(p) \in G, T!RightChild(p) \in G PROVE p \in G
  <2>. DEFINE a == T!post_orders[T!LeftChild(p)]
              b == T!post_orders[T!RightChild(p)]
              left == Below(T!LeftChild(p))
              right == Below(T!RightChild(p))
  <2>1. Walk(a, left, PostPairs) /\ Walk(b, right, PostPairs)
    BY <1>2
  <2>2. p \in T!Places /\ p \in Paths /\ DOMAIN data \subseteq Paths
    BY PlacesAre DEF Grown
  <2>3. T!post_orders[p] = a \o b \o << p >>
    BY <2>2, post_ordersAre
  <2>4. Below(p) = left \cup {p} \cup right
    BY BelowIs
  <2>5. Walk(<< p >>, {p}, PostPairs)
    BY <2>2, WalkOne
  <2>6. left \subseteq Paths /\ right \subseteq Paths
    BY <2>2 DEF Below
  <2>7. /\ \A r \in left : T!Above(p, r) /\ r[Len(p) + 1] = 0
        /\ \A r \in right : T!Above(p, r) /\ r[Len(p) + 1] = 1
        /\ \A r \in left, s \in right : T!LeftOf(r, s)
    BY OrderIs
  <2>. HIDE DEF a, b, left, right
  <2>8. \A u \in left, v \in right : <<u, v>> \in PostPairs
    BY <2>2, <2>6, <2>7 DEF PostPairs, T!PostBefore
  <2>9. \A u \in left, v \in {p} : <<u, v>> \in PostPairs
    BY <2>2, <2>6, <2>7 DEF PostPairs, T!PostBefore
  <2>10. \A u \in right, v \in {p} : <<u, v>> \in PostPairs
    BY <2>2, <2>6, <2>7 DEF PostPairs, T!PostBefore
  <2>. DEFINE first == a \o b
  <2>11. Walk(first, left \cup right, PostPairs)
    BY <2>1, <2>5, <2>8, WalkJoined
  <2>. HIDE DEF first
  <2>12. \A u \in left \cup right, v \in {p} : <<u, v>> \in PostPairs
    BY <2>9, <2>10
  <2>13. T!post_orders[p] = first \o << p >>
    BY <2>3 DEF first
  <2>14. Walk(T!post_orders[p], (left \cup right) \cup {p}, PostPairs)
    BY <2>1, <2>5, <2>11, <2>12, <2>13, WalkJoined
  <2>15. (left \cup right) \cup {p} = Below(p)
    BY <2>4
  <2>. QED
    BY <2>2, <2>14, <2>15
<1>. HIDE DEF G
<1>3. T!Places \subseteq G
  BY <1>1, <1>2, InductPlaces
<1>. QED
  BY <1>3 DEF G

\* ... so post_order of the root meets every node once and in its order.
LEMMA PostVisits ==
    ASSUME NEW M, Grown(M)
    PROVE  T!Visits(T!post_order(<< >>), T!PostBefore)
<1>. DEFINE w == T!post_order(<< >>)
<1>1. Walk(w, DOMAIN data, PostPairs)
  BY PostWalks, PlacesAre, BelowIs DEF T!post_order
<1>2. \A p \in Paths : <<p, p>> \notin PostPairs
  BY NotBefore DEF PostPairs
<1>. HIDE DEF w
<1>3. /\ T!Range(w) = DOMAIN data /\ Len(w) = T!Cardinality(DOMAIN data) /\ DOMAIN w = 1 .. Len(w)
      /\ \A i, j \in 1 .. Len(w) : i < j => <<w[i], w[j]>> \in PostPairs
  BY <1>1, <1>2, WalkMeets
<1>4. \A i, j \in DOMAIN w : i < j => T!PostBefore(w[i], w[j])
  BY <1>3 DEF PostPairs
<1>. QED
  BY <1>3, <1>4 DEF T!Visits, w

InPairs == {x \in Paths \X Paths : T!InBefore(x[1], x[2])}

\* in_order walks what is below each place: what is on the left of a node, the node, what is on its right.
LEMMA InWalks ==
    ASSUME NEW M, Grown(M)
    PROVE  \A p \in T!Places : Walk(T!in_orders[p], Below(p), InPairs)
<1>. DEFINE G == {p \in T!Places : Walk(T!in_orders[p], Below(p), InPairs)}
<1>1. \A p \in T!Places : p \notin DOMAIN data => p \in G
  <2>. SUFFICES ASSUME NEW p \in T!Places, p \notin DOMAIN data PROVE Walk(T!in_orders[p], Below(p), InPairs)
    OBVIOUS
  <2>1. T!in_orders[p] = << >> /\ Below(p) = {}
    BY in_ordersAre, BelowIs
  <2>. QED
    BY <2>1, WalkNone
<1>2. ASSUME NEW p \in DOMAIN data, T!LeftChild(p) \in G, T!RightChild(p) \in G PROVE p \in G
  <2>. DEFINE a == T!in_orders[T!LeftChild(p)]
              b == T!in_orders[T!RightChild(p)]
              left == Below(T!LeftChild(p))
              right == Below(T!RightChild(p))
  <2>1. Walk(a, left, InPairs) /\ Walk(b, right, InPairs)
    BY <1>2
  <2>2. p \in T!Places /\ p \in Paths /\ DOMAIN data \subseteq Paths
    BY PlacesAre DEF Grown
  <2>3. T!in_orders[p] = a \o << p >> \o b
    BY <2>2, in_ordersAre
  <2>4. Below(p) = left \cup {p} \cup right
    BY BelowIs
  <2>5. Walk(<< p >>, {p}, InPairs)
    BY <2>2, WalkOne
  <2>6. left \subseteq Paths /\ right \subseteq Paths
    BY <2>2 DEF Below
  <2>7. /\ \A r \in left : T!Above(p, r) /\ r[Len(p) + 1] = 0
        /\ \A r \in right : T!Above(p, r) /\ r[Len(p) + 1] = 1
        /\ \A r \in left, s \in right : T!LeftOf(r, s)
    BY OrderIs
  <2>. HIDE DEF a, b, left, right
  <2>8. \A u \in left, v \in {p} : <<u, v>> \in InPairs
    BY <2>2, <2>6, <2>7 DEF InPairs, T!InBefore
  <2>9. \A u \in left, v \in right : <<u, v>> \in InPairs
    BY <2>2, <2>6, <2>7 DEF InPairs, T!InBefore
  <2>10. \A u \in {p}, v \in right : <<u, v>> \in InPairs
    BY <2>2, <2>6, <2>7 DEF InPairs, T!InBefore
  <2>. DEFINE first == a \o << p >>
  <2>11. Walk(first, left \cup {p}, InPairs)
    BY <2>1, <2>5, <2>8, WalkJoined
  <2>. HIDE DEF first
  <2>12. \A u \in left \cup {p}, v \in right : <<u, v>> \in InPairs
    BY <2>9, <2>10
  <2>13. T!in_orders[p] = first \o b
    BY <2>3 DEF first
  <2>14. Walk(T!in_orders[p], (left \cup {p}) \cup right, InPairs)
    BY <2>1, <2>5, <2>11, <2>12, <2>13, WalkJoined
  <2>15. (left \cup {p}) \cup right = Below(p)
    BY <2>4
  <2>. QED
    BY <2>2, <2>14, <2>15
<1>. HIDE DEF G
<1>3. T!Places \subseteq G
  BY <1>1, <1>2, InductPlaces
<1>. QED
  BY <1>3 DEF G

\* ... so in_order of the root meets every node once and in its order.
LEMMA InVisits ==
    ASSUME NEW M, Grown(M)
    PROVE  T!Visits(T!in_order(<< >>), T!InBefore)
<1>. DEFINE w == T!in_order(<< >>)
<1>1. Walk(w, DOMAIN data, InPairs)
  BY InWalks, PlacesAre, BelowIs DEF T!in_order
<1>2. \A p \in Paths : <<p, p>> \notin InPairs
  BY NotBefore DEF InPairs
<1>. HIDE DEF w
<1>3. /\ T!Range(w) = DOMAIN data /\ Len(w) = T!Cardinality(DOMAIN data) /\ DOMAIN w = 1 .. Len(w)
      /\ \A i, j \in 1 .. Len(w) : i < j => <<w[i], w[j]>> \in InPairs
  BY <1>1, <1>2, WalkMeets
<1>4. \A i, j \in DOMAIN w : i < j => T!InBefore(w[i], w[j])
  BY <1>3 DEF InPairs
<1>. QED
  BY <1>3, <1>4 DEF T!Visits, w

\* count counts what pre_order meets.
LEMMA CountIs ==
    ASSUME NEW M, Grown(M)
    PROVE  T!count(<< >>) = Cardinality(DOMAIN data)
<1>. DEFINE G == {p \in T!Places : T!counts[p] = Len(T!pre_orders[p])}
<1>1. \A p \in T!Places : p \notin DOMAIN data => p \in G
  <2>1. \A p \in T!Places : p \notin DOMAIN data => T!counts[p] = 0 /\ T!pre_orders[p] = << >>
    BY countsAre, pre_ordersAre
  <2>. QED
    BY <2>1
<1>2. ASSUME NEW p \in DOMAIN data, T!LeftChild(p) \in G, T!RightChild(p) \in G PROVE p \in G
  <2>. DEFINE a == T!pre_orders[T!LeftChild(p)]
              b == T!pre_orders[T!RightChild(p)]
  <2>1. /\ p \in T!Places /\ T!LeftChild(p) \in T!Places /\ T!RightChild(p) \in T!Places
        /\ p \in Paths
    BY PlacesAre
  <2>2. a \in Seq(Paths) /\ b \in Seq(Paths)
    BY <2>1, PreWalks DEF Walk
  <2>3. T!pre_orders[p] = << p >> \o a \o b
    BY <2>1, pre_ordersAre
  <2>4. T!counts[p] = Len(a) + Len(b) + 1
    BY <1>2, <2>1, countsAre
  <2>. HIDE DEF a, b
  <2>5. Len(<< p >> \o a \o b) = Len(a) + Len(b) + 1
    BY <2>1, <2>2
  <2>. QED
    BY <2>1, <2>3, <2>4, <2>5
<1>. HIDE DEF G
<1>3. T!Places \subseteq G
  BY <1>1, <1>2, InductPlaces
<1>4. T!counts[<< >>] = Len(T!pre_orders[<< >>])
  BY <1>3, PlacesAre DEF G
<1>5. Len(T!pre_orders[<< >>]) = T!Cardinality(DOMAIN data)
  <2>1. Walk(T!pre_orders[<< >>], DOMAIN data, PrePairs)
    BY PreWalks, PlacesAre, BelowIs
  <2>2. \A p \in Paths : <<p, p>> \notin PrePairs
    BY NotBefore DEF PrePairs
  <2>. QED
    BY <2>1, <2>2, WalkMeets
<1>. QED
  BY <1>4, <1>5, SameCardinality DEF T!count

(* h is the number of levels of what is below p.                           *)
LevelsBelow(p, h) ==
  /\ h \in Nat
  /\ p \notin DOMAIN data => h = 0
  /\ p \in DOMAIN data =>
        /\ \A r \in Below(p) : Len(r) + 1 <= Len(p) + h
        /\ \E r \in Below(p) : Len(r) + 1 = Len(p) + h

\* A node has one level more than the higher of its subtrees.
LEMMA LevelsBelowAre ==
    ASSUME NEW M, Grown(M), NEW p \in DOMAIN data, NEW x, NEW y,
           LevelsBelow(T!LeftChild(p), x), LevelsBelow(T!RightChild(p), y),
           NEW h, h = IF x > y THEN x + 1 ELSE y + 1
    PROVE  LevelsBelow(p, h)
<1>. DEFINE l == T!LeftChild(p)
            c == T!RightChild(p)
            n == Len(p)
<1>1. /\ DOMAIN data \subseteq Paths /\ (\A r \in Paths : Len(r) \in Nat)
      /\ l \in T!Places /\ c \in T!Places /\ Len(l) = n + 1 /\ Len(c) = n + 1 /\ n \in Nat
  <2>1. DOMAIN data \subseteq Paths /\ (\A r \in Paths : Len(r) \in Nat) /\ n \in Nat
    BY DEF Grown, Paths
  <2>. QED
    BY <2>1, PlacesAre
<1>2. Below(p) = Below(l) \cup {p} \cup Below(c)
  BY BelowIs
<1>3. (l \notin DOMAIN data => Below(l) = {}) /\ (c \notin DOMAIN data => Below(c) = {})
  BY <1>1, BelowIs
<1>. HIDE DEF l, c
<1>4. LevelsBelow(l, x) /\ LevelsBelow(c, y)
  BY DEF l, c
<1>5. x \in Nat /\ y \in Nat /\ h \in Nat /\ x + 1 <= h /\ y + 1 <= h
  <2>1. x \in Nat /\ y \in Nat
    BY <1>4 DEF LevelsBelow
  <2>. QED
    BY <2>1
<1>6. ASSUME NEW r \in Below(p) PROVE Len(r) + 1 <= n + h
  <2>0. Len(r) \in Nat
    BY <1>1 DEF Below
  <2>1. CASE r = p
    BY <1>1, <1>5, <2>1
  <2>2. CASE r \in Below(l)
    <3>1. Len(r) + 1 <= Len(l) + x
      BY <1>3, <1>4, <2>2 DEF LevelsBelow
    <3>. QED
      BY <1>1, <1>5, <2>0, <3>1
  <2>3. CASE r \in Below(c)
    <3>1. Len(r) + 1 <= Len(c) + y
      BY <1>3, <1>4, <2>3 DEF LevelsBelow
    <3>. QED
      BY <1>1, <1>5, <2>0, <3>1
  <2>. QED
    BY <1>2, <2>1, <2>2, <2>3
<1>7. \E r \in Below(p) : Len(r) + 1 = n + h
  <2>1. CASE x > y
    <3>1. l \in DOMAIN data
      BY <1>4, <1>5, <2>1 DEF LevelsBelow
    <3>2. PICK r \in Below(l) : Len(r) + 1 = Len(l) + x
      BY <1>4, <3>1 DEF LevelsBelow
    <3>3. Len(r) + 1 = n + h /\ r \in Below(p)
      BY <1>1, <1>2, <1>5, <2>1, <3>2
    <3>. QED
      BY <3>3
  <2>2. CASE ~ x > y /\ y > 0
    <3>1. c \in DOMAIN data
      BY <1>4, <1>5, <2>2 DEF LevelsBelow
    <3>2. PICK r \in Below(c) : Len(r) + 1 = Len(c) + y
      BY <1>4, <3>1 DEF LevelsBelow
    <3>3. Len(r) + 1 = n + h /\ r \in Below(p)
      BY <1>1, <1>2, <1>5, <2>2, <3>2
    <3>. QED
      BY <3>3
  <2>3. CASE ~ x > y /\ ~ y > 0
    <3>1. h = 1 /\ p \in Below(p)
      BY <1>2, <1>5, <2>3
    <3>. QED
      BY <3>1
  <2>. QED
    BY <2>1, <2>2, <2>3
<1>. QED
  BY <1>5, <1>6, <1>7 DEF LevelsBelow

\* height is the number of levels.
LEMMA HeightIs ==
    ASSUME NEW M, Grown(M)
    PROVE  T!height(<< >>) = Max({Len(p) : p \in DOMAIN data}) + 1
<1>. DEFINE G == {p \in T!Places : LevelsBelow(p, T!heights[p])}
            Depths == {Len(p) : p \in DOMAIN data}
<1>1. \A p \in T!Places : p \notin DOMAIN data => p \in G
  BY TreeHeightsAre DEF LevelsBelow
<1>2. ASSUME NEW p \in DOMAIN data, T!LeftChild(p) \in G, T!RightChild(p) \in G PROVE p \in G
  <2>. DEFINE x == T!heights[T!LeftChild(p)]
              y == T!heights[T!RightChild(p)]
              h == T!heights[p]
  <2>1. p \in T!Places
    BY PlacesAre
  <2>2. h = IF x > y THEN x + 1 ELSE y + 1
    BY <2>1, TreeHeightsAre
  <2>3. LevelsBelow(T!LeftChild(p), x) /\ LevelsBelow(T!RightChild(p), y)
    BY <1>2
  <2>. HIDE DEF x, y, h
  <2>4. LevelsBelow(p, h)
    BY <2>2, <2>3, LevelsBelowAre
  <2>. QED
    BY <2>1, <2>4 DEF h
<1>. HIDE DEF G
<1>3. T!Places \subseteq G
  BY <1>1, <1>2, InductPlaces
<1>. DEFINE h == T!heights[<< >>]
<1>4. LevelsBelow(<< >>, h)
  BY <1>3, PlacesAre DEF G
<1>5. Below(<< >>) = DOMAIN data /\ << >> \in DOMAIN data /\ Len(<< >>) = 0
      /\ \A r \in DOMAIN data : Len(r) \in Nat
  BY BelowIs DEF Grown, Paths
<1>. HIDE DEF h
<1>6. h \in Nat /\ (\A r \in DOMAIN data : Len(r) + 1 <= h) /\ \E r \in DOMAIN data : Len(r) + 1 = h
  BY <1>4, <1>5 DEF LevelsBelow
<1>7. PICK r \in DOMAIN data : Len(r) + 1 = h
  BY <1>6
<1>8. Len(r) \in Depths /\ \A y \in Depths : y \in Nat /\ Len(r) >= y
  BY <1>5, <1>6, <1>7
<1>. HIDE DEF Depths
<1>9. Max(Depths) \in Depths /\ \A y \in Depths : Max(Depths) >= y
  BY <1>8 DEF Max
<1>10. Max(Depths) = Len(r)
  <2>1. Max(Depths) >= Len(r) /\ Len(r) >= Max(Depths) /\ Max(Depths) \in Nat /\ Len(r) \in Nat
    BY <1>8, <1>9
  <2>. QED
    BY <2>1
<1>11. T!height(<< >>) = h
  BY DEF T!height, h
<1>. QED
  BY <1>7, <1>10, <1>11 DEF Depths

\* Whatever is entered, the tree is what the answers say and every walk meets each
\* node once and in its order (binary_tree.cpp:27-150).
THEOREM WalksAgreeHolds == TreesSpec => []WalksAgree
<1>1. EnteredInv => WalksAgree
  <2>. SUFFICES ASSUME EnteredInv, entered # << >> PROVE EnteredInLevels /\ WalksInOrder
    BY DEF WalksAgree
  <2>1. EnteredInLevels
    BY EnteredInLevelsFrom
  <2>2. PICK M : Grown(M)
    BY GrownFrom
  <2>3. T!Visits(T!pre_order(<< >>), T!PreBefore) /\ T!Visits(T!post_order(<< >>), T!PostBefore)
        /\ T!Visits(T!in_order(<< >>), T!InBefore)
    BY <2>2, PreVisits, PostVisits, InVisits
  <2>4. /\ T!count(<< >>) = Cardinality(DOMAIN data)
        /\ T!height(<< >>) = Max({Len(p) : p \in DOMAIN data}) + 1
    BY <2>2, CountIs, HeightIs
  <2>5. WalksInOrder
    BY <2>3, <2>4 DEF WalksInOrder
  <2>. QED
    BY <2>1, <2>5
<1>. QED
  BY <1>1, EnteredInvHolds, PTL

=============================================================================
