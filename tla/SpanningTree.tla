---------------------------- MODULE SpanningTree ----------------------------
(***************************************************************************)
(* kruskal.cpp and prim.cpp.  Kruskal's vertices are 0 .. n - 1 and its    *)
(* graph is a set of records Edge; Prim's vertices are 1 .. n and its      *)
(* graph is the matrix `cost`, in which IntMax stands for "no edge".       *)
(***************************************************************************)
EXTENDS Integers, Sequences, FiniteSets, FiniteSetsExt, Functions, Graphs

CONSTANT IntMax     \* INT_MAX

Edges(vertices, weights) == [u : vertices, v : vertices, weight : weights]

Cost(E) == MapThenSumSet(LAMBDA e : e.weight, E)

-----------------------------------------------------------------------------
(* Kruskal's disjoint sets.  A[i] is the parent of i, or minus the size of  *)
(* the set of which i is the root.                                          *)

\* A mutant: the set of v hangs on u, and u's size is what it was.
MutUnionLosesSize(A, u, v) == [A EXCEPT ![v] = u]

\* Union: the root with the bigger set stays; v if they are equal.
Union(A, u, v) ==
    IF A[u] < A[v] THEN [A EXCEPT ![u] = A[u] + A[v], ![v] = u]
                   ELSE [A EXCEPT ![v] = A[u] + A[v], ![u] = v]

\* Find: the loop stops at the first i whose A[i] is not positive. That is a
\* root, or a vertex whose parent is 0.
RECURSIVE Find(_, _)
Find(A, i) == IF A[i] > 0 THEN Find(A, A[i]) ELSE i

\* pq.top(): any of the lightest edges, operator> compares the weights only.
Tops(pq) == {e \in pq : \A f \in pq : e.weight <= f.weight}

\* A mutant: an edge is taken whatever its ends are connected to.
RECURSIVE MutTakenUnchecked(_, _, _, _)
MutTakenUnchecked(pq, DS, taken, n) ==
    IF Cardinality(taken) >= n - 1 \/ pq = {} THEN {taken}
    ELSE UNION {MutTakenUnchecked(pq \ {e}, DS, taken \union {e}, n) : e \in Tops(pq)}

\* The loop of kruskal(): every set of edges it may have taken in the end, for
\* all orders of equal weights. edge_count is the number of edges in `taken`.
RECURSIVE Taken(_, _, _, _)
Taken(pq, DS, taken, n) ==
    IF Cardinality(taken) >= n - 1 \/ pq = {} THEN {taken}
    ELSE UNION {LET root_u == Find(DS, e.u)
                    root_v == Find(DS, e.v)
                IN  IF root_u # root_v
                    THEN Taken(pq \ {e}, Union(DS, root_u, root_v), taken \union {e}, n)
                    ELSE Taken(pq \ {e}, DS, taken, n)
                : e \in Tops(pq)}

kruskal(edges, n) == Taken(edges, [i \in 0 .. n - 1 |-> -1], {}, n)

-----------------------------------------------------------------------------
(* Prim. *)

\* The matrix of an undirected graph: vertex i of its edges is i + 1.
Matrix(edges, n) ==
    [i \in 1 .. n |-> [j \in 1 .. n |->
        LET between == {e \in edges : {e.u + 1, e.v + 1} = {i, j}}
        IN  IF between = {} THEN IntMax ELSE Min({e.weight : e \in between})]]

\* The scan for the minimum: the first of the candidates with the lowest value
\* below IntMax; `old`, the variable as it was, if there is none.
Nearest(value, candidates, old) ==
    LET least == {j \in candidates : /\ value[j] < IntMax
                                     /\ \A k \in candidates : value[j] <= value[k]}
    IN  IF least = {} THEN old ELSE Min(least)

\* A mutant: the vertices that are left are not compared with the new one.
MutNearNotUpdated(cost, near, selected, v) == near

\* The loop after a vertex v was added: who is nearer to v than to its near.
UpdateNear(cost, near, selected, v) ==
    [k \in DOMAIN near |->
        IF k \notin selected /\ cost[k][v] < cost[k][near[k]] THEN v ELSE near[k]]

\* The repeating step. The tree is the sequence of pairs <<u, v>> added.
RECURSIVE Repeat(_, _, _, _, _, _)
Repeat(cost, near, selected, v, tree, rounds) ==
    IF rounds = 0 THEN tree
    ELSE LET w    == Nearest([j \in DOMAIN near |-> cost[j][near[j]]],
                             DOMAIN near \ selected, v)
             done == selected \union {w}
         IN  Repeat(cost, UpdateNear(cost, near, done, w), done, w,
                    Append(tree, <<near[w], w>>), rounds - 1)

\* prim(): vertex 1 and its nearest come first, then n - 2 rounds. For a
\* connected graph of at least two vertices: else the first v has no value.
prim(cost, n) ==
    LET v    == Nearest(cost[1], 1 .. n, 1)
        near == [i \in 1 .. n |-> IF cost[1][i] < cost[v][i] THEN 1 ELSE v]
    IN  Repeat(cost, near, {1, v}, v, <<<<1, v>>>>, n - 2)

min_cost(cost, tree) == FoldFunction(LAMBDA e, sum : sum + cost[e[1]][e[2]], 0, tree)

-----------------------------------------------------------------------------
(* What a minimum spanning tree is, said without either algorithm. *)

\* The pairs of vertices that a set of edges connects.
Connections(E, n) ==
    ConnectionsIn([node |-> 0 .. n - 1,
                   edge |-> {<<e.u, e.v>> : e \in E} \union {<<e.v, e.u>> : e \in E}])

Connected(E, n) == \A p \in (0 .. n - 1) \X (0 .. n - 1) : Connections(E, n)[p]

\* The least weight of edges that connect what all of them connect; weights
\* are positive, so such edges have no cycle.
MinimumCost(E, n) ==
    LET all == Connections(E, n)
    IN  Min({Cost(F) : F \in {F \in SUBSET E : Connections(F, n) = all}})

\* No edge of F has its ends connected by the others.
HasNoCycle(F, n) == \A e \in F : ~Connections(F \ {e}, n)[e.u, e.v]
=============================================================================
