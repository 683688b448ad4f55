---------------------------- MODULE GraphSearch -----------------------------
(***************************************************************************)
(* graphs.cpp: BFS() with its queue and DFS() with its static array of     *)
(* visited vertices.  G is the set of pairs <<v, j>> with G[v][j] == 1 and *)
(* the vertices are 1 .. n - 1.  The result is the order of printing; the  *)
(* visited vertices are those printed, by earlier calls of DFS included.   *)
(***************************************************************************)
EXTENDS Integers, Sequences, SequencesExt, Graphs

\* Directed edges from e.u + 1 to e.v + 1.
Pairs(edges) == {<<e.u + 1, e.v + 1>> : e \in edges}

\* The unvisited j of the loop over v's row, in its order.
Unvisited(G, v, printed, n) ==
    SelectSeq([j \in 1 .. n - 1 |-> j],
              LAMBDA j : <<v, j>> \in G /\ j \notin Range(printed))

\* A mutant: the vertex found last is taken from the queue first.
RECURSIVE MutDequeueLast(_, _, _, _)
MutDequeueLast(G, q, printed, n) ==
    IF q = <<>> THEN printed
    ELSE LET found == Unvisited(G, Last(q), printed, n)
         IN  MutDequeueLast(G, Front(q) \o found, printed \o found, n)

\* The while loop of BFS.
RECURSIVE Dequeue(_, _, _, _)
Dequeue(G, q, printed, n) ==
    IF q = <<>> THEN printed
    ELSE LET found == Unvisited(G, Head(q), printed, n)
         IN  Dequeue(G, Tail(q) \o found, printed \o found, n)

BFS(G, start, n) == Dequeue(G, <<start>>, <<start>>, n)

\* DFS() and its loop, from vertex j of start's row on.
RECURSIVE DFS(_, _, _, _)
RECURSIVE Row(_, _, _, _, _)
DFS(G, printed, start, n) ==
    IF start \in Range(printed) THEN printed
    ELSE Row(G, Append(printed, start), start, 1, n)
Row(G, printed, start, j, n) ==
    IF j >= n THEN printed
    ELSE Row(G, IF <<start, j>> \in G /\ j \notin Range(printed)
                THEN DFS(G, printed, j, n) ELSE printed,
             start, j + 1, n)

-----------------------------------------------------------------------------
(* What the orders are, said without queue or recursion. *)

\* The number of edges to each vertex that start reaches.
RECURSIVE Layers(_, _, _)
Layers(G, reached, layer) ==
    LET next == {e[2] : e \in {e \in G : e[1] \in layer}} \ reached
    IN  IF next = {} THEN <<layer>> ELSE <<layer>> \o Layers(G, reached \union next, next)

\* One layer after the other, each vertex once.
IsBreadthFirst(order, layers) ==
    /\ IsInjective(order)
    /\ Range(order) = UNION Range(layers)
    /\ \A i, k \in DOMAIN order, a, b \in DOMAIN layers :
          order[i] \in layers[a] /\ order[k] \in layers[b] /\ a < b => i < k

\* Of a search that found `before` visited: each next vertex is the first that
\* is left next to the latest vertex with any left, and in the end none is left.
IsDepthFirst(G, order, before, n) ==
    LET left(i, k) == {j \in 1 .. n - 1 :
                          /\ <<order[k], j>> \in G
                          /\ j \notin before \union Range(SubSeq(order, 1, i))}
        open(i)    == {k \in 1 .. i : left(i, k) # {}}
    IN  /\ IsInjective(order) /\ Range(order) \intersect before = {}
        /\ \A i \in 1 .. Len(order) - 1 :
              open(i) # {} /\ order[i + 1] = Min(left(i, Max(open(i))))
        /\ open(Len(order)) = {}
=============================================================================
