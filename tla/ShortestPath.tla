---------------------------- MODULE ShortestPath ----------------------------
(***************************************************************************)
(* dijkstra.cpp: a directed graph as the matrix `cost` with a row and a    *)
(* column 0 that stay IntMax, vertices 1 .. n, IntMax for "no edge".       *)
(* The result is a set: all that dijkstra() may return, as one of its      *)
(* variables may be read before it has a value.                            *)
(***************************************************************************)
EXTENDS Integers, FiniteSetsExt

CONSTANT IntMax     \* INT_MAX; the type holds -IntMax - 1 .. IntMax

\* A sum of two ints, which wraps around.
Wrap(x) == ((x + IntMax + 1) % (2 * (IntMax + 1))) - (IntMax + 1)

\* Directed edges from e.u + 1 to e.v + 1.
Matrix(edges, n) ==
    [i \in 0 .. n |-> [j \in 0 .. n |->
        LET from == {e \in edges : e.u + 1 = i /\ e.v + 1 = j}
        IN  IF from = {} THEN IntMax ELSE Min({e.weight : e \in from})]]

\* A mutant: any open vertex with an edge to it, not the nearest, is next.
MutSelectFirst(d, selected, n) ==
    LET open == {i \in 1 .. n \ selected : d[i] < IntMax}
    IN  IF open = {} THEN 0 .. n ELSE {Min(open)}

\* The scan for u: the first open vertex with the least distance. If all that
\* are open are at IntMax u keeps whatever it holds, an index of the vectors.
Select(d, selected, n) ==
    LET open    == {i \in 1 .. n \ selected : d[i] < IntMax}
        nearest == {i \in open : \A j \in open : d[i] <= d[j]}
    IN  IF open = {} THEN 0 .. n ELSE {Min(nearest)}

Relax(cost, d, selected, u) ==
    [v \in DOMAIN d |->
        LET through == Wrap(d[u] + cost[u][v])
        IN  IF /\ v \in DOMAIN d \ ({0} \union selected)
               /\ cost[u][v] # IntMax
               /\ through < d[v]
            THEN through ELSE d[v]]

\* One round of the loop over k, from each of the states it may be in.
Round(cost, n, states) ==
    UNION {{LET done == st.selected \union {u}
            IN  [d |-> Relax(cost, st.d, done, u), selected |-> done]
            : u \in Select(st.d, st.selected, n)} : st \in states}

RECURSIVE Rounds(_, _, _, _)
Rounds(cost, n, states, rounds) ==
    IF rounds = 0 THEN states ELSE Rounds(cost, n, Round(cost, n, states), rounds - 1)

dijkstra(cost, n, s) ==
    LET d == [i \in 0 .. n |-> IF i = s THEN 0 ELSE IF i = 0 THEN IntMax ELSE cost[s][i]]
    IN  {st.d : st \in Rounds(cost, n, {[d |-> d, selected |-> {s}]}, n - 1)}

-----------------------------------------------------------------------------
\* What a distance is: the least weight of the walks from s to v of at most k
\* edges, IntMax if there is none.
RECURSIVE LeastWeight(_, _, _, _)
LeastWeight(cost, n, s, k) ==
    IF k = 0 THEN [v \in 1 .. n |-> IF v = s THEN 0 ELSE IntMax]
    ELSE LET shorter == LeastWeight(cost, n, s, k - 1)
             before(v) == {u \in 1 .. n : shorter[u] # IntMax /\ cost[u][v] # IntMax}
         IN  [v \in 1 .. n |->
                Min({shorter[v]} \union {shorter[u] + cost[u][v] : u \in before(v)})]

Distance(cost, n, s) == LeastWeight(cost, n, s, n - 1)
=============================================================================
