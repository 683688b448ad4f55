----------------------------- MODULE Algorithms -----------------------------
(***************************************************************************)
(* The functions of the repository that compute a result and keep nothing, *)
(* each against what it should compute, on every input that the calls      *)
(* below build: the arrays and the text that Ordering builds and Texts     *)
(* uses too, a graph drawn edge by edge, a maze opened cell by cell, a     *)
(* sudoku board with one clue after the other.                             *)
(***************************************************************************)
EXTENDS Texts

CONSTANTS Vertices,     \* the number of vertices of a graph
          Weights,      \* the weights of its edges
          MaxEdges,     \* the most edges it has
          N,            \* the rows of a maze
          Box,          \* the side of a box of a sudoku board
          MaxClues,     \* the most numbers it is given
          IntMax        \* INT_MAX

ASSUME AlgorithmsAssumption ==
    /\ MaxEdges \in Nat
    /\ Vertices \in Nat \ {0, 1} /\ N \in Nat \ {0}
    /\ Box \in Nat \ {0} /\ MaxClues \in Nat
    /\ IntMax \in Nat /\ Weights \subseteq Nat \ {0}
    /\ \A w \in Weights : Vertices * w <= IntMax + w     \* no path's weight overflows

VARIABLES edges,    \* a set of edges, at most one between two vertices
          open,     \* the cells of a maze that are not blocked
          puzzle    \* a sudoku board; 0 is an empty space

inputs == <<edges, open, puzzle>>

S == INSTANCE SpanningTree
P == INSTANCE ShortestPath
G == INSTANCE GraphSearch
B == INSTANCE Backtracking

-----------------------------------------------------------------------------
Squares == (0 .. B!Side(Box) - 1) \X (0 .. B!Side(Box) - 1)

Cells2D == (0 .. N - 1) \X (0 .. N - 1)

NoGraph == edges = {}
NoMaze  == open = {}
NoBoard == puzzle = [c \in Squares |-> 0]

BuildInit == OrderInit /\ NoGraph /\ NoMaze /\ NoBoard

\* A call on the arrays or one more character, while the other inputs are as new.
Order == OrderNext /\ NoGraph /\ NoMaze /\ NoBoard /\ UNCHANGED inputs

\* One more edge, open cell or number.
Draw(e) ==
    /\ Init /\ NoText /\ NoMaze /\ NoBoard
    /\ Cardinality(edges) < MaxEdges
    /\ e.u # e.v
    /\ \A f \in edges : {e.u, e.v} # {f.u, f.v}
    /\ edges' = edges \union {e}
    /\ UNCHANGED <<vars, text, open, puzzle>>

Open(c) ==
    /\ Init /\ NoText /\ NoGraph /\ NoBoard
    /\ c \notin open
    /\ open' = open \union {c}
    /\ UNCHANGED <<vars, text, edges, puzzle>>

\* A clue in the lower half, where the solver comes last and has the most to take
\* back. No clue contradicts another one directly.
Give(c, n) ==
    /\ Init /\ NoText /\ NoGraph /\ NoMaze
    /\ Cardinality({d \in Squares : puzzle[d] # 0}) < MaxClues
    /\ 2 * c[1] >= B!Side(Box) /\ puzzle[c] = 0
    /\ B!is_valid(Box, puzzle, n, c[1], c[2])
    /\ puzzle' = [puzzle EXCEPT ![c] = n]
    /\ UNCHANGED <<vars, text, edges, open>>

BuildNext ==
    \/ Order
    \/ \E e \in S!Edges(0 .. Vertices - 1, Weights) : Draw(e)
    \/ \E c \in Cells2D : Open(c)
    \/ \E c \in Squares, n \in 1 .. B!Side(Box) : Give(c, n)

BuildSpec == BuildInit /\ [][BuildNext]_<<vars, text, inputs>>

-----------------------------------------------------------------------------
(* Graphs.                                                                 *)

SmallerFirst == \A e \in edges : e.u < e.v

\* kruskal() takes a forest that connects what the graph connects at the least
\* cost, in whatever order equal weights come, if every edge names its smaller
\* vertex first, as those of main() do (kruskal.cpp:80). Otherwise vertex 0 may
\* be a parent, which Find does not see.
KruskalMinimal ==
    SmallerFirst =>
        \A taken \in S!kruskal(edges, Vertices) :
            /\ S!HasNoCycle(taken, Vertices)
            /\ S!Cost(taken) = S!MinimumCost(edges, Vertices)

\* prim() adds n - 1 edges that connect all vertices of a connected graph at the
\* least cost, for every n the graph fits in. So the two programs agree, which
\* have the same graph in main() (prim.cpp:80).
PrimMinimal ==
    \A n \in 2 .. Vertices :
        (\A e \in edges : e.u < n /\ e.v < n) /\ S!Connected(edges, n) =>
            LET cost == S!Matrix(edges, n)
                tree == S!prim(cost, n)
            IN  /\ \A i, j \in DOMAIN tree : i < j => tree[i][2] # tree[j][2]
                /\ \A i \in DOMAIN tree : cost[tree[i][1]][tree[i][2]] # IntMax
                /\ S!min_cost(cost, tree) = S!MinimumCost(edges, n)

AgreeWhereReached(distance, results) ==
    \A d \in results, v \in DOMAIN distance :
        distance[v] # IntMax => d[v] = distance[v]

\* dijkstra() has the right distance of every vertex that s reaches, whatever
\* u holds in the rounds in which no open vertex can be reached, where it is
\* read without a value (dijkstra.cpp:25, 33).
DijkstraShortest ==
    \A cost \in {P!Matrix(edges, Vertices)}, s \in 1 .. Vertices :
        AgreeWhereReached(P!Distance(cost, Vertices, s), P!dijkstra(cost, Vertices, s))

\* What the three greedy algorithms choose step by step is best in the end.
GreedyIsBest == KruskalMinimal /\ PrimMinimal /\ DijkstraShortest

-----------------------------------------------------------------------------
(* Searches.                                                               *)

\* The graphs to search: the directed one that was drawn, and the one of the
\* open cells next to each other, which has more vertices and cycles.
Number(c) == N * c[1] + c[2] + 1

Neighbours ==
    {<<Number(c), Number(d)>> : <<c, d>> \in
        {p \in open \X open :
            {p[1][1] - p[2][1], p[1][2] - p[2][2]} \in {{0, 1}, {0, -1}}}}

\* BFS() prints each vertex that start reaches once, the nearer ones first.
\* DFS() always goes on from the latest vertex it can go on from, and a second
\* call visits only what the first, in its static array, has left
\* (graphs.cpp:6, 31).
SearchesInOrder(pairs, n) ==
    \A s \in 1 .. n - 1 :
        LET first == G!DFS(pairs, <<>>, s, n)
        IN  /\ G!IsBreadthFirst(G!BFS(pairs, s, n), G!Layers(pairs, {s}, {s}))
            /\ G!IsDepthFirst(pairs, first, {}, n)
            /\ \A t \in 1 .. n - 1 :
                  LET both   == G!DFS(pairs, first, t, n)
                      second == SubSeq(both, Len(first) + 1, Len(both))
                  IN  IF t \in ToSet(first) THEN both = first
                      ELSE /\ IsPrefix(first, both)
                           /\ G!IsDepthFirst(pairs, second, ToSet(first), n)

SearchesVisitAll ==
    /\ edges # {} => SearchesInOrder(G!Pairs(edges), Vertices + 1)
    /\ open # {}  => SearchesInOrder(Neighbours, N * N + 1)

\* permute() finds every order of the elements once. Of a list that repeats an
\* element it finds none: the set of what was selected never fills
\* (permutations.py:14).
AllOrdersFound ==
    Len(text) <= Cardinality(Codes) =>
        LET found == B!permute(text)
        IN  /\ IsInjective(found)
            /\ ToSet(found) = IF IsInjective(text) THEN SetToSeqs(ToSet(text)) ELSE {}

Letters == {"D", "L", "R", "U"}

\* ratInMaze() finds every way through a maze with no blocked cell, and of any
\* other maze those of them that pass its open cells, each once and in
\* alphabetical order: what it marked on one way does not block another.
\* Whether the destination is blocked it never asks (rat_maze.py:16, 33).
AllWaysFound ==
    open # {} =>
        LET found == B!ratInMaze(open, N)
        IN  /\ ToSet(found) =
                  {s \in IF open = Cells2D THEN BoundedSeq(Letters, N * N - 1)
                         ELSE ToSet(B!ratInMaze(Cells2D, N)) :
                     B!IsWay(N, s) /\ B!Passed(s) \subseteq open}
            /\ \A i, j \in DOMAIN found : i < j => B!Less(found[i], found[j])

\* The boards with the first rows filled in whatever way the rules allow.
Filled[rows \in 0 .. B!Side(Box)] ==
    IF rows = 0 THEN {[c \in Squares |-> 0]} ELSE B!WithRow(Box, Filled[rows - 1], rows - 1)

FullBoards == Filled[B!Side(Box)]

\* solveSudoku() says whether a board with clues that do not contradict each
\* other directly can be filled, and if so fills it. If not, nothing of what it
\* tried is left on the board (sudoku.py:41).
SudokuSolved ==
    ~NoBoard =>
        LET result == B!solveSudoku(Box, puzzle)
            Fits(b) == \A c \in Squares : puzzle[c] # 0 => b[c] = puzzle[c]
        IN  /\ result.solved <=> \E b \in FullBoards : Fits(b)
            /\ IF result.solved THEN result.board \in FullBoards /\ Fits(result.board)
                                ELSE result.board = puzzle

\* A search reaches all there is, in its order, and nothing twice, although it
\* goes back over what it marked.
SearchesFindAll ==
    SearchesVisitAll /\ AllOrdersFound /\ AllWaysFound /\ SudokuSolved

-----------------------------------------------------------------------------
\* "check cycle, if no cycle combine" (kruskal.cpp:67): whichever way round an
\* edge names its vertices, kruskal() takes none that closes a cycle.
NoCycleTaken ==
    \A taken \in S!kruskal(edges, Vertices) : S!HasNoCycle(taken, Vertices)
=============================================================================
