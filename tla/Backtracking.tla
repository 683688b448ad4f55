---------------------------- MODULE Backtracking ----------------------------
(***************************************************************************)
(* permutations.py, rat_maze.py and sudoku.py: helpers that call           *)
(* themselves with what was chosen so far and take the choice back         *)
(* afterwards.  What they change (arr, s and output, M and res, the board) *)
(* is what each call gets and returns.                                     *)
(***************************************************************************)
EXTENDS Integers, Sequences, SequencesExt, FiniteSets, TLC

\* A mutant: the element chosen is not taken out of s again.
RECURSIVE MutKeepsChosen(_, _)
MutKeepsChosen(nums, st) ==
    LET Try(now, elem) ==
            LET below == MutKeepsChosen(nums, [now EXCEPT !.arr = Append(@, elem),
                                                          !.s = @ \union {elem}])
            IN  [below EXCEPT !.arr = RemoveFirst(@, elem)]
    IN  IF Len(st.arr) = Len(nums) THEN [st EXCEPT !.output = Append(@, st.arr)]
        ELSE FoldLeft(LAMBDA now, elem : IF elem \in now.s THEN now ELSE Try(now, elem),
                      st, nums)

\* helper of permute: every element that is not in s is tried in its turn.
RECURSIVE Choose(_, _)
Choose(nums, st) ==
    LET Try(now, elem) ==
            LET below == Choose(nums, [now EXCEPT !.arr = Append(@, elem),
                                                  !.s = @ \union {elem}])
            IN  [below EXCEPT !.arr = RemoveFirst(@, elem), !.s = @ \ {elem}]
    IN  IF Len(st.arr) = Len(nums) THEN [st EXCEPT !.output = Append(@, st.arr)]
        ELSE FoldLeft(LAMBDA now, elem : IF elem \in now.s THEN now ELSE Try(now, elem),
                      st, nums)

permute(nums) == Choose(nums, [arr |-> <<>>, s |-> {}, output |-> <<>>]).output

-----------------------------------------------------------------------------
\* The steps in the order in which helper of ratInMaze tries them.
Steps == <<[letter |-> "U", i |-> -1, j |-> 0], [letter |-> "R", i |-> 0, j |-> 1],
           [letter |-> "L", i |-> 0, j |-> -1], [letter |-> "D", i |-> 1, j |-> 0]>>

\* helper of ratInMaze at row i and column j: `open` is the set of cells that
\* are not 0, M the set of those visited, s the letters so far. The destination
\* is tested before anything else, so it does not matter if it is blocked.
RECURSIVE Explore(_, _, _, _, _, _)
Explore(open, N, st, i, j, s) ==
    IF i = N - 1 /\ j = N - 1 THEN [st EXCEPT !.res = Append(@, s)]
    ELSE IF \/ i \notin 0 .. N - 1 \/ j \notin 0 .. N - 1
            \/ <<i, j>> \notin open \/ <<i, j>> \in st.M
         THEN st
    ELSE LET marked  == [st EXCEPT !.M = @ \union {<<i, j>>}]
             further == FoldLeft(LAMBDA now, step :
                            Explore(open, N, now, i + step.i, j + step.j,
                                    Append(s, step.letter)), marked, Steps)
         IN  [further EXCEPT !.M = @ \ {<<i, j>>}]

\* The order of strings that res.sort() uses.
Alphabet == <<"D", "L", "R", "U">>
Rank(letter) == SelectInSeq(Alphabet, LAMBDA a : a = letter)
Less(s, t) ==
    \/ IsStrictPrefix(s, t)
    \/ \E k \in DOMAIN s \intersect DOMAIN t :
          SubSeq(s, 1, k - 1) = SubSeq(t, 1, k - 1) /\ Rank(s[k]) < Rank(t[k])

ratInMaze(open, N) ==
    SortSeq(Explore(open, N, [M |-> {}, res |-> <<>>], 0, 0, <<>>).res, Less)

-----------------------------------------------------------------------------
(* sudoku.py, on boards of Box * Box rows; Box is 3 there.  An empty space *)
(* is 0.  What helper returns and the board it leaves are a record.        *)

Side(Box) == Box * Box

\* The rows, or columns, of the box that one of them is in.
Band(Box, i) == Box * (i \div Box) .. Box * (i \div Box) + Box - 1

\* is_valid: n is not in the column, the row or the box.
is_valid(Box, board, n, i, j) ==
    /\ \A l \in 0 .. Side(Box) - 1 : board[l, j] # n /\ board[i, l] # n
    /\ \A r \in Band(Box, i), c \in Band(Box, j) : board[r, c] # n

\* A mutant: what the first valid number leads to is returned.
RECURSIVE MutSolveFirstValid(_, _, _, _, _)
MutSolveFirstValid(Box, board, i, j, n) ==
    IF i = Side(Box) /\ j = 0 THEN [solved |-> TRUE, board |-> board]
    ELSE IF board[i, j] # 0
         THEN IF j + 1 = Side(Box) THEN MutSolveFirstValid(Box, board, i + 1, 0, 1)
                                   ELSE MutSolveFirstValid(Box, board, i, j + 1, 1)
    ELSE IF n > Side(Box) THEN [solved |-> FALSE, board |-> board]
    ELSE IF is_valid(Box, board, n, i, j)
         THEN MutSolveFirstValid(Box, [board EXCEPT ![i, j] = n], i, j, 1)
         ELSE MutSolveFirstValid(Box, board, i, j, n + 1)

\* helper at row i and column j, whose loop over the numbers has come to n: the
\* number goes on the board, and off it again if helper fails with it.
RECURSIVE Solve(_, _, _, _, _)
Solve(Box, board, i, j, n) ==
    IF i = Side(Box) /\ j = 0 THEN [solved |-> TRUE, board |-> board]
    ELSE IF board[i, j] # 0
         THEN IF j + 1 = Side(Box) THEN Solve(Box, board, i + 1, 0, 1)
                                   ELSE Solve(Box, board, i, j + 1, 1)
    ELSE IF n > Side(Box) THEN [solved |-> FALSE, board |-> board]
    ELSE IF is_valid(Box, board, n, i, j)
         THEN LET below == Solve(Box, [board EXCEPT ![i, j] = n], i, j, 1)
              IN  IF below.solved THEN below
                  ELSE Solve(Box, [below.board EXCEPT ![i, j] = 0], i, j, n + 1)
         ELSE Solve(Box, board, i, j, n + 1)

solveSudoku(Box, board) == Solve(Box, board, 0, 0, 1)

-----------------------------------------------------------------------------
(* What the results are, said without trying anything.                     *)

\* Where s leads to from the first cell with its first k letters.
CellAfter(s, k) ==
    LET number(letter) == Len(SelectSeq(SubSeq(s, 1, k), LAMBDA a : a = letter))
    IN  <<number("D") - number("U"), number("R") - number("L")>>

\* The cells s passes before it arrives at the last one.
Passed(s) == {CellAfter(s, k) : k \in 0 .. Len(s) - 1}

\* A way through a maze of N rows: within the maze it ends at the last cell and
\* meets no cell twice.
IsWay(N, s) ==
    /\ CellAfter(s, Len(s)) = <<N - 1, N - 1>>
    /\ <<N - 1, N - 1>> \notin Passed(s)
    /\ Passed(s) \subseteq (0 .. N - 1) \X (0 .. N - 1)
    /\ Cardinality(Passed(s)) = Len(s)

\* No number is twice in a row, a column or a box.
IsConsistent(Box, board) ==
    \A c \in DOMAIN board :
        board[c] # 0 => is_valid(Box, [board EXCEPT ![c] = 0], board[c], c[1], c[2])

\* The boards with row i filled in, with any order of the numbers that agrees with
\* what is in the other rows.
WithRow(Box, boards, i) ==
    {b \in {[c \in DOMAIN b |-> IF c[1] = i THEN order[c[2] + 1] ELSE b[c]] :
                b \in boards, order \in SetToSeqs(1 .. Side(Box))} : IsConsistent(Box, b)}
=============================================================================
