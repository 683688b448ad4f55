---------------------------- MODULE ArraysProof ----------------------------
(***************************************************************************)
(* Proofs about Array, Ordering and Texts, for any number of arrays of any *)
(* capacity and texts of any length: what the calls that change an array   *)
(* do to its elements, and what the searches, the merges, the heap, the    *)
(* string functions and log() return, each by an invariant of its loop and *)
(* induction over its rounds.                                              *)
(***************************************************************************)
EXTENDS Texts, Basics

-----------------------------------------------------------------------------
(* The inductive invariant.                                                *)

\* The invariant holds at the start ...
LEMMA ArrayInit == Init => ArrayInv
<1>. SUFFICES ASSUME Init PROVE ArrayInv
  OBVIOUS
<1>1. /\ A \in [Arrays -> [Cells -> Val \cup {0, Junk}]]
      /\ curr_length \in [Arrays -> 0 .. Size]
  BY ArrayAssumption DEF Init
<1>2. ASSUME NEW a \in Arrays PROVE Contents(a) \in Seq(Val)
  BY <1>2 DEF Init, Contents
<1>. QED
  BY <1>1, <1>2 DEF ArrayInv

\* The elements are those of the cells in use.
LEMMA ContentsIs ==
    ASSUME ArrayInv, NEW a \in Arrays
    PROVE  /\ Contents(a) \in Seq(Val)
           /\ Len(Contents(a)) = curr_length[a]
           /\ \A j \in 1 .. curr_length[a] : Contents(a)[j] = A[a][j - 1]
           /\ \A j \in 0 .. curr_length[a] - 1 : A[a][j] \in Val
<1>1. Contents(a) \in Seq(Val) /\ curr_length[a] \in Nat
  BY DEF ArrayInv
<1>2. /\ Len(Contents(a)) = curr_length[a]
      /\ \A j \in 1 .. curr_length[a] : Contents(a)[j] = A[a][j - 1]
  BY <1>1 DEF Contents
<1>3. ASSUME NEW j \in 0 .. curr_length[a] - 1 PROVE A[a][j] \in Val
  <2>1. j + 1 \in 1 .. curr_length[a] /\ (j + 1) - 1 = j
    BY <1>1
  <2>2. Contents(a)[j + 1] \in Val
    BY <1>1, <1>2, <2>1, ElementOfSeq
  <2>. QED
    BY <1>2, <2>1, <2>2
<1>. QED
  BY <1>1, <1>2, <1>3

\* A call that leaves the block, the length and the elements of one array within
\* their types keeps the invariant.
LEMMA OneArray ==
    ASSUME ArrayInv, NEW a \in Arrays, NEW cells, NEW length,
           A' = [A EXCEPT ![a] = cells],
           curr_length' = [curr_length EXCEPT ![a] = length],
           cells \in [Cells -> Val \cup {0, Junk}],
           length \in 0 .. Size,
           \A j \in 0 .. length - 1 : cells[j] \in Val
    PROVE  ArrayInv'
<1>1. /\ A' \in [Arrays -> [Cells -> Val \cup {0, Junk}]]
      /\ curr_length' \in [Arrays -> 0 .. Size]
  BY DEF ArrayInv
<1>2. ASSUME NEW b \in Arrays PROVE Contents(b)' \in Seq(Val)
  <2>1. CASE b # a
    <3>1. Contents(b)' = Contents(b)
      BY <2>1 DEF Contents, ArrayInv
    <3>. QED
      BY <3>1 DEF ArrayInv
  <2>2. CASE b = a
    <3>1. A'[b] = cells /\ curr_length'[b] = length
      BY <2>2 DEF ArrayInv
    <3>2. Contents(b)' = [j \in 1 .. length |-> cells[j - 1]]
      BY <3>1 DEF Contents
    <3>3. \A j \in 1 .. length : cells[j - 1] \in Val
      OBVIOUS
    <3>. QED
      BY <3>2, <3>3
  <2>. QED
    BY <2>1, <2>2
<1>. QED
  BY <1>1, <1>2 DEF ArrayInv

\* ... and every call keeps it.
LEMMA ArrayStep == ArrayInv /\ [Next]_vars => ArrayInv'
<1>. SUFFICES ASSUME ArrayInv, [Next]_vars PROVE ArrayInv'
  OBVIOUS
<1>0. CASE UNCHANGED vars
  BY <1>0 DEF vars, ArrayInv, Contents
<1>. SUFFICES ASSUME NEW a \in Arrays,
                     \/ \E v \in Val : append(a, v)
                     \/ curr_length[a] < Size /\ \E i \in 0 .. Size, v \in Val : insert(a, i, v)
                     \/ \E i \in Cells : del(a, i)
                     \/ \E i \in Cells, v \in Val : set(a, i, v)
                     \/ reverse(a)
                     \/ curr_length[a] > 0 /\ left_shift(a)
              PROVE  ArrayInv'
  BY <1>0 DEF Next
<1>. DEFINE n == curr_length[a]
            block == A[a]
<1>1. /\ n \in 0 .. Size /\ Size \in Nat
      /\ block \in [Cells -> Val \cup {0, Junk}]
      /\ \A j \in 0 .. n - 1 : block[j] \in Val
      /\ A = [A EXCEPT ![a] = block] /\ curr_length = [curr_length EXCEPT ![a] = n]
  BY ArrayAssumption, ContentsIs DEF ArrayInv
<1>. HIDE DEF n, block
<1>2. ASSUME NEW v \in Val, append(a, v) PROVE ArrayInv'
  <2>. DEFINE cells == [i \in Cells |-> IF i = n THEN v ELSE block[i]]
  <2>1. n < Size /\ Store(a, cells) /\ Resize(a, n + 1)
    BY <1>2 DEF append, n, block
  <2>2. cells \in [Cells -> Val \cup {0, Junk}] /\ n + 1 \in 0 .. Size
    BY <1>1, <2>1
  <2>3. \A j \in 0 .. (n + 1) - 1 : cells[j] \in Val
    BY <1>1, <2>1 DEF Cells
  <2>. HIDE DEF cells
  <2>. QED
    BY <2>1, <2>2, <2>3, OneArray DEF Store, Resize
<1>3. ASSUME NEW idx \in 0 .. Size, NEW v \in Val, n < Size, insert(a, idx, v) PROVE ArrayInv'
  <2>. DEFINE cells == [i \in Cells |-> IF i = idx THEN v
                                       ELSE IF i \in idx + 1 .. n THEN block[i - 1]
                                       ELSE block[i]]
  <2>1. idx \in 0 .. n /\ Store(a, cells) /\ Resize(a, n + 1)
    BY <1>3 DEF insert, n, block
  <2>2. cells \in [Cells -> Val \cup {0, Junk}] /\ n + 1 \in 0 .. Size
    BY <1>1, <1>3, <2>1 DEF Cells
  <2>3. \A j \in 0 .. (n + 1) - 1 : cells[j] \in Val
    BY <1>1, <1>3, <2>1 DEF Cells
  <2>. HIDE DEF cells
  <2>. QED
    BY <2>1, <2>2, <2>3, OneArray DEF Store, Resize
<1>4. ASSUME NEW idx \in Cells, del(a, idx) PROVE ArrayInv'
  <2>. DEFINE cells == [i \in Cells |-> IF i \in idx .. n - 2 THEN block[i + 1]
                                       ELSE IF i = n - 1 /\ idx < i THEN 0
                                       ELSE block[i]]
  <2>1. idx \in 0 .. n - 1 /\ Store(a, cells) /\ Resize(a, n - 1)
    BY <1>4 DEF del, n, block
  <2>2. cells \in [Cells -> Val \cup {0, Junk}] /\ n - 1 \in 0 .. Size
    BY <1>1, <2>1 DEF Cells
  <2>3. \A j \in 0 .. (n - 1) - 1 : cells[j] \in Val
    BY <1>1, <2>1 DEF Cells
  <2>. HIDE DEF cells
  <2>. QED
    BY <2>1, <2>2, <2>3, OneArray DEF Store, Resize
<1>5. ASSUME NEW idx \in Cells, NEW v \in Val, set(a, idx, v) PROVE ArrayInv'
  <2>. DEFINE cells == [block EXCEPT ![idx] = v]
  <2>1. idx \in 0 .. n - 1 /\ Store(a, cells) /\ curr_length' = curr_length
    BY <1>5 DEF set, n, block
  <2>2. cells \in [Cells -> Val \cup {0, Junk}]
    BY <1>1, <2>1
  <2>3. \A j \in 0 .. n - 1 : cells[j] \in Val
    BY <1>1, <2>1 DEF Cells
  <2>. HIDE DEF cells
  <2>. QED
    BY <1>1, <2>1, <2>2, <2>3, OneArray DEF Store
<1>6. ASSUME reverse(a) PROVE ArrayInv'
  <2>. DEFINE cells == [i \in Cells |-> IF i < n THEN block[n - 1 - i] ELSE block[i]]
  <2>1. Store(a, cells) /\ curr_length' = curr_length
    BY <1>6 DEF reverse, n, block
  <2>2. cells \in [Cells -> Val \cup {0, Junk}]
    BY <1>1 DEF Cells
  <2>3. \A j \in 0 .. n - 1 : cells[j] \in Val
    BY <1>1 DEF Cells
  <2>. HIDE DEF cells
  <2>. QED
    BY <1>1, <2>1, <2>2, <2>3, OneArray DEF Store
<1>7. ASSUME n > 0, left_shift(a) PROVE ArrayInv'
  <2>. DEFINE cells == [i \in Cells |-> IF i < n - 1 THEN block[i + 1]
                                       ELSE IF i = n - 1 /\ i > 0 THEN 0
                                       ELSE block[i]]
  <2>1. Store(a, cells) /\ Resize(a, n - 1)
    BY <1>7 DEF left_shift, n, block
  <2>2. cells \in [Cells -> Val \cup {0, Junk}] /\ n - 1 \in 0 .. Size
    BY <1>1, <1>7 DEF Cells
  <2>3. \A j \in 0 .. (n - 1) - 1 : cells[j] \in Val
    BY <1>1 DEF Cells
  <2>. HIDE DEF cells
  <2>. QED
    BY <2>1, <2>2, <2>3, OneArray DEF Store, Resize
<1>. QED
  BY <1>2, <1>3, <1>4, <1>5, <1>6, <1>7 DEF n

\* No call exposes a cell that was never written (array_adt.cpp:33, 43, 58, 171).
THEOREM ArrayInvariant == Spec => []ArrayInv
  BY ArrayInit, ArrayStep, PTL DEF Spec

-----------------------------------------------------------------------------
(* What each call does to the elements.                                    *)

\* The elements after a step that stores cells and a length in a.
LEMMA ContentsAfter ==
    ASSUME ArrayInv, ArrayInv', NEW a \in Arrays, NEW cells, NEW length,
           Store(a, cells), curr_length'[a] = length
    PROVE  /\ length \in 0 .. Size
           /\ Contents(a)' \in Seq(Val)
           /\ Len(Contents(a)') = length
           /\ \A j \in 1 .. length : Contents(a)'[j] = cells[j - 1]
<1>1. A'[a] = cells
  BY DEF ArrayInv, Store
<1>2. length \in 0 .. Size /\ Contents(a)' \in Seq(Val)
  BY DEF ArrayInv
<1>3. Contents(a)' = [j \in 1 .. length |-> cells[j - 1]]
  BY <1>1 DEF Contents
<1>. QED
  BY <1>2, <1>3

\* append puts its element last, insert at its index.
LEMMA PutsIn ==
    ASSUME ArrayInv, ArrayInv', NEW a \in Arrays, NEW v \in Val
    PROVE  /\ append(a, v) => Contents(a)' = Append(Contents(a), v)
           /\ \A i \in 0 .. Size :
                 insert(a, i, v) => Contents(a)' = InsertAt(Contents(a), i + 1, v)
<1>. DEFINE n == curr_length[a]
            s == Contents(a)
            t == Contents(a)'
<1>1. /\ n \in 0 .. Size /\ Size \in Nat /\ s \in Seq(Val) /\ Len(s) = n
      /\ \A j \in 1 .. n : s[j] = A[a][j - 1]
  BY ArrayAssumption, ContentsIs DEF ArrayInv
<1>2. ASSUME append(a, v) PROVE t = Append(s, v)
  <2>. DEFINE cells == [i \in Cells |-> IF i = n THEN v ELSE A[a][i]]
  <2>1. n < Size /\ Store(a, cells) /\ curr_length'[a] = n + 1
    BY <1>2 DEF append, Resize, ArrayInv
  <2>2. t \in Seq(Val) /\ Len(t) = n + 1 /\ \A j \in 1 .. n + 1 : t[j] = cells[j - 1]
    <3>. HIDE DEF cells
    <3>. QED
      BY <2>1, ContentsAfter
  <2>3. \A j \in 1 .. n + 1 : cells[j - 1] = IF j = n + 1 THEN v ELSE s[j]
    BY <1>1, <2>1 DEF Cells
  <2>4. /\ Append(s, v) \in Seq(Val) /\ Len(Append(s, v)) = n + 1
        /\ \A j \in 1 .. n + 1 : Append(s, v)[j] = IF j = n + 1 THEN v ELSE s[j]
    BY <1>1
  <2>. HIDE DEF s, t, cells, n
  <2>. QED
    BY <2>2, <2>3, <2>4, SeqEqual
<1>3. ASSUME NEW idx \in 0 .. Size, insert(a, idx, v)
      PROVE  t = InsertAt(s, idx + 1, v)
  <2>. DEFINE cells == [i \in Cells |-> IF i = idx THEN v
                                       ELSE IF i \in idx + 1 .. n THEN A[a][i - 1]
                                       ELSE A[a][i]]
  <2>1. idx \in 0 .. n /\ Store(a, cells) /\ curr_length'[a] = n + 1
    BY <1>3 DEF insert, Resize, ArrayInv
  <2>2. /\ n + 1 \in 0 .. Size
        /\ t \in Seq(Val) /\ Len(t) = n + 1 /\ \A j \in 1 .. n + 1 : t[j] = cells[j - 1]
    <3>. HIDE DEF cells
    <3>. QED
      BY <2>1, ContentsAfter
  <2>3. \A j \in 1 .. n + 1 :
           cells[j - 1] = IF j < idx + 1 THEN s[j] ELSE IF j = idx + 1 THEN v ELSE s[j - 1]
    BY <1>1, <2>1, <2>2 DEF Cells
  <2>. DEFINE k == idx + 1
  <2>4. /\ s \in Seq(Val) /\ v \in Val /\ k \in 1 .. Len(s) + 1
        /\ t \in Seq(Val) /\ Len(t) = Len(s) + 1
        /\ \A j \in 1 .. Len(s) + 1 :
              t[j] = IF j < k THEN s[j] ELSE IF j = k THEN v ELSE s[j - 1]
    <3>. HIDE DEF s, t, cells
    <3>. QED
      BY <1>1, <2>1, <2>2, <2>3
  <2>. HIDE DEF s, t, k, cells, n
  <2>5. t = InsertAt(s, k, v)
    BY ONLY <2>4, InsertAtEqual
  <2>. QED
    BY <2>5 DEF k
<1>. QED
  BY <1>2, <1>3

\* del takes the element at its index out, left_shift the first one.
LEMMA TakesOut ==
    ASSUME ArrayInv, ArrayInv', NEW a \in Arrays
    PROVE  /\ \A i \in 0 .. Size :
                 del(a, i) => Contents(a)' = RemoveAt(Contents(a), i + 1)
           /\ left_shift(a) => Contents(a)' = Tail(Contents(a))
<1>. DEFINE n == curr_length[a]
            s == Contents(a)
            t == Contents(a)'
<1>1. /\ n \in 0 .. Size /\ Size \in Nat /\ s \in Seq(Val) /\ Len(s) = n
      /\ \A j \in 1 .. n : s[j] = A[a][j - 1]
  BY ArrayAssumption, ContentsIs DEF ArrayInv
<1>2. ASSUME NEW idx \in 0 .. Size, del(a, idx) PROVE t = RemoveAt(s, idx + 1)
  <2>. DEFINE cells == [i \in Cells |-> IF i \in idx .. n - 2 THEN A[a][i + 1]
                                       ELSE IF i = n - 1 /\ idx < i THEN 0
                                       ELSE A[a][i]]
  <2>1. idx \in 0 .. n - 1 /\ Store(a, cells) /\ curr_length'[a] = n - 1
    BY <1>2 DEF del, Resize, ArrayInv
  <2>2. t \in Seq(Val) /\ Len(t) = n - 1 /\ \A j \in 1 .. n - 1 : t[j] = cells[j - 1]
    <3>. HIDE DEF cells
    <3>. QED
      BY <2>1, ContentsAfter
  <2>3. \A j \in 1 .. n - 1 : cells[j - 1] = IF j < idx + 1 THEN s[j] ELSE s[j + 1]
    BY <1>1, <2>1 DEF Cells
  <2>4. /\ RemoveAt(s, idx + 1) \in Seq(Val) /\ Len(RemoveAt(s, idx + 1)) = n - 1
        /\ \A j \in 1 .. n - 1 :
              RemoveAt(s, idx + 1)[j] = IF j < idx + 1 THEN s[j] ELSE s[j + 1]
    <3>1. idx + 1 \in 1 .. Len(s)
      BY <1>1, <2>1
    <3>. HIDE DEF s
    <3>. QED
      BY <1>1, <3>1, RemoveAtIs
  <2>. HIDE DEF s, t, cells, n
  <2>. QED
    BY <2>2, <2>3, <2>4, SeqEqual
<1>3. ASSUME left_shift(a) PROVE t = Tail(s)
  <2>. DEFINE cells == [i \in Cells |-> IF i < n - 1 THEN A[a][i + 1]
                                       ELSE IF i = n - 1 /\ i > 0 THEN 0
                                       ELSE A[a][i]]
  <2>1. Store(a, cells) /\ curr_length'[a] = n - 1
    BY <1>3 DEF left_shift, Resize, ArrayInv
  <2>2. /\ n - 1 \in 0 .. Size
        /\ t \in Seq(Val) /\ Len(t) = n - 1 /\ \A j \in 1 .. n - 1 : t[j] = cells[j - 1]
    <3>. HIDE DEF cells
    <3>. QED
      BY <2>1, ContentsAfter
  <2>3. \A j \in 1 .. n - 1 : cells[j - 1] = s[j + 1]
    BY <1>1, <2>2 DEF Cells
  <2>4. /\ Tail(s) \in Seq(Val) /\ Len(Tail(s)) = n - 1
        /\ \A j \in 1 .. n - 1 : Tail(s)[j] = s[j + 1]
    BY <1>1, <2>2, HeadTailProperties
  <2>. HIDE DEF s, t, cells, n
  <2>. QED
    BY <2>2, <2>3, <2>4, SeqEqual
<1>. QED
  BY <1>2, <1>3

\* reverse turns the elements round.
LEMMA TurnsRound ==
    ASSUME ArrayInv, ArrayInv', NEW a \in Arrays, reverse(a)
    PROVE  Contents(a)' = Reverse(Contents(a))
<1>. DEFINE n == curr_length[a]
            s == Contents(a)
            t == Contents(a)'
            cells == [i \in Cells |-> IF i < n THEN A[a][n - 1 - i] ELSE A[a][i]]
<1>1. /\ n \in 0 .. Size /\ Size \in Nat /\ s \in Seq(Val) /\ Len(s) = n
      /\ \A j \in 1 .. n : s[j] = A[a][j - 1]
  BY ArrayAssumption, ContentsIs DEF ArrayInv
<1>2. Store(a, cells) /\ curr_length'[a] = n
  BY DEF reverse
<1>3. t \in Seq(Val) /\ Len(t) = n /\ \A j \in 1 .. n : t[j] = cells[j - 1]
  <2>. HIDE DEF cells
  <2>. QED
    BY <1>2, ContentsAfter
<1>4. ASSUME NEW j \in 1 .. n PROVE cells[j - 1] = s[n - j + 1]
  <2>1. /\ j - 1 \in Cells /\ j - 1 < n /\ n - j + 1 \in 1 .. n
        /\ n - 1 - (j - 1) = (n - j + 1) - 1
    BY <1>1 DEF Cells
  <2>. HIDE DEF n, s
  <2>. QED
    BY <1>1, <2>1
<1>5. /\ Reverse(s) \in Seq(Val) /\ Len(Reverse(s)) = n
      /\ \A j \in 1 .. n : Reverse(s)[j] = s[n - j + 1]
  <2>. HIDE DEF s, n
  <2>. QED
    BY <1>1, ReverseIs
<1>. HIDE DEF s, t, cells, n
<1>6. \A j \in 1 .. Len(t) : t[j] = Reverse(s)[j]
  BY <1>3, <1>4, <1>5
<1>7. t = Reverse(s)
  BY ONLY <1>3, <1>5, <1>6, SeqEqual
<1>. QED
  BY <1>7 DEF s, t

\* The loops that shift cells do to the elements what the calls promise, at the
\* first, the last and the only cell too (array_adt.cpp:43, 58, 157, 171).
THEOREM CallsAreByPosition == Spec => CallsByPosition
<1>1. ArrayInv /\ ArrayInv' =>
        \A a \in Arrays, i \in 0 .. Size :
          /\ \A v \in Val :
               /\ append(a, v) => Contents(a)' = Append(Contents(a), v)
               /\ insert(a, i, v) => Contents(a)' = InsertAt(Contents(a), i + 1, v)
          /\ del(a, i) => Contents(a)' = RemoveAt(Contents(a), i + 1)
          /\ left_shift(a) => Contents(a)' = Tail(Contents(a))
          /\ reverse(a) => Contents(a)' = Reverse(Contents(a))
  BY PutsIn, TakesOut, TurnsRound
<1>. QED
  BY <1>1, ArrayInvariant, PTL DEF CallsByPosition


-----------------------------------------------------------------------------
(* Loops: what the rounds of a loop make of its variables.                 *)

(* The variables of a loop after k rounds, when g gives a round.           *)
LoopOf(n, x, g) ==
  LET after[k \in 0 .. n] == IF k = 0 THEN x ELSE g[<<k, after[k - 1]>>]
  IN  after

IsLoop(f, n, D, x, g) ==
  /\ f \in [0 .. n -> D] /\ f[0] = x
  /\ \A k \in 1 .. n : f[k] = g[<<k, f[k - 1]>>]

\* There is such a function, if the rounds lead from states in D to states in D.
LEMMA LoopIs ==
    ASSUME NEW n \in Nat, NEW D, NEW x \in D, NEW g,
           \A k \in 1 .. n : \A y \in D : g[<<k, y>>] \in D
    PROVE  IsLoop(LoopOf(n, x, g), n, D, x, g)
<1>. DEFINE Is(f, m) == f \in [0 .. m -> D] /\ f[0] = x
                        /\ \A k \in 1 .. m : f[k] = g[<<k, f[k - 1]>>]
            J == {m \in 0 .. n : \E f : Is(f, m)}
<1>1. 0 \in J
  <2>1. \E f : Is(f, 0)
    <3>. DEFINE f == [k \in 0 .. 0 |-> x]
    <3>1. Is(f, 0)
      OBVIOUS
    <3>. HIDE DEF f, Is
    <3>. QED
      BY <3>1
  <2>. HIDE DEF Is
  <2>. QED
    BY <2>1
<1>2. ASSUME NEW m \in 1 .. n, m - 1 \in J PROVE m \in J
  <2>1. PICK f : Is(f, m - 1)
    BY <1>2
  <2>2. m - 1 \in 0 .. m - 1 /\ f[m - 1] \in D
    BY <2>1
  <2>. DEFINE y == g[<<m, f[m - 1]>>]
              h == [k \in 0 .. m |-> IF k = m THEN y ELSE f[k]]
  <2>3. y \in D
    BY <2>2
  <2>4. \A k \in 0 .. m : k # m => k \in 0 .. m - 1
    OBVIOUS
  <2>5. h \in [0 .. m -> D]
    BY <2>1, <2>3, <2>4
  <2>6. h[0] = x
    BY <2>1
  <2>7. ASSUME NEW k \in 1 .. m PROVE h[k] = g[<<k, h[k - 1]>>]
    <3>1. k - 1 \in 0 .. m /\ k - 1 # m /\ h[k - 1] = f[k - 1]
      OBVIOUS
    <3>2. CASE k = m
      BY <3>1, <3>2
    <3>3. CASE k # m
      <4>1. k \in 1 .. m - 1 /\ h[k] = f[k]
        BY <3>3
      <4>. QED
        BY <2>1, <3>1, <4>1
    <3>. QED
      BY <3>2, <3>3
  <2>8. Is(h, m)
    BY <2>5, <2>6, <2>7
  <2>. HIDE DEF Is, h
  <2>. QED
    BY <2>8
<1>. HIDE DEF J, Is
<1>3. n \in J
  BY <1>1, <1>2, InductTo
<1>4. PICK f : Is(f, n)
  BY <1>3 DEF J
<1>5. f \in [0 .. n -> D] /\ f[0] = x /\ \A k \in 1 .. n : f[k] = g[<<k, f[k - 1]>>]
  BY <1>4 DEF Is
<1>. DEFINE Fits(h) == h = [k \in 0 .. n |-> IF k = 0 THEN x ELSE g[<<k, h[k - 1]>>]]
            r == CHOOSE h : Fits(h)
<1>6. Fits(f)
  <2>1. \A k \in 0 .. n : k = 0 \/ k \in 1 .. n
    OBVIOUS
  <2>. QED
    BY <1>5, <2>1
<1>7. Fits(r)
  BY <1>6
<1>8. LoopOf(n, x, g) = r
  BY DEF LoopOf
<1>. HIDE DEF r
<1>9. r[0] = x /\ \A k \in 1 .. n : r[k] = g[<<k, r[k - 1]>>]
  BY <1>7
<1>10. r = [k \in 0 .. n |-> r[k]]
  BY <1>7
<1>. HIDE DEF Fits
<1>. DEFINE K == {k \in 0 .. n : r[k] \in D}
<1>11. 0 \in K
  BY <1>9
<1>12. ASSUME NEW k \in 1 .. n, k - 1 \in K PROVE k \in K
  <2>1. r[k - 1] \in D /\ r[k] = g[<<k, r[k - 1]>>] /\ k \in 0 .. n
    BY <1>9, <1>12
  <2>. HIDE DEF K
  <2>2. r[k] \in D
    BY <2>1
  <2>. QED
    BY <2>1, <2>2 DEF K
<1>. HIDE DEF K
<1>13. \A k \in 0 .. n : k \in K
  BY <1>11, <1>12, InductTo
<1>14. r \in [0 .. n -> D]
  BY <1>10, <1>13 DEF K
<1>. QED
  BY <1>8, <1>9, <1>14 DEF IsLoop

-----------------------------------------------------------------------------
(* binary_search.                                                          *)

SearchStates(s) ==
  {l \in [low : 0 .. Len(s), high : -1 .. Len(s) - 1, found : -1 .. Len(s) - 1] :
     l.low <= l.high + 1}

\* A round leaves the two ends within the array.
LEMMA SearchRoundIs ==
    ASSUME NEW s \in Seq(Int), NEW v \in Int, NEW l \in SearchStates(s)
    PROVE  /\ SearchRound(s, v, l) \in SearchStates(s)
           /\ l.low <= l.high /\ l.found = -1 =>
                \E mid \in l.low .. l.high :
                  SearchRound(s, v, l) =
                    IF s[mid + 1] = v THEN [low |-> l.low, high |-> l.high, found |-> mid]
                    ELSE IF v > s[mid + 1] THEN [low |-> mid + 1, high |-> l.high, found |-> -1]
                    ELSE [low |-> l.low, high |-> mid - 1, found |-> -1]
<1>. DEFINE mid == (l.low + l.high) \div 2
<1>1. /\ l.low \in 0 .. Len(s) /\ l.high \in -1 .. Len(s) - 1 /\ l.found \in -1 .. Len(s) - 1
      /\ l.low <= l.high + 1 /\ Len(s) \in Nat
      /\ l = [low |-> l.low, high |-> l.high, found |-> l.found]
  BY DEF SearchStates
<1>2. CASE ~ (l.low <= l.high /\ l.found = -1)
  <2>1. l.low > l.high \/ l.found # -1
    BY <1>1, <1>2
  <2>2. SearchRound(s, v, l) = l
    BY <2>1 DEF SearchRound
  <2>. QED
    BY <1>2, <2>2
<1>3. CASE l.low <= l.high /\ l.found = -1
  <2>1. mid \in l.low .. l.high
    BY <1>1, <1>3
  <2>2. ~ (l.low > l.high \/ l.found # -1)
    BY <1>1, <1>3
  <2>. DEFINE new == IF s[mid + 1] = v THEN [low |-> l.low, high |-> l.high, found |-> mid]
                     ELSE IF v > s[mid + 1] THEN [low |-> mid + 1, high |-> l.high, found |-> -1]
                     ELSE [low |-> l.low, high |-> mid - 1, found |-> -1]
  <2>3. SearchRound(s, v, l) = IF s[mid + 1] = v THEN [l EXCEPT !.found = mid]
                               ELSE IF v > s[mid + 1] THEN [l EXCEPT !.low = mid + 1]
                               ELSE [l EXCEPT !.high = mid - 1]
    BY <2>2 DEF SearchRound
  <2>. HIDE DEF mid
  <2>4. /\ [l EXCEPT !.found = mid] = [low |-> l.low, high |-> l.high, found |-> mid]
        /\ [l EXCEPT !.low = mid + 1] = [low |-> mid + 1, high |-> l.high, found |-> -1]
        /\ [l EXCEPT !.high = mid - 1] = [low |-> l.low, high |-> mid - 1, found |-> -1]
    BY <1>1, <1>3
  <2>5. SearchRound(s, v, l) = new
    BY <2>3, <2>4
  <2>6. new \in SearchStates(s)
    BY <1>1, <1>3, <2>1 DEF SearchStates
  <2>. QED
    BY <2>1, <2>5, <2>6
<1>. QED
  BY <1>2, <1>3

\* The loop of binary_search, round by round.
LEMMA SearchingIs ==
    ASSUME NEW s \in Seq(Int), NEW v \in Int
    PROVE  /\ \A k \in 0 .. Len(s) : Searching(s, v)[k] \in SearchStates(s)
           /\ Searching(s, v)[0] = [low |-> 0, high |-> Len(s) - 1, found |-> -1]
           /\ \A k \in 1 .. Len(s) : Searching(s, v)[k] = SearchRound(s, v, Searching(s, v)[k - 1])
<1>. DEFINE n == Len(s)
            D == SearchStates(s)
            x == [low |-> 0, high |-> Len(s) - 1, found |-> -1]
            g == [p \in (1 .. n) \X D |-> SearchRound(s, v, p[2])]
            Is(f) == f = [k \in 0 .. n |-> IF k = 0 THEN x ELSE SearchRound(s, v, f[k - 1])]
            r == CHOOSE f : Is(f)
            F == [0 .. n -> D]
            h == LoopOf(n, x, g)
<1>1. n \in Nat /\ x \in D
  BY DEF SearchStates
<1>2. \A k \in 1 .. n : \A y \in D : g[<<k, y>>] = SearchRound(s, v, y) /\ g[<<k, y>>] \in D
  BY SearchRoundIs
<1>3. r = Searching(s, v)
  BY DEF Searching
<1>4. \A k \in 1 .. n : k - 1 \in 0 .. n
  BY <1>1
<1>. HIDE DEF g, D, x, n, h
<1>5. h \in F /\ h[0] = x /\ \A k \in 1 .. n : h[k] = g[<<k, h[k - 1]>>]
  <2>1. \A k \in 1 .. n : \A y \in D : g[<<k, y>>] \in D
    BY <1>2
  <2>2. IsLoop(h, n, D, x, g)
    BY ONLY <1>1, <2>1, LoopIs DEF h
  <2>. QED
    BY <2>2 DEF IsLoop
<1>6. \A k \in 1 .. n : h[k] = SearchRound(s, v, h[k - 1])
  BY <1>2, <1>4, <1>5
<1>7. Is(h)
  BY <1>5, <1>6
<1>8. Is(r)
  BY <1>7
<1>. HIDE DEF r
<1>9. r[0] = x /\ \A k \in 1 .. n : r[k] = SearchRound(s, v, r[k - 1])
  BY <1>1, <1>8
<1>. DEFINE J == {k \in 0 .. n : r[k] \in D}
<1>10. 0 \in J
  BY <1>1, <1>9
<1>11. ASSUME NEW k \in 1 .. n, k - 1 \in J PROVE k \in J
  BY <1>9, <1>11, SearchRoundIs DEF D
<1>. HIDE DEF J
<1>12. \A k \in 0 .. n : k \in J
  BY <1>1, <1>10, <1>11, InductTo
<1>. QED
  BY <1>3, <1>9, <1>12 DEF J, D, n, x

\* What holds of the loop after k rounds: v is nowhere else than between the ends,
\* which come closer.
SearchInv(s, v, l, k) ==
  /\ l.found # -1 => s[l.found + 1] = v
  /\ l.found = -1 => \A i \in 1 .. Len(s) : s[i] = v => l.low <= i - 1 /\ i - 1 <= l.high
  /\ l.found # -1 \/ l.low > l.high \/ l.high - l.low + 1 <= Len(s) - k

\* A round keeps it.
LEMMA SearchRoundKeeps ==
    ASSUME NEW s \in Seq(Int), NEW v \in Int, NEW l \in SearchStates(s), NEW k \in 1 .. Len(s),
           \A i, j \in 1 .. Len(s) : i <= j => s[i] <= s[j],
           SearchInv(s, v, l, k - 1)
    PROVE  SearchInv(s, v, SearchRound(s, v, l), k)
<1>. DEFINE r == SearchRound(s, v, l)
            n == Len(s)
<1>1. /\ l.low \in 0 .. n /\ l.high \in -1 .. n - 1 /\ l.found \in -1 .. n - 1
      /\ n \in Nat
  BY DEF SearchStates
<1>2. CASE ~ (l.low <= l.high /\ l.found = -1)
  <2>1. l.low > l.high \/ l.found # -1
    BY <1>1, <1>2
  <2>2. r = l
    BY <2>1 DEF SearchRound
  <2>. HIDE DEF r
  <2>. QED
    BY <2>1, <2>2 DEF SearchInv, r
<1>3. CASE l.low <= l.high /\ l.found = -1
  <2>1. PICK mid \in l.low .. l.high :
          r = IF s[mid + 1] = v THEN [low |-> l.low, high |-> l.high, found |-> mid]
              ELSE IF v > s[mid + 1] THEN [low |-> mid + 1, high |-> l.high, found |-> -1]
              ELSE [low |-> l.low, high |-> mid - 1, found |-> -1]
    BY <1>3, SearchRoundIs
  <2>2. mid + 1 \in 1 .. n /\ mid \in 0 .. n - 1
    BY <1>1
  <2>3. PICK p \in 1 .. n : p = mid + 1
    BY <2>2
  <2>4. /\ \A i \in 1 .. n : s[i] = v => l.low <= i - 1 /\ i - 1 <= l.high
        /\ l.high - l.low + 1 <= n - (k - 1)
    BY <1>1, <1>3 DEF SearchInv
  <2>5. s[p] \in Int /\ \A i \in 1 .. n : s[i] \in Int
    OBVIOUS
  <2>9. l.low <= mid /\ mid <= l.high /\ mid \in Int /\ k \in Int /\ p \in Int
    BY <1>1, <2>1
  <2>. HIDE DEF r, n
  <2>6. CASE s[p] = v
    <3>1. r.found = mid /\ mid # -1
      BY <2>1, <2>2, <2>3, <2>6
    <3>. QED
      BY <2>3, <2>6, <3>1 DEF SearchInv, r, n
  <2>7. CASE s[p] # v /\ v > s[p]
    <3>1. r.low = p /\ r.high = l.high /\ r.found = -1
      BY <2>1, <2>3, <2>7
    <3>2. ASSUME NEW i \in 1 .. n, s[i] = v PROVE r.low <= i - 1 /\ i - 1 <= r.high
      <4>1. ~ i <= p
        BY <2>5, <2>7, <3>2 DEF n
      <4>. QED
        BY <2>3, <2>4, <3>1, <3>2, <4>1
    <3>3. r.high - r.low + 1 <= n - k
      BY <1>1, <2>3, <2>4, <2>9, <3>1
    <3>. QED
      BY <3>1, <3>2, <3>3 DEF SearchInv, r, n
  <2>8. CASE s[p] # v /\ ~ v > s[p]
    <3>1. r.low = l.low /\ r.high = mid - 1 /\ r.found = -1
      BY <2>1, <2>3, <2>8
    <3>2. ASSUME NEW i \in 1 .. n, s[i] = v PROVE r.low <= i - 1 /\ i - 1 <= r.high
      <4>1. ~ p <= i
        BY <2>5, <2>8, <3>2 DEF n
      <4>. QED
        BY <2>3, <2>4, <3>1, <3>2, <4>1
    <3>3. r.high - r.low + 1 <= n - k
      <4>1. l.low \in Int /\ l.high \in Int /\ n \in Int
        BY <1>1
      <4>2. mid - 1 - l.low + 1 <= n - k
        BY <2>4, <2>9, <4>1
      <4>. QED
        BY <3>1, <4>2
    <3>. QED
      BY <3>1, <3>2, <3>3 DEF SearchInv, r, n
  <2>. QED
    BY <2>6, <2>7, <2>8
<1>. QED
  BY <1>2, <1>3

\* binary_search of a sorted array returns a cell that has v, or -1 if there is none.
LEMMA SearchFinds ==
    ASSUME NEW s \in Seq(Int), is_sorted(s), NEW v \in Int
    PROVE  /\ binary_search(s, v) \in -1 .. Len(s) - 1
           /\ binary_search(s, v) # -1 => s[binary_search(s, v) + 1] = v
           /\ binary_search(s, v) = -1 => \A i \in 1 .. Len(s) : s[i] # v
<1>. DEFINE n == Len(s)
            r == Searching(s, v)
            J == {k \in 0 .. n : SearchInv(s, v, r[k], k)}
<1>1. \A i, j \in 1 .. Len(s) : i <= j => s[i] <= s[j]
  BY SortedIs DEF is_sorted
<1>2. /\ \A k \in 0 .. n : r[k] \in SearchStates(s)
      /\ r[0] = [low |-> 0, high |-> Len(s) - 1, found |-> -1]
      /\ \A k \in 1 .. n : r[k] = SearchRound(s, v, r[k - 1])
  BY SearchingIs
<1>3. n \in Nat
  OBVIOUS
<1>. HIDE DEF r
<1>4. 0 \in J
  <2>1. r[0].low = 0 /\ r[0].high = n - 1 /\ r[0].found = -1
    BY <1>2
  <2>. QED
    BY <1>3, <2>1 DEF SearchInv
<1>5. ASSUME NEW k \in 1 .. n, k - 1 \in J PROVE k \in J
  <2>1. k - 1 \in 0 .. n /\ k \in 0 .. n
    BY <1>3
  <2>2. SearchInv(s, v, SearchRound(s, v, r[k - 1]), k)
    BY <1>1, <1>2, <1>5, <2>1, SearchRoundKeeps
  <2>. QED
    BY <1>2, <2>1, <2>2
<1>. HIDE DEF J, n
<1>6. n \in J
  <2>1. \A k \in 0 .. n : k \in J
    BY <1>3, <1>4, <1>5, InductTo
  <2>. QED
    BY <1>3, <2>1
<1>7. SearchInv(s, v, r[n], n) /\ r[n] \in SearchStates(s)
  BY <1>2, <1>3, <1>6 DEF J
<1>8. binary_search(s, v) = r[n].found
  BY DEF binary_search, r, n
<1>9. r[n].found \in -1 .. n - 1 /\ r[n].low \in Int /\ r[n].high \in Int
  BY <1>7 DEF SearchStates, n
<1>10. r[n].found = -1 => \A i \in 1 .. n : s[i] # v
  <2>. SUFFICES ASSUME r[n].found = -1, NEW i \in 1 .. n, s[i] = v PROVE FALSE
    OBVIOUS
  <2>. DEFINE low == r[n].low
              high == r[n].high
  <2>1. low > high \/ high - low + 1 <= n - n
    BY <1>7, <1>9 DEF SearchInv, n
  <2>2. low <= i - 1 /\ i - 1 <= high
    BY <1>7 DEF SearchInv, n
  <2>3. low \in Int /\ high \in Int
    BY <1>9
  <2>. HIDE DEF low, high
  <2>. QED
    BY <1>3, <2>1, <2>2, <2>3
<1>. QED
  BY <1>7, <1>8, <1>9, <1>10 DEF SearchInv, n

\* linear_search says "not found" if no cell has v, and only then.
LEMMA LinearFinds ==
    ASSUME NEW s \in Seq(Int), NEW v \in Int
    PROVE  linear_search(s, v) = -1 <=> \A i \in 1 .. Len(s) : s[i] # v
<1>. DEFINE hits == {i \in DOMAIN s : s[i] = v}
<1>1. CASE hits = {}
  BY <1>1 DEF linear_search
<1>2. CASE hits # {}
  <2>1. hits \subseteq Nat
    OBVIOUS
  <2>. DEFINE least == CHOOSE i \in hits : \A j \in hits : i <= j
  <2>2. \E i \in hits : \A j \in hits : i <= j
    <3>. HIDE DEF hits
    <3>. QED
      BY <1>2, <2>1, LeastNat
  <2>3. least \in hits
    BY <2>2
  <2>4. linear_search(s, v) = least - 1
    BY <1>2 DEF linear_search
  <2>. HIDE DEF least
  <2>5. least \in 1 .. Len(s) /\ s[least] = v
    BY <2>3
  <2>6. linear_search(s, v) # -1
    BY <2>4, <2>5
  <2>. QED
    BY <2>5, <2>6
<1>. QED
  BY <1>1, <1>2

-----------------------------------------------------------------------------
(* How often a value is among elements.                                    *)

\* The copies of v among the first i elements of s.
Passed(s, i, v) == Cardinality({p \in 1 .. i : s[p] = v})

\* One more element counts if it is v.
LEMMA PassedMore ==
    ASSUME NEW s, NEW i \in Nat, NEW v, NEW j, j = i + 1
    PROVE  /\ Passed(s, i, v) \in Nat /\ Passed(s, j, v) \in Nat
           /\ s[j] = v => Passed(s, j, v) = Passed(s, i, v) + 1
           /\ s[j] # v => Passed(s, j, v) = Passed(s, i, v)
<1>. DEFINE U == {p \in 1 .. i : s[p] = v}
            W == {p \in 1 .. j : s[p] = v}
<1>1. IsFiniteSet(U) /\ IsFiniteSet(W)
  <2>1. IsFiniteSet(1 .. i) /\ IsFiniteSet(1 .. j) /\ U \subseteq 1 .. i /\ W \subseteq 1 .. j
    BY FS_Interval
  <2>. HIDE DEF U, W
  <2>. QED
    BY <2>1, FS_Subset
<1>2. Cardinality(U) \in Nat /\ Cardinality(W) \in Nat
  BY <1>1, FS_CardinalityType
<1>3. j \notin U
  OBVIOUS
<1>4. s[j] = v => W = U \cup {j}
  OBVIOUS
<1>5. s[j] # v => W = U
  OBVIOUS
<1>. HIDE DEF U, W
<1>6. Cardinality(U \cup {j}) = Cardinality(U) + 1
  BY <1>1, <1>3, FS_AddElement
<1>. QED
  BY <1>2, <1>4, <1>5, <1>6 DEF Passed, U, W

\* Of none there are none.
LEMMA PassedNone == \A s, v : Passed(s, 0, v) = 0
<1>. SUFFICES ASSUME NEW s, NEW v PROVE Passed(s, 0, v) = 0
  OBVIOUS
<1>1. {p \in 1 .. 0 : s[p] = v} = {}
  OBVIOUS
<1>. QED
  BY <1>1, FS_EmptySet DEF Passed

\* Copies counts all elements.
LEMMA CopiesIs ==
    ASSUME NEW s \in Seq(Int), NEW v
    PROVE  Copies(s, v) = Passed(s, Len(s), v) /\ Copies(s, v) \in Nat
<1>1. DOMAIN s = 1 .. Len(s) /\ Len(s) \in Nat
  OBVIOUS
<1>2. Copies(s, v) = Passed(s, Len(s), v)
  BY <1>1 DEF Copies, Passed
<1>3. Passed(s, Len(s), v) \in Nat
  BY <1>1, PassedMore
<1>. QED
  BY <1>2, <1>3

\* Only the elements that are counted matter.
LEMMA PassedSame ==
    ASSUME NEW s, NEW t, NEW i, \A p \in 1 .. i : s[p] = t[p], NEW v
    PROVE  Passed(s, i, v) = Passed(t, i, v)
<1>1. {p \in 1 .. i : s[p] = v} = {p \in 1 .. i : t[p] = v}
  OBVIOUS
<1>. QED
  BY <1>1 DEF Passed

\* What was not yet passed adds to the copies, unless it has none.
LEMMA PassedUpTo ==
    ASSUME NEW s \in Seq(Int), NEW i \in 0 .. Len(s), NEW v
    PROVE  /\ Passed(s, i, v) \in Nat /\ Passed(s, i, v) <= Copies(s, v)
           /\ (\A z \in 1 .. Len(s) : i < z => s[z] # v) => Copies(s, v) = Passed(s, i, v)
<1>. DEFINE U == {p \in 1 .. i : s[p] = v}
            W == {p \in 1 .. Len(s) : s[p] = v}
<1>1. IsFiniteSet(W) /\ U \subseteq W
  <2>1. IsFiniteSet(1 .. Len(s)) /\ W \subseteq 1 .. Len(s) /\ U \subseteq W
    BY FS_Interval
  <2>. HIDE DEF U, W
  <2>. QED
    BY <2>1, FS_Subset
<1>2. (\A z \in 1 .. Len(s) : i < z => s[z] # v) => W = U
  OBVIOUS
<1>. HIDE DEF U, W
<1>3. Cardinality(U) <= Cardinality(W)
  BY <1>1, FS_Subset
<1>4. Passed(s, i, v) = Cardinality(U) /\ Copies(s, v) = Cardinality(W)
  BY CopiesIs DEF Passed, U, W
<1>5. i \in Nat
  OBVIOUS
<1>6. Passed(s, i, v) \in Nat
  BY <1>5, PassedMore
<1>. QED
  BY <1>2, <1>3, <1>4, <1>6

\* An element that is appended is one more copy of itself.
LEMMA CopiesAppended ==
    ASSUME NEW a \in Seq(Int), NEW x \in Int, NEW v
    PROVE  /\ Append(a, x) \in Seq(Int)
           /\ x = v => Copies(Append(a, x), v) = Copies(a, v) + 1
           /\ x # v => Copies(Append(a, x), v) = Copies(a, v)
<1>. DEFINE b == Append(a, x)
            n == Len(a)
            m == n + 1
<1>1. /\ b \in Seq(Int) /\ Len(b) = m /\ n \in Nat
      /\ \A p \in 1 .. n : b[p] = a[p]
      /\ b[m] = x
  OBVIOUS
<1>. HIDE DEF b, n
<1>2. Passed(b, n, v) = Passed(a, n, v)
  BY <1>1, PassedSame
<1>3. Copies(a, v) = Passed(a, n, v)
  BY CopiesIs DEF n
<1>4. Copies(b, v) = Passed(b, m, v)
  BY <1>1, CopiesIs
<1>. HIDE DEF m
<1>5. m = n + 1
  BY DEF m
<1>6. /\ b[m] = v => Passed(b, m, v) = Passed(b, n, v) + 1
      /\ b[m] # v => Passed(b, m, v) = Passed(b, n, v)
  BY ONLY <1>1, <1>5, PassedMore
<1>7. /\ x = v => Copies(b, v) = Copies(a, v) + 1
      /\ x # v => Copies(b, v) = Copies(a, v)
  BY ONLY <1>1, <1>2, <1>3, <1>4, <1>6
<1>. QED
  BY <1>1, <1>7 DEF b

\* c has what was not passed of s in addition to a.
GrowsBy(c, a, s, i, v) == Copies(c, v) = Copies(a, v) + (Copies(s, v) - Passed(s, i, v))

\* The rest of an array that is appended brings the copies that were not passed.
LEMMA CopiesWithRest ==
    ASSUME NEW a \in Seq(Int), NEW s \in Seq(Int), NEW i \in 0 .. Len(s), NEW v,
           NEW c, c = a \o SubSeq(s, i + 1, Len(s))
    PROVE  GrowsBy(c, a, s, i, v)
<1>. DEFINE n == Len(a)
            m == Len(s) - i
<1>1. /\ c \in Seq(Int) /\ Len(c) = n + m /\ n \in Nat /\ m \in Nat /\ i \in Nat
      /\ \A p \in 1 .. n : c[p] = a[p]
      /\ \A p \in 1 .. m : c[n + p] = s[i + p]
  <2>. DEFINE u == SubSeq(s, i + 1, Len(s))
  <2>1. u \in Seq(Int) /\ Len(u) = m /\ \A p \in 1 .. m : u[p] = s[i + p]
    OBVIOUS
  <2>2. n \in Nat /\ m \in Nat /\ i \in Nat
    OBVIOUS
  <2>. HIDE DEF u, m
  <2>3. c = a \o u
    BY DEF u
  <2>4. /\ c \in Seq(Int) /\ Len(c) = Len(a) + Len(u)
        /\ \A p \in 1 .. Len(a) + Len(u) : c[p] = IF p <= Len(a) THEN a[p] ELSE u[p - Len(a)]
    BY ONLY <2>1, <2>3, a \in Seq(Int), ConcatProperties
  <2>. HIDE DEF n
  <2>5. /\ c \in Seq(Int) /\ Len(c) = n + m
        /\ \A p \in 1 .. n + m : c[p] = IF p <= n THEN a[p] ELSE u[p - n]
    BY ONLY <2>1, <2>4 DEF n
  <2>6. \A p \in 1 .. n : c[p] = a[p]
    BY ONLY <2>2, <2>5
  <2>7. ASSUME NEW p \in 1 .. m PROVE c[n + p] = s[i + p]
    <3>1. n + p \in 1 .. n + m /\ ~ n + p <= n /\ (n + p) - n = p
      BY ONLY <2>2, p \in 1 .. m
    <3>. QED
      BY <2>1, <2>5, <3>1
  <2>. QED
    BY <2>2, <2>5, <2>6, <2>7
<1>2. Len(s) = i + m
  OBVIOUS
<1>. HIDE DEF n, m
<1>. DEFINE J == {k \in 0 .. m : Passed(c, n + k, v) = Passed(a, n, v) + (Passed(s, i + k, v) - Passed(s, i, v))}
<1>3. 0 \in J
  <2>1. Passed(c, n, v) = Passed(a, n, v)
    BY ONLY <1>1, PassedSame
  <2>2. Passed(a, n, v) \in Nat /\ Passed(s, i, v) \in Nat
    BY <1>1, PassedMore
  <2>3. n + 0 = n /\ i + 0 = i /\ 0 \in 0 .. m
    BY <1>1
  <2>. QED
    BY <2>1, <2>2, <2>3
<1>4. ASSUME NEW k \in 1 .. m, k - 1 \in J PROVE k \in J
  <2>1. PICK x \in Nat : x = n + (k - 1)
    BY <1>1
  <2>2. PICK y \in Nat : y = i + (k - 1)
    BY <1>1
  <2>3. PICK x1 \in Nat : x1 = n + k
    BY <1>1
  <2>4. PICK y1 \in Nat : y1 = i + k
    BY <1>1
  <2>5. x1 = x + 1 /\ y1 = y + 1 /\ c[x1] = s[y1]
    BY <1>1, <2>1, <2>2, <2>3, <2>4
  <2>6. Passed(c, x, v) = Passed(a, n, v) + (Passed(s, y, v) - Passed(s, i, v))
    BY <1>4, <2>1, <2>2
  <2>7. /\ Passed(c, x, v) \in Nat
        /\ c[x1] = v => Passed(c, x1, v) = Passed(c, x, v) + 1
        /\ c[x1] # v => Passed(c, x1, v) = Passed(c, x, v)
    BY ONLY <2>5, x \in Nat, y \in Nat, PassedMore
  <2>8. /\ Passed(s, y, v) \in Nat
        /\ s[y1] = v => Passed(s, y1, v) = Passed(s, y, v) + 1
        /\ s[y1] # v => Passed(s, y1, v) = Passed(s, y, v)
    BY ONLY <2>5, x \in Nat, y \in Nat, PassedMore
  <2>9. Passed(a, n, v) \in Nat /\ Passed(s, i, v) \in Nat
    BY <1>1, PassedMore
  <2>10. Passed(c, x1, v) = Passed(a, n, v) + (Passed(s, y1, v) - Passed(s, i, v))
    BY ONLY <2>5, <2>6, <2>7, <2>8, <2>9
  <2>11. k \in 0 .. m
    BY <1>1
  <2>. QED
    BY <2>3, <2>4, <2>10, <2>11
<1>. HIDE DEF J
<1>5. m \in J
  <2>1. \A k \in 0 .. m : k \in J
    BY <1>1, <1>3, <1>4, InductTo
  <2>. QED
    BY <1>1, <2>1
<1>6. Passed(c, n + m, v) = Passed(a, n, v) + (Passed(s, i + m, v) - Passed(s, i, v))
  BY <1>5 DEF J
<1>7. Copies(c, v) = Passed(c, n + m, v) /\ Copies(s, v) = Passed(s, i + m, v)
  BY <1>1, <1>2, CopiesIs
<1>8. Copies(a, v) = Passed(a, n, v)
  BY CopiesIs DEF n
<1>. QED
  BY <1>6, <1>7, <1>8 DEF GrowsBy

-----------------------------------------------------------------------------
(* merge, array_union and array_intersect: what is in the new array is in  *)
(* order and before everything that was not passed yet.                    *)

Ascending(s) == \A p, z \in 1 .. Len(s) : p <= z => s[p] <= s[z]

Ordered(a, s, i, t, j) ==
  /\ a \in Seq(Int) /\ Ascending(a) /\ i \in 0 .. Len(s) /\ j \in 0 .. Len(t)
  /\ \A p \in 1 .. Len(a), z \in 1 .. Len(s) : i < z => a[p] <= s[z]
  /\ \A p \in 1 .. Len(a), z \in 1 .. Len(t) : j < z => a[p] <= t[z]

\* The arrays may change places.
LEMMA OrderedTurned ==
    ASSUME NEW a, NEW s, NEW i, NEW t, NEW j, Ordered(a, s, i, t, j)
    PROVE  Ordered(a, t, j, s, i)
  BY DEF Ordered

\* The smaller of the next two elements may be appended.
LEMMA OrderedTaken ==
    ASSUME NEW s \in Seq(Int), NEW t \in Seq(Int), Ascending(s), Ascending(t),
           NEW a, NEW i, NEW j, Ordered(a, s, i, t, j), i < Len(s), j < Len(t),
           NEW h, h = i + 1, NEW g, g = j + 1, s[h] <= t[g],
           NEW b, b = Append(a, s[h])
    PROVE  Ordered(b, s, h, t, j)
<1>. DEFINE n == Len(a)
            x == s[h]
<1>1. /\ i \in Nat /\ j \in Nat /\ h \in 1 .. Len(s) /\ g \in 1 .. Len(t) /\ x \in Int
      /\ a \in Seq(Int) /\ n \in Nat /\ Len(s) \in Nat /\ Len(t) \in Nat
  BY DEF Ordered
<1>2. /\ b \in Seq(Int) /\ Len(b) = n + 1
      /\ \A p \in 1 .. n : b[p] = a[p]
      /\ b[n + 1] = x
  BY <1>1
<1>3. \A p \in 1 .. n : a[p] \in Int /\ a[p] <= x
  <2>1. i < h
    BY <1>1
  <2>. QED
    BY <1>1, <2>1 DEF Ordered
<1>4. \A z \in 1 .. Len(s) : s[z] \in Int /\ (h < z => x <= s[z])
  BY <1>1 DEF Ascending
<1>5. \A z \in 1 .. Len(t) : t[z] \in Int /\ (j < z => x <= t[z])
  <2>. SUFFICES ASSUME NEW z \in 1 .. Len(t), j < z PROVE x <= t[z]
    OBVIOUS
  <2>1. g <= z
    BY <1>1
  <2>2. t[g] <= t[z] /\ t[g] \in Int /\ t[z] \in Int
    BY <1>1, <2>1 DEF Ascending
  <2>. QED
    BY <1>1, <2>2
<1>. HIDE DEF n, x
<1>6. \A p \in 1 .. n + 1 : p \in 1 .. n \/ p = n + 1
  BY <1>1
<1>7. \A p \in 1 .. n + 1 : b[p] \in Int /\ b[p] <= x
  <2>. SUFFICES ASSUME NEW p \in 1 .. n + 1 PROVE b[p] \in Int /\ b[p] <= x
    OBVIOUS
  <2>1. x \in Int
    BY <1>1
  <2>2. CASE p \in 1 .. n
    BY <1>2, <1>3, <2>2
  <2>3. CASE p = n + 1
    BY <1>2, <2>1, <2>3
  <2>. QED
    BY <1>6, <2>2, <2>3
<1>8. Ascending(b)
  <2>. SUFFICES ASSUME NEW p \in 1 .. n + 1, NEW z \in 1 .. n + 1, p <= z PROVE b[p] <= b[z]
    BY <1>2 DEF Ascending
  <2>1. CASE z = n + 1
    BY <1>2, <1>7, <2>1
  <2>2. CASE z \in 1 .. n
    <3>1. p \in 1 .. n
      BY <1>1, <2>2
    <3>2. a[p] <= a[z]
      BY <2>2, <3>1 DEF Ordered, Ascending, n
    <3>. QED
      BY <1>2, <2>2, <3>1, <3>2
  <2>. QED
    BY <1>6, <2>1, <2>2
<1>9. ASSUME NEW p \in 1 .. n + 1, NEW z \in 1 .. Len(s), h < z PROVE b[p] <= s[z]
  <2>1. x \in Int
    BY <1>1
  <2>2. b[p] \in Int /\ b[p] <= x
    BY <1>7
  <2>3. s[z] \in Int /\ x <= s[z]
    BY <1>4, <1>9
  <2>. QED
    BY ONLY <2>1, <2>2, <2>3
<1>10. ASSUME NEW p \in 1 .. n + 1, NEW z \in 1 .. Len(t), j < z PROVE b[p] <= t[z]
  <2>1. x \in Int
    BY <1>1
  <2>2. b[p] \in Int /\ b[p] <= x
    BY <1>7
  <2>3. t[z] \in Int /\ x <= t[z]
    BY <1>5, <1>10
  <2>. QED
    BY ONLY <2>1, <2>2, <2>3
<1>11. h \in 0 .. Len(s) /\ j \in 0 .. Len(t)
  BY <1>1 DEF Ordered
<1>. QED
  BY <1>2, <1>8, <1>9, <1>10, <1>11 DEF Ordered

\* An element may be passed without being appended.
LEMMA OrderedPassed ==
    ASSUME NEW s \in Seq(Int), NEW t \in Seq(Int), NEW a, NEW i, NEW j, Ordered(a, s, i, t, j),
           i < Len(s), NEW h, h = i + 1
    PROVE  Ordered(a, s, h, t, j)
<1>1. i \in Nat /\ h \in 0 .. Len(s) /\ \A z \in 1 .. Len(s) : h < z => i < z
  BY DEF Ordered
<1>. QED
  BY <1>1 DEF Ordered

\* The rest of an array may be appended when the other array was passed.
LEMMA OrderedWithRest ==
    ASSUME NEW s \in Seq(Int), NEW t, Ascending(s),
           NEW a, NEW i, NEW j, Ordered(a, s, i, t, j),
           NEW c, c = a \o SubSeq(s, i + 1, Len(s))
    PROVE  c \in Seq(Int) /\ Ascending(c)
<1>. DEFINE n == Len(a)
            m == Len(s) - i
            u == SubSeq(s, i + 1, Len(s))
<1>1. /\ a \in Seq(Int) /\ n \in Nat /\ m \in Nat /\ i \in Nat /\ Len(s) = i + m
      /\ u \in Seq(Int) /\ Len(u) = m /\ \A p \in 1 .. m : u[p] = s[i + p]
  BY DEF Ordered
<1>2. c = a \o u
  OBVIOUS
<1>. HIDE DEF u
<1>3. /\ c \in Seq(Int) /\ Len(c) = Len(a) + Len(u)
      /\ \A p \in 1 .. Len(a) + Len(u) : c[p] = IF p <= Len(a) THEN a[p] ELSE u[p - Len(a)]
  BY ONLY <1>1, <1>2, ConcatProperties
<1>. HIDE DEF n, m
<1>4. /\ c \in Seq(Int) /\ Len(c) = n + m
      /\ \A p \in 1 .. n + m : c[p] = IF p <= n THEN a[p] ELSE u[p - n]
  BY ONLY <1>1, <1>3 DEF n
<1>5. ASSUME NEW p \in 1 .. n + m, ~ p <= n
      PROVE  \E h \in 1 .. Len(s) : h = i + (p - n) /\ i < h /\ c[p] = s[h]
  <2>1. p - n \in 1 .. m /\ i + (p - n) \in 1 .. i + m /\ i < i + (p - n)
    <3>1. n \in Int /\ m \in Int /\ i \in Int /\ p \in Int /\ p <= n + m /\ n >= 0 /\ i >= 0
      BY <1>1
    <3>. QED
      BY ONLY <1>5, <3>1
  <2>2. PICK h \in 1 .. Len(s) : h = i + (p - n)
    BY <1>1, <2>1
  <2>3. c[p] = s[h]
    BY <1>1, <1>4, <1>5, <2>1, <2>2
  <2>. QED
    BY <2>1, <2>2, <2>3
<1>6. ASSUME NEW p \in 1 .. n + m, NEW z \in 1 .. n + m, p <= z PROVE c[p] <= c[z]
  <2>1. CASE z <= n
    <3>1. p \in 1 .. n /\ z \in 1 .. n
      BY <1>1, <1>6, <2>1
    <3>2. a[p] <= a[z]
      BY <1>6, <3>1 DEF Ordered, Ascending, n
    <3>. QED
      BY <1>4, <3>1, <3>2
  <2>2. CASE ~ z <= n
    <3>1. PICK h \in 1 .. Len(s) : h = i + (z - n) /\ i < h /\ c[z] = s[h]
      BY <1>5, <2>2
    <3>2. CASE p <= n
      <4>1. p \in 1 .. n
        BY <1>1, <3>2
      <4>2. a[p] <= s[h]
        BY <3>1, <4>1 DEF Ordered, n
      <4>. QED
        BY <1>4, <3>1, <3>2, <4>2
    <3>3. CASE ~ p <= n
      <4>1. PICK g \in 1 .. Len(s) : g = i + (p - n) /\ i < g /\ c[p] = s[g]
        BY <1>5, <3>3
      <4>2. g <= h
        BY <1>1, <1>6, <3>1, <4>1
      <4>. QED
        BY <3>1, <4>1, <4>2 DEF Ascending
    <3>. QED
      BY <3>2, <3>3
  <2>. QED
    BY <2>1, <2>2
<1>. QED
  BY <1>4, <1>6 DEF Ascending

\* A value of which fewer copies of s than of t were passed is not in the rest of s.
Behind(s, i, t, j) ==
  \A v \in Int : Passed(s, i, v) < Passed(t, j, v) =>
    \A z \in 1 .. Len(s) : i < z => v < s[z]

\* So it is after the smaller of the next two elements was passed, in both arrays.
LEMMA BehindFirst ==
    ASSUME NEW s \in Seq(Int), NEW t \in Seq(Int), Ascending(t),
           NEW i \in 0 .. Len(s), NEW j \in 0 .. Len(t), i < Len(s), j < Len(t),
           NEW h, h = i + 1, NEW g, g = j + 1, s[h] < t[g],
           Behind(s, i, t, j), Behind(t, j, s, i)
    PROVE  /\ Behind(s, h, t, j) /\ Behind(t, j, s, h)
           /\ Passed(t, j, s[h]) <= Passed(s, i, s[h])
<1>1. i \in Nat /\ j \in Nat /\ h \in 1 .. Len(s) /\ g \in 1 .. Len(t) /\ s[h] \in Int
      /\ t[g] \in Int /\ i < h
  OBVIOUS
<1>2. ASSUME NEW v \in Int, Passed(s, h, v) < Passed(t, j, v), NEW z \in 1 .. Len(s), h < z
      PROVE  v < s[z]
  <2>1. Passed(s, i, v) <= Passed(s, h, v) /\ Passed(s, i, v) \in Nat /\ Passed(s, h, v) \in Nat
    <3>1. /\ Passed(s, i, v) \in Nat
          /\ s[h] = v => Passed(s, h, v) = Passed(s, i, v) + 1
          /\ s[h] # v => Passed(s, h, v) = Passed(s, i, v)
      BY <1>1, PassedMore
    <3>. QED
      BY ONLY <3>1
  <2>2. Passed(t, j, v) \in Nat
    BY <1>1, PassedMore
  <2>3. Passed(s, i, v) < Passed(t, j, v) /\ i < z
    BY <1>1, <1>2, <2>1, <2>2
  <2>. QED
    BY <2>3 DEF Behind
<1>3. ASSUME NEW v \in Int, Passed(t, j, v) < Passed(s, h, v), NEW z \in 1 .. Len(t), j < z
      PROVE  v < t[z]
  <2>1. CASE v = s[h]
    <3>1. g <= z
      BY <1>1, <1>3
    <3>2. t[g] <= t[z] /\ t[z] \in Int
      BY <1>1, <3>1 DEF Ascending
    <3>3. v < t[g]
      BY <2>1
    <3>. QED
      BY ONLY <1>1, <3>2, <3>3, v \in Int
  <2>2. CASE v # s[h]
    <3>1. Passed(s, h, v) = Passed(s, i, v)
      BY <1>1, <2>2, PassedMore
    <3>. QED
      BY <1>3, <3>1 DEF Behind
  <2>. QED
    BY <2>1, <2>2
<1>4. Passed(t, j, s[h]) <= Passed(s, i, s[h])
  <2>1. Passed(t, j, s[h]) \in Nat /\ Passed(s, i, s[h]) \in Nat
    BY <1>1, PassedMore
  <2>2. ASSUME Passed(s, i, s[h]) < Passed(t, j, s[h]) PROVE FALSE
    <3>1. s[h] < s[h]
      BY <1>1, <2>2 DEF Behind
    <3>. QED
      BY <1>1, <3>1
  <2>. QED
    BY <2>1, <2>2
<1>5. Behind(s, h, t, j)
  BY <1>2 DEF Behind
<1>6. Behind(t, j, s, h)
  BY <1>3 DEF Behind
<1>. QED
  BY <1>4, <1>5, <1>6

\* ... and after both were passed, if they are equal.
LEMMA BehindBoth ==
    ASSUME NEW s \in Seq(Int), NEW t \in Seq(Int),
           NEW i \in 0 .. Len(s), NEW j \in 0 .. Len(t), i < Len(s), j < Len(t),
           NEW h, h = i + 1, NEW g, g = j + 1, s[h] = t[g],
           Behind(s, i, t, j)
    PROVE  Behind(s, h, t, g)
<1>1. i \in Nat /\ j \in Nat /\ i < h
  OBVIOUS
<1>2. ASSUME NEW v \in Int, Passed(s, h, v) < Passed(t, g, v), NEW z \in 1 .. Len(s), h < z
      PROVE  v < s[z]
  <2>1. /\ Passed(s, i, v) \in Nat
        /\ s[h] = v => Passed(s, h, v) = Passed(s, i, v) + 1
        /\ s[h] # v => Passed(s, h, v) = Passed(s, i, v)
    BY <1>1, PassedMore
  <2>2. /\ Passed(t, j, v) \in Nat
        /\ t[g] = v => Passed(t, g, v) = Passed(t, j, v) + 1
        /\ t[g] # v => Passed(t, g, v) = Passed(t, j, v)
    BY <1>1, PassedMore
  <2>3. Passed(s, i, v) < Passed(t, j, v)
    BY ONLY <1>2, <2>1, <2>2, s[h] = t[g]
  <2>4. i < z
    BY <1>1, <1>2
  <2>. QED
    BY <2>3, <2>4 DEF Behind
<1>. QED
  BY <1>2 DEF Behind

\* At the start nothing was passed.
LEMMA BehindNone == \A s, t : Behind(s, 0, t, 0)
  BY PassedNone DEF Behind

-----------------------------------------------------------------------------
(* The three loops.                                                        *)

CombineStates(s, t) == [i : 0 .. Len(s), j : 0 .. Len(t), arr3 : Seq(Int)]

MergeSums(a, s, i, t, j) == \A v \in Int : Copies(a, v) = Passed(s, i, v) + Passed(t, j, v)

MergeInv(s, t, l) ==
  Ordered(l.arr3, s, l.i, t, l.j) /\ MergeSums(l.arr3, s, l.i, t, l.j)

\* The arrays may change places.
LEMMA MergeSumsTurned ==
    ASSUME NEW s \in Seq(Int), NEW t \in Seq(Int), NEW i \in 0 .. Len(s), NEW j \in 0 .. Len(t),
           NEW a, MergeSums(a, s, i, t, j)
    PROVE  MergeSums(a, t, j, s, i)
<1>1. ASSUME NEW v \in Int PROVE Copies(a, v) = Passed(t, j, v) + Passed(s, i, v)
  <2>1. Passed(t, j, v) \in Nat /\ Passed(s, i, v) \in Nat
    BY PassedUpTo
  <2>. QED
    BY <2>1 DEF MergeSums
<1>. QED
  BY <1>1 DEF MergeSums

\* An element that is appended from the first array, or from the second, is one more of its copies.
LEMMA MergeTakes ==
    ASSUME NEW s \in Seq(Int), NEW t \in Seq(Int), Ascending(s), Ascending(t),
           NEW a, NEW i, NEW j, Ordered(a, s, i, t, j),
           MergeSums(a, s, i, t, j),
           i < Len(s), j < Len(t),
           NEW h, h = i + 1, NEW g, g = j + 1, s[h] <= t[g],
           NEW b, b = Append(a, s[h])
    PROVE  Ordered(b, s, h, t, j) /\ MergeSums(b, s, h, t, j)
<1>1. Ordered(b, s, h, t, j)
  BY OrderedTaken
<1>2. a \in Seq(Int) /\ i \in Nat /\ j \in Nat /\ s[h] \in Int
  BY DEF Ordered
<1>3. ASSUME NEW v \in Int PROVE Copies(b, v) = Passed(s, h, v) + Passed(t, j, v)
  <2>1. Copies(a, v) = Passed(s, i, v) + Passed(t, j, v)
    BY DEF MergeSums
  <2>2. /\ Passed(s, i, v) \in Nat
        /\ s[h] = v => Passed(s, h, v) = Passed(s, i, v) + 1
        /\ s[h] # v => Passed(s, h, v) = Passed(s, i, v)
    BY <1>2, PassedMore
  <2>3. Passed(t, j, v) \in Nat
    BY <1>2, PassedMore
  <2>4. /\ s[h] = v => Copies(b, v) = Copies(a, v) + 1
        /\ s[h] # v => Copies(b, v) = Copies(a, v)
    BY <1>2, CopiesAppended
  <2>. QED
    BY ONLY <2>1, <2>2, <2>3, <2>4
<1>. QED
  BY <1>1, <1>3 DEF MergeSums

\* What a round does passes an element of one of the arrays.
LEMMA RoundPasses ==
    ASSUME NEW s \in Seq(Int), NEW t \in Seq(Int), NEW l \in CombineStates(s, t), Both(s, t, l)
    PROVE  \A m \in {TakeFirst(s, l), TakeSecond(t, l), TakeOnce(s, l),
                     [l EXCEPT !.i = l.i + 1], [l EXCEPT !.j = l.j + 1]} :
             m \in CombineStates(s, t) /\ m.i + m.j > l.i + l.j
<1>1. /\ l.i \in 0 .. Len(s) /\ l.j \in 0 .. Len(t) /\ l.arr3 \in Seq(Int)
      /\ Len(s) \in Nat /\ Len(t) \in Nat /\ l = [i |-> l.i, j |-> l.j, arr3 |-> l.arr3]
  BY DEF CombineStates
<1>2. l.i < Len(s) /\ l.j < Len(t)
  BY DEF Both
<1>. DEFINE h == l.i + 1
            g == l.j + 1
            a == Append(l.arr3, s[h])
            b == Append(l.arr3, t[g])
<1>3. h \in 1 .. Len(s) /\ g \in 1 .. Len(t)
  BY <1>1, <1>2
<1>4. a \in Seq(Int) /\ b \in Seq(Int)
  <2>1. s[h] \in Int /\ t[g] \in Int
    BY <1>3
  <2>. HIDE DEF h, g
  <2>. QED
    BY <1>1, <2>1
<1>5. h \in 0 .. Len(s) /\ g \in 0 .. Len(t) /\ h + l.j > l.i + l.j /\ l.i + g > l.i + l.j
      /\ h + g > l.i + l.j
  BY <1>1, <1>3
<1>6. /\ TakeFirst(s, l) = [i |-> h, j |-> l.j, arr3 |-> a]
      /\ TakeSecond(t, l) = [i |-> l.i, j |-> g, arr3 |-> b]
      /\ TakeOnce(s, l) = [i |-> h, j |-> g, arr3 |-> a]
  BY DEF TakeFirst, TakeSecond, TakeOnce
<1>. HIDE DEF a, b
<1>7. [l EXCEPT !.i = l.i + 1] = [i |-> h, j |-> l.j, arr3 |-> l.arr3]
  BY <1>1
<1>8. [l EXCEPT !.j = l.j + 1] = [i |-> l.i, j |-> g, arr3 |-> l.arr3]
  <2>. DEFINE y == l.j
  <2>1. l = [i |-> l.i, j |-> y, arr3 |-> l.arr3]
    BY <1>1
  <2>. HIDE DEF y
  <2>2. [l EXCEPT !.j = y + 1] = [i |-> l.i, j |-> y + 1, arr3 |-> l.arr3]
    BY ONLY <2>1
  <2>. QED
    BY ONLY <2>2 DEF y, g
<1>. DEFINE Is(m) == m \in CombineStates(s, t) /\ m.i + m.j > l.i + l.j
<1>. HIDE DEF h, g
<1>9. Is([i |-> h, j |-> l.j, arr3 |-> a]) /\ Is([i |-> h, j |-> l.j, arr3 |-> l.arr3])
  BY <1>1, <1>4, <1>5 DEF CombineStates
<1>10. Is([i |-> l.i, j |-> g, arr3 |-> b]) /\ Is([i |-> l.i, j |-> g, arr3 |-> l.arr3])
  BY <1>1, <1>4, <1>5 DEF CombineStates
<1>11. Is([i |-> h, j |-> g, arr3 |-> a])
  BY <1>4, <1>5 DEF CombineStates
<1>12. /\ Is(TakeFirst(s, l)) /\ Is(TakeSecond(t, l)) /\ Is(TakeOnce(s, l))
       /\ Is([l EXCEPT !.i = l.i + 1]) /\ Is([l EXCEPT !.j = l.j + 1])
  BY ONLY <1>6, <1>7, <1>8, <1>9, <1>10, <1>11
<1>. QED
  BY <1>12

\* A round of merge passes an element of one of the arrays.
LEMMA MergeRoundIs ==
    ASSUME NEW s \in Seq(Int), NEW t \in Seq(Int), NEW l \in CombineStates(s, t)
    PROVE  /\ MergeRound(s, t, l) \in CombineStates(s, t)
           /\ Both(s, t, l) => MergeRound(s, t, l).i + MergeRound(s, t, l).j > l.i + l.j
           /\ ~ Both(s, t, l) => MergeRound(s, t, l) = l
<1>1. CASE ~ Both(s, t, l)
  <2>1. MergeRound(s, t, l) = l
    BY <1>1 DEF MergeRound
  <2>. QED
    BY <1>1, <2>1
<1>2. CASE Both(s, t, l)
  <2>. DEFINE r == MergeRound(s, t, l)
  <2>1. r \in {TakeFirst(s, l), TakeSecond(t, l)}
    BY <1>2 DEF MergeRound
  <2>2. \A m \in {TakeFirst(s, l), TakeSecond(t, l)} : m \in CombineStates(s, t) /\ m.i + m.j > l.i + l.j
    BY <1>2, RoundPasses
  <2>. HIDE DEF r
  <2>3. r \in CombineStates(s, t) /\ r.i + r.j > l.i + l.j
    BY <2>1, <2>2
  <2>. QED
    BY <1>2, <2>3 DEF r
<1>. QED
  BY <1>1, <1>2

\* The loop of merge, round by round.
LEMMA MergingIs ==
    ASSUME NEW s \in Seq(Int), NEW t \in Seq(Int), NEW r, r = Merging(s, t),
           NEW n, n = Len(s) + Len(t)
    PROVE  /\ n \in Nat /\ r[0] = AtStart
           /\ \A k \in 0 .. n : r[k] \in CombineStates(s, t)
           /\ \A k \in 1 .. n : r[k] = MergeRound(s, t, r[k - 1])
<1>. DEFINE m == Len(s) + Len(t)
            D == CombineStates(s, t)
            x == AtStart
            g == [p \in (1 .. m) \X D |-> MergeRound(s, t, p[2])]
            Is(f) == f = [k \in 0 .. m |-> IF k = 0 THEN x ELSE MergeRound(s, t, f[k - 1])]
            u == CHOOSE f : Is(f)
            F == [0 .. m -> D]
            h == LoopOf(m, x, g)
<1>1. m \in Nat /\ x \in D
  BY DEF CombineStates, AtStart
<1>2. \A k \in 1 .. m : \A y \in D : g[<<k, y>>] = MergeRound(s, t, y) /\ g[<<k, y>>] \in D
  BY MergeRoundIs
<1>3. r = u /\ n = m
  BY DEF Merging
<1>4. \A k \in 1 .. m : k - 1 \in 0 .. m
  BY <1>1
<1>. HIDE DEF g, D, x, h, m
<1>5. h \in F /\ h[0] = x /\ \A k \in 1 .. m : h[k] = g[<<k, h[k - 1]>>]
  <2>1. \A k \in 1 .. m : \A y \in D : g[<<k, y>>] \in D
    BY <1>2
  <2>2. IsLoop(h, m, D, x, g)
    BY ONLY <1>1, <2>1, LoopIs DEF h
  <2>. QED
    BY <2>2 DEF IsLoop
<1>6. \A k \in 1 .. m : h[k] = MergeRound(s, t, h[k - 1])
  BY <1>2, <1>4, <1>5
<1>7. Is(h)
  BY <1>5, <1>6
<1>8. Is(u)
  BY <1>7
<1>. HIDE DEF u
<1>9. u[0] = x /\ \A k \in 1 .. m : u[k] = MergeRound(s, t, u[k - 1])
  BY <1>1, <1>8
<1>. DEFINE J == {k \in 0 .. m : u[k] \in D}
<1>10. 0 \in J
  BY <1>1, <1>9
<1>11. ASSUME NEW k \in 1 .. m, k - 1 \in J PROVE k \in J
  BY <1>9, <1>11, MergeRoundIs DEF D
<1>. HIDE DEF J
<1>12. \A k \in 0 .. m : k \in J
  BY <1>1, <1>10, <1>11, InductTo
<1>13. \A k \in 0 .. m : u[k] \in CombineStates(s, t)
  BY <1>12 DEF J, D
<1>. QED
  BY <1>1, <1>3, <1>9, <1>13 DEF x

\* A round of array_union passes an element of one of the arrays.
LEMMA UnionRoundIs ==
    ASSUME NEW s \in Seq(Int), NEW t \in Seq(Int), NEW l \in CombineStates(s, t)
    PROVE  /\ UnionRound(s, t, l) \in CombineStates(s, t)
           /\ Both(s, t, l) => UnionRound(s, t, l).i + UnionRound(s, t, l).j > l.i + l.j
           /\ ~ Both(s, t, l) => UnionRound(s, t, l) = l
<1>1. CASE ~ Both(s, t, l)
  <2>1. UnionRound(s, t, l) = l
    BY <1>1 DEF UnionRound
  <2>. QED
    BY <1>1, <2>1
<1>2. CASE Both(s, t, l)
  <2>. DEFINE r == UnionRound(s, t, l)
  <2>1. r \in {TakeFirst(s, l), TakeSecond(t, l), TakeOnce(s, l)}
    BY <1>2 DEF UnionRound
  <2>2. \A m \in {TakeFirst(s, l), TakeSecond(t, l), TakeOnce(s, l)} : m \in CombineStates(s, t) /\ m.i + m.j > l.i + l.j
    BY <1>2, RoundPasses
  <2>. HIDE DEF r
  <2>3. r \in CombineStates(s, t) /\ r.i + r.j > l.i + l.j
    BY <2>1, <2>2
  <2>. QED
    BY <1>2, <2>3 DEF r
<1>. QED
  BY <1>1, <1>2

\* The loop of array_union, round by round.
LEMMA UnitingIs ==
    ASSUME NEW s \in Seq(Int), NEW t \in Seq(Int), NEW r, r = Uniting(s, t),
           NEW n, n = Len(s) + Len(t)
    PROVE  /\ n \in Nat /\ r[0] = AtStart
           /\ \A k \in 0 .. n : r[k] \in CombineStates(s, t)
           /\ \A k \in 1 .. n : r[k] = UnionRound(s, t, r[k - 1])
<1>. DEFINE m == Len(s) + Len(t)
            D == CombineStates(s, t)
            x == AtStart
            g == [p \in (1 .. m) \X D |-> UnionRound(s, t, p[2])]
            Is(f) == f = [k \in 0 .. m |-> IF k = 0 THEN x ELSE UnionRound(s, t, f[k - 1])]
            u == CHOOSE f : Is(f)
            F == [0 .. m -> D]
            h == LoopOf(m, x, g)
<1>1. m \in Nat /\ x \in D
  BY DEF CombineStates, AtStart
<1>2. \A k \in 1 .. m : \A y \in D : g[<<k, y>>] = UnionRound(s, t, y) /\ g[<<k, y>>] \in D
  BY UnionRoundIs
<1>3. r = u /\ n = m
  BY DEF Uniting
<1>4. \A k \in 1 .. m : k - 1 \in 0 .. m
  BY <1>1
<1>. HIDE DEF g, D, x, h, m
<1>5. h \in F /\ h[0] = x /\ \A k \in 1 .. m : h[k] = g[<<k, h[k - 1]>>]
  <2>1. \A k \in 1 .. m : \A y \in D : g[<<k, y>>] \in D
    BY <1>2
  <2>2. IsLoop(h, m, D, x, g)
    BY ONLY <1>1, <2>1, LoopIs DEF h
  <2>. QED
    BY <2>2 DEF IsLoop
<1>6. \A k \in 1 .. m : h[k] = UnionRound(s, t, h[k - 1])
  BY <1>2, <1>4, <1>5
<1>7. Is(h)
  BY <1>5, <1>6
<1>8. Is(u)
  BY <1>7
<1>. HIDE DEF u
<1>9. u[0] = x /\ \A k \in 1 .. m : u[k] = UnionRound(s, t, u[k - 1])
  BY <1>1, <1>8
<1>. DEFINE J == {k \in 0 .. m : u[k] \in D}
<1>10. 0 \in J
  BY <1>1, <1>9
<1>11. ASSUME NEW k \in 1 .. m, k - 1 \in J PROVE k \in J
  BY <1>9, <1>11, UnionRoundIs DEF D
<1>. HIDE DEF J
<1>12. \A k \in 0 .. m : k \in J
  BY <1>1, <1>10, <1>11, InductTo
<1>13. \A k \in 0 .. m : u[k] \in CombineStates(s, t)
  BY <1>12 DEF J, D
<1>. QED
  BY <1>1, <1>3, <1>9, <1>13 DEF x

\* A round of array_intersect passes an element of one of the arrays.
LEMMA IntersectRoundIs ==
    ASSUME NEW s \in Seq(Int), NEW t \in Seq(Int), NEW l \in CombineStates(s, t)
    PROVE  /\ IntersectRound(s, t, l) \in CombineStates(s, t)
           /\ Both(s, t, l) => IntersectRound(s, t, l).i + IntersectRound(s, t, l).j > l.i + l.j
           /\ ~ Both(s, t, l) => IntersectRound(s, t, l) = l
<1>1. CASE ~ Both(s, t, l)
  <2>1. IntersectRound(s, t, l) = l
    BY <1>1 DEF IntersectRound
  <2>. QED
    BY <1>1, <2>1
<1>2. CASE Both(s, t, l)
  <2>. DEFINE r == IntersectRound(s, t, l)
  <2>1. r \in {[l EXCEPT !.i = l.i + 1], [l EXCEPT !.j = l.j + 1], TakeOnce(s, l)}
    BY <1>2 DEF IntersectRound
  <2>. HIDE DEF r
  <2>2. \A m \in {TakeFirst(s, l), TakeSecond(t, l), TakeOnce(s, l),
                    [l EXCEPT !.i = l.i + 1], [l EXCEPT !.j = l.j + 1]} :
           m \in CombineStates(s, t) /\ m.i + m.j > l.i + l.j
    BY <1>2, RoundPasses
  <2>3. r \in CombineStates(s, t) /\ r.i + r.j > l.i + l.j
    BY <2>1, <2>2
  <2>. QED
    BY <1>2, <2>3 DEF r
<1>. QED
  BY <1>1, <1>2

\* The loop of array_intersect, round by round.
LEMMA IntersectingIs ==
    ASSUME NEW s \in Seq(Int), NEW t \in Seq(Int), NEW r, r = Intersecting(s, t),
           NEW n, n = Len(s) + Len(t)
    PROVE  /\ n \in Nat /\ r[0] = AtStart
           /\ \A k \in 0 .. n : r[k] \in CombineStates(s, t)
           /\ \A k \in 1 .. n : r[k] = IntersectRound(s, t, r[k - 1])
<1>. DEFINE m == Len(s) + Len(t)
            D == CombineStates(s, t)
            x == AtStart
            g == [p \in (1 .. m) \X D |-> IntersectRound(s, t, p[2])]
            Is(f) == f = [k \in 0 .. m |-> IF k = 0 THEN x ELSE IntersectRound(s, t, f[k - 1])]
            u == CHOOSE f : Is(f)
            F == [0 .. m -> D]
            h == LoopOf(m, x, g)
<1>1. m \in Nat /\ x \in D
  BY DEF CombineStates, AtStart
<1>2. \A k \in 1 .. m : \A y \in D : g[<<k, y>>] = IntersectRound(s, t, y) /\ g[<<k, y>>] \in D
  BY IntersectRoundIs
<1>3. r = u /\ n = m
  BY DEF Intersecting
<1>4. \A k \in 1 .. m : k - 1 \in 0 .. m
  BY <1>1
<1>. HIDE DEF g, D, x, h, m
<1>5. h \in F /\ h[0] = x /\ \A k \in 1 .. m : h[k] = g[<<k, h[k - 1]>>]
  <2>1. \A k \in 1 .. m : \A y \in D : g[<<k, y>>] \in D
    BY <1>2
  <2>2. IsLoop(h, m, D, x, g)
    BY ONLY <1>1, <2>1, LoopIs DEF h
  <2>. QED
    BY <2>2 DEF IsLoop
<1>6. \A k \in 1 .. m : h[k] = IntersectRound(s, t, h[k - 1])
  BY <1>2, <1>4, <1>5
<1>7. Is(h)
  BY <1>5, <1>6
<1>8. Is(u)
  BY <1>7
<1>. HIDE DEF u
<1>9. u[0] = x /\ \A k \in 1 .. m : u[k] = IntersectRound(s, t, u[k - 1])
  BY <1>1, <1>8
<1>. DEFINE J == {k \in 0 .. m : u[k] \in D}
<1>10. 0 \in J
  BY <1>1, <1>9
<1>11. ASSUME NEW k \in 1 .. m, k - 1 \in J PROVE k \in J
  BY <1>9, <1>11, IntersectRoundIs DEF D
<1>. HIDE DEF J
<1>12. \A k \in 0 .. m : k \in J
  BY <1>1, <1>10, <1>11, InductTo
<1>13. \A k \in 0 .. m : u[k] \in CombineStates(s, t)
  BY <1>12 DEF J, D
<1>. QED
  BY <1>1, <1>3, <1>9, <1>13 DEF x

\* The loop comes to its end: a round passes an element, and there are n.
LEMMA LoopEnds ==
    ASSUME NEW s \in Seq(Int), NEW t \in Seq(Int), NEW r, NEW n \in Nat, n = Len(s) + Len(t),
           \A k \in 0 .. n : r[k] \in CombineStates(s, t),
           \A k \in 1 .. n : \/ ~ Both(s, t, r[k - 1]) /\ r[k] = r[k - 1]
                             \/ Both(s, t, r[k - 1]) /\ r[k].i + r[k].j > r[k - 1].i + r[k - 1].j
    PROVE  ~ Both(s, t, r[n])
<1>. DEFINE Is(k) == ~ Both(s, t, r[k]) \/ r[k].i + r[k].j >= k
            J == {k \in 0 .. n : Is(k)}
<1>1. \A k \in 0 .. n : r[k].i \in Nat /\ r[k].j \in Nat
  BY DEF CombineStates
<1>2. 0 \in J
  BY <1>1
<1>3. ASSUME NEW k \in 1 .. n, k - 1 \in J PROVE k \in J
  <2>1. PICK h \in 0 .. n : h = k - 1
    OBVIOUS
  <2>2. k \in 0 .. n /\ k = h + 1 /\ h \in J
    BY <1>3, <2>1
  <2>3. \/ ~ Both(s, t, r[h]) /\ r[k] = r[h]
        \/ Both(s, t, r[h]) /\ r[k].i + r[k].j > r[h].i + r[h].j
    BY <2>1
  <2>4. ~ Both(s, t, r[h]) \/ r[h].i + r[h].j >= h
    BY <2>2
  <2>5. CASE ~ Both(s, t, r[h]) /\ r[k] = r[h]
    BY <2>2, <2>5
  <2>6. CASE Both(s, t, r[h]) /\ r[k].i + r[k].j > r[h].i + r[h].j
    <3>1. r[k].i + r[k].j >= k
      BY <1>1, <2>2, <2>4, <2>6
    <3>2. Is(k) /\ k \in 0 .. n
      BY <2>2, <3>1
    <3>. HIDE DEF Is
    <3>. QED
      BY ONLY <3>2
  <2>. QED
    BY <2>3, <2>5, <2>6
<1>. HIDE DEF J
<1>4. \A k \in 0 .. n : k \in J
  BY <1>2, <1>3, InductTo
<1>5. ~ Both(s, t, r[n]) \/ r[n].i + r[n].j >= n
  BY <1>4 DEF J
<1>6. r[n].i \in Nat /\ r[n].j \in Nat /\ Len(s) \in Nat /\ Len(t) \in Nat
  BY <1>1
<1>. QED
  BY <1>5, <1>6 DEF Both

\* What is appended of both arrays behind the loop leaves the new array in order.
LEMMA RestsAre ==
    ASSUME NEW s \in Seq(Int), NEW t \in Seq(Int), Ascending(s), Ascending(t),
           NEW l \in CombineStates(s, t), ~ Both(s, t, l),
           Ordered(l.arr3, s, l.i, t, l.j), NEW c, c = WithRests(s, t, l)
    PROVE  /\ c \in Seq(Int) /\ Ascending(c)
           /\ \A v \in Int : Copies(c, v) = Copies(l.arr3, v) + (Copies(s, v) - Passed(s, l.i, v))
                                            + (Copies(t, v) - Passed(t, l.j, v))
<1>. DEFINE a == l.arr3
            i == l.i
            j == l.j
            u == SubSeq(s, i + 1, Len(s))
            w == SubSeq(t, j + 1, Len(t))
            b == a \o u
<1>1. a \in Seq(Int) /\ i \in 0 .. Len(s) /\ j \in 0 .. Len(t) /\ (i = Len(s) \/ j = Len(t))
  BY DEF CombineStates, Both
<1>2. c = b \o w /\ Ordered(a, s, i, t, j)
  BY DEF WithRests
<1>. HIDE DEF a, i, j
<1>3. b \in Seq(Int) /\ Ascending(b)
  BY <1>2, OrderedWithRest
<1>4. Ordered(a, t, j, s, i)
  BY <1>2, OrderedTurned
<1>5. a \o w \in Seq(Int) /\ Ascending(a \o w)
  BY <1>4, OrderedWithRest
<1>6. c \in Seq(Int) /\ Ascending(c)
  <2>1. CASE j = Len(t)
    <3>1. w = << >>
      BY <2>1
    <3>. HIDE DEF w, b
    <3>2. b \o << >> = b
      BY <1>3
    <3>. QED
      BY <1>2, <1>3, <3>1, <3>2
  <2>2. CASE i = Len(s)
    <3>1. u = << >>
      BY <2>2
    <3>. HIDE DEF u
    <3>2. a \o << >> = a
      BY <1>1
    <3>. QED
      BY <1>2, <1>5, <3>1, <3>2
  <2>. QED
    BY <1>1, <2>1, <2>2
<1>7. ASSUME NEW v \in Int
      PROVE  Copies(c, v) = Copies(a, v) + (Copies(s, v) - Passed(s, i, v))
                            + (Copies(t, v) - Passed(t, j, v))
  <2>0. b = a \o SubSeq(s, i + 1, Len(s)) /\ c = b \o SubSeq(t, j + 1, Len(t))
    BY <1>2
  <2>. HIDE DEF b
  <2>1. Copies(b, v) = Copies(a, v) + (Copies(s, v) - Passed(s, i, v))
    <3>1. GrowsBy(b, a, s, i, v)
      BY ONLY <1>1, <2>0, s \in Seq(Int), CopiesWithRest
    <3>. QED
      BY ONLY <3>1 DEF GrowsBy
  <2>2. Copies(c, v) = Copies(b, v) + (Copies(t, v) - Passed(t, j, v))
    <3>1. GrowsBy(c, b, t, j, v)
      BY ONLY <1>1, <1>3, <2>0, t \in Seq(Int), CopiesWithRest
    <3>. QED
      BY ONLY <3>1 DEF GrowsBy
  <2>. QED
    BY <2>1, <2>2
<1>. QED
  BY <1>6, <1>7 DEF a, i, j

\* Ascending is what is_sorted tests of neighbours.
LEMMA SortedAscends ==
    ASSUME NEW s \in Seq(Int)
    PROVE  is_sorted(s) <=> Ascending(s)
<1>1. ASSUME is_sorted(s) PROVE Ascending(s)
  BY <1>1, SortedIs DEF is_sorted, Ascending
<1>2. ASSUME Ascending(s), NEW i \in 1 .. Len(s) - 1 PROVE s[i] <= s[i + 1]
  <2>1. i \in 1 .. Len(s) /\ i + 1 \in 1 .. Len(s) /\ i <= i + 1
    OBVIOUS
  <2>. QED
    BY <1>2, <2>1 DEF Ascending
<1>. QED
  BY <1>1, <1>2 DEF is_sorted

\* A round of merge keeps its invariant.
LEMMA MergeRoundKeeps ==
    ASSUME NEW s \in Seq(Int), NEW t \in Seq(Int), Ascending(s), Ascending(t),
           NEW l \in CombineStates(s, t), MergeInv(s, t, l)
    PROVE  MergeInv(s, t, MergeRound(s, t, l))
<1>. DEFINE r == MergeRound(s, t, l)
            a == l.arr3
            i == l.i
            j == l.j
            h == i + 1
            g == j + 1
<1>1. CASE ~ Both(s, t, l)
  <2>1. r = l
    BY <1>1 DEF MergeRound
  <2>. HIDE DEF r
  <2>. QED
    BY <2>1 DEF r
<1>2. CASE Both(s, t, l)
  <2>1. /\ i \in 0 .. Len(s) /\ j \in 0 .. Len(t) /\ i < Len(s) /\ j < Len(t)
        /\ Ordered(a, s, i, t, j)
        /\ MergeSums(a, s, i, t, j)
    BY <1>2 DEF CombineStates, Both, MergeInv
  <2>2. s[h] \in Int /\ t[g] \in Int
    BY <2>1
  <2>3. r = IF s[h] < t[g] THEN [i |-> h, j |-> j, arr3 |-> Append(a, s[h])]
            ELSE [i |-> i, j |-> g, arr3 |-> Append(a, t[g])]
    BY <1>2 DEF MergeRound, TakeFirst, TakeSecond
  <2>4. h = i + 1 /\ g = j + 1
    OBVIOUS
  <2>. HIDE DEF r, a, i, j, h, g
  <2>5. CASE s[h] < t[g]
    <3>1. r.i = h /\ r.j = j /\ r.arr3 = Append(a, s[h])
      BY <2>3, <2>5
    <3>2. s[h] <= t[g]
      BY <2>2, <2>5
    <3>3. Ordered(Append(a, s[h]), s, h, t, j) /\ MergeSums(Append(a, s[h]), s, h, t, j)
      BY <2>1, <2>4, <3>2, MergeTakes
    <3>. QED
      BY <3>1, <3>3 DEF MergeInv, r
  <2>6. CASE ~ s[h] < t[g]
    <3>1. r.i = i /\ r.j = g /\ r.arr3 = Append(a, t[g])
      BY <2>3, <2>6
    <3>2. t[g] <= s[h]
      BY <2>2, <2>6
    <3>3. Ordered(a, t, j, s, i)
      BY <2>1, OrderedTurned
    <3>4. MergeSums(a, t, j, s, i)
      BY <2>1, MergeSumsTurned
    <3>5. Ordered(Append(a, t[g]), t, g, s, i) /\ MergeSums(Append(a, t[g]), t, g, s, i)
      BY <2>1, <2>4, <3>2, <3>3, <3>4, MergeTakes
    <3>6. Ordered(Append(a, t[g]), s, i, t, g)
      BY <3>5, OrderedTurned
    <3>7. MergeSums(Append(a, t[g]), s, i, t, g)
      <4>1. g \in 0 .. Len(t)
        BY <2>1, <2>4
      <4>. QED
        BY <2>1, <3>5, <4>1, MergeSumsTurned
    <3>. QED
      BY <3>1, <3>6, <3>7 DEF MergeInv, r
  <2>. QED
    BY <2>5, <2>6
<1>. QED
  BY <1>1, <1>2

\* merge of two sorted arrays is sorted and keeps every copy of both.
LEMMA MergeIs ==
    ASSUME NEW s \in Seq(Int), NEW t \in Seq(Int), Ascending(s), Ascending(t)
    PROVE  /\ merge(s, t) \in Seq(Int) /\ Ascending(merge(s, t))
           /\ \A v \in Int : Copies(merge(s, t), v) = Copies(s, v) + Copies(t, v)
<1>. DEFINE n == Len(s) + Len(t)
            r == Merging(s, t)
            J == {k \in 0 .. n : MergeInv(s, t, r[k])}
<1>1. /\ n \in Nat /\ r[0] = AtStart
      /\ \A k \in 0 .. n : r[k] \in CombineStates(s, t)
      /\ \A k \in 1 .. n : r[k] = MergeRound(s, t, r[k - 1])
  BY MergingIs
<1>2. n = Len(s) + Len(t) /\ merge(s, t) = WithRests(s, t, r[n])
  BY DEF merge
<1>. HIDE DEF r, n
<1>3. 0 \in J
  <2>1. Ordered(<< >>, s, 0, t, 0)
    BY DEF Ordered, Ascending
  <2>2. \A v \in Int : Copies(<< >>, v) = Passed(s, 0, v) + Passed(t, 0, v)
    <3>. DEFINE e == << >>
    <3>1. e \in Seq(Int) /\ Len(e) = 0
      OBVIOUS
    <3>. HIDE DEF e
    <3>2. \A v \in Int : Copies(e, v) = 0
      BY <3>1, CopiesIs, PassedNone
    <3>. QED
      BY <3>2, PassedNone DEF e
  <2>3. r[0].i = 0 /\ r[0].j = 0 /\ r[0].arr3 = << >>
    BY <1>1 DEF AtStart
  <2>. QED
    BY <1>1, <2>1, <2>2, <2>3 DEF MergeInv, MergeSums
<1>4. ASSUME NEW k \in 1 .. n, k - 1 \in J PROVE k \in J
  BY <1>1, <1>4, MergeRoundKeeps
<1>. HIDE DEF J
<1>5. \A k \in 0 .. n : k \in J
  BY <1>1, <1>3, <1>4, InductTo
<1>6. MergeInv(s, t, r[n]) /\ r[n] \in CombineStates(s, t)
  BY <1>1, <1>5 DEF J
<1>7. ~ Both(s, t, r[n])
  <2>1. ASSUME NEW k \in 1 .. n
        PROVE  \/ ~ Both(s, t, r[k - 1]) /\ r[k] = r[k - 1]
               \/ Both(s, t, r[k - 1]) /\ r[k].i + r[k].j > r[k - 1].i + r[k - 1].j
    <3>1. r[k - 1] \in CombineStates(s, t) /\ r[k] = MergeRound(s, t, r[k - 1])
      BY <1>1
    <3>. QED
      BY <3>1, MergeRoundIs
  <2>. QED
    BY <1>1, <1>2, <2>1, LoopEnds
<1>. DEFINE c == merge(s, t)
            l == r[n]
<1>8. Ordered(l.arr3, s, l.i, t, l.j) /\ c = WithRests(s, t, l)
  BY <1>2, <1>6 DEF MergeInv
<1>9. /\ c \in Seq(Int) /\ Ascending(c)
      /\ \A v \in Int : Copies(c, v) = Copies(l.arr3, v) + (Copies(s, v) - Passed(s, l.i, v))
                                       + (Copies(t, v) - Passed(t, l.j, v))
  BY <1>6, <1>7, <1>8, RestsAre
<1>10. ASSUME NEW v \in Int PROVE Copies(c, v) = Copies(s, v) + Copies(t, v)
  <2>1. Copies(l.arr3, v) = Passed(s, l.i, v) + Passed(t, l.j, v)
    BY <1>6 DEF MergeInv, MergeSums
  <2>2. l.i \in 0 .. Len(s) /\ l.j \in 0 .. Len(t)
    BY <1>6 DEF CombineStates
  <2>3. Passed(s, l.i, v) \in Nat /\ Passed(t, l.j, v) \in Nat
    BY <2>2, PassedUpTo
  <2>4. Copies(s, v) \in Nat /\ Copies(t, v) \in Nat
    BY CopiesIs
  <2>5. Copies(c, v) = Copies(l.arr3, v) + (Copies(s, v) - Passed(s, l.i, v))
                       + (Copies(t, v) - Passed(t, l.j, v))
    BY <1>9
  <2>. QED
    BY ONLY <2>1, <2>3, <2>4, <2>5
<1>. QED
  BY <1>9, <1>10

\* What was passed of both arrays is in step: see Behind.
InStep(s, i, t, j) == Behind(s, i, t, j) /\ Behind(t, j, s, i)

\* a has each value as often as the array of which more copies were passed ...
Larger(a, s, i, t, j) ==
  \A v \in Int : /\ Copies(a, v) >= Passed(s, i, v) /\ Copies(a, v) >= Passed(t, j, v)
                 /\ Copies(a, v) = Passed(s, i, v) \/ Copies(a, v) = Passed(t, j, v)

\* ... or as often as the one of which fewer were.
Smaller(a, s, i, t, j) ==
  \A v \in Int : /\ Copies(a, v) <= Passed(s, i, v) /\ Copies(a, v) <= Passed(t, j, v)
                 /\ Copies(a, v) = Passed(s, i, v) \/ Copies(a, v) = Passed(t, j, v)

\* The arrays may change places.
LEMMA StepTurned ==
    ASSUME NEW a, NEW s, NEW i, NEW t, NEW j
    PROVE  /\ Larger(a, s, i, t, j) => Larger(a, t, j, s, i)
           /\ Smaller(a, s, i, t, j) => Smaller(a, t, j, s, i)
           /\ InStep(s, i, t, j) => InStep(t, j, s, i)
  BY DEF Larger, Smaller, InStep

\* The smaller of the next two elements is passed: array_union appends it,
\* array_intersect does not.
LEMMA PassesOne ==
    ASSUME NEW s \in Seq(Int), NEW t \in Seq(Int), Ascending(s), Ascending(t),
           NEW a, NEW i, NEW j, Ordered(a, s, i, t, j), InStep(s, i, t, j),
           i < Len(s), j < Len(t),
           NEW h, h = i + 1, NEW g, g = j + 1, s[h] < t[g],
           NEW b, b = Append(a, s[h])
    PROVE  /\ Ordered(b, s, h, t, j) /\ Ordered(a, s, h, t, j) /\ InStep(s, h, t, j)
           /\ Larger(a, s, i, t, j) => Larger(b, s, h, t, j)
           /\ Smaller(a, s, i, t, j) => Smaller(a, s, h, t, j)
<1>1. /\ a \in Seq(Int) /\ i \in 0 .. Len(s) /\ j \in 0 .. Len(t) /\ i \in Nat /\ j \in Nat
      /\ s[h] \in Int /\ t[g] \in Int
  BY DEF Ordered
<1>2. Ordered(b, s, h, t, j)
  <2>1. s[h] <= t[g]
    BY <1>1
  <2>. QED
    BY <2>1, OrderedTaken
<1>3. Ordered(a, s, h, t, j)
  BY OrderedPassed
<1>4. /\ Behind(s, h, t, j) /\ Behind(t, j, s, h)
      /\ Passed(t, j, s[h]) <= Passed(s, i, s[h])
  <2>1. Behind(s, i, t, j) /\ Behind(t, j, s, i)
    BY DEF InStep
  <2>. QED
    BY <1>1, <2>1, BehindFirst
<1>5. \A v \in Int :
        /\ Passed(s, i, v) \in Nat
        /\ s[h] = v => Passed(s, h, v) = Passed(s, i, v) + 1
        /\ s[h] # v => Passed(s, h, v) = Passed(s, i, v)
  BY <1>1, PassedMore
<1>6. \A v \in Int : Passed(t, j, v) \in Nat
  BY <1>1, PassedMore
<1>7. \A v \in Int :
        /\ Copies(a, v) \in Nat
        /\ s[h] = v => Copies(b, v) = Copies(a, v) + 1
        /\ s[h] # v => Copies(b, v) = Copies(a, v)
  BY <1>1, CopiesAppended, CopiesIs
<1>8. ASSUME Larger(a, s, i, t, j), NEW v \in Int
      PROVE  /\ Copies(b, v) >= Passed(s, h, v) /\ Copies(b, v) >= Passed(t, j, v)
             /\ Copies(b, v) = Passed(s, h, v) \/ Copies(b, v) = Passed(t, j, v)
  <2>1. /\ Copies(a, v) >= Passed(s, i, v) /\ Copies(a, v) >= Passed(t, j, v)
        /\ Copies(a, v) = Passed(s, i, v) \/ Copies(a, v) = Passed(t, j, v)
    BY <1>8 DEF Larger
  <2>2. CASE s[h] = v
    <3>1. Passed(t, j, v) <= Passed(s, i, v)
      BY <1>4, <2>2
    <3>2. /\ Passed(s, i, v) \in Nat /\ Passed(s, h, v) = Passed(s, i, v) + 1
          /\ Passed(t, j, v) \in Nat
          /\ Copies(a, v) \in Nat /\ Copies(b, v) = Copies(a, v) + 1
      BY <1>5, <1>6, <1>7, <2>2
    <3>. QED
      BY ONLY <2>1, <3>1, <3>2
  <2>3. CASE s[h] # v
    BY <1>5, <1>7, <2>1, <2>3
  <2>. QED
    BY <2>2, <2>3
<1>9. ASSUME Smaller(a, s, i, t, j), NEW v \in Int
      PROVE  /\ Copies(a, v) <= Passed(s, h, v) /\ Copies(a, v) <= Passed(t, j, v)
             /\ Copies(a, v) = Passed(s, h, v) \/ Copies(a, v) = Passed(t, j, v)
  <2>1. /\ Copies(a, v) <= Passed(s, i, v) /\ Copies(a, v) <= Passed(t, j, v)
        /\ Copies(a, v) = Passed(s, i, v) \/ Copies(a, v) = Passed(t, j, v)
    BY <1>9 DEF Smaller
  <2>2. CASE s[h] = v
    <3>1. Passed(t, j, v) <= Passed(s, i, v)
      BY <1>4, <2>2
    <3>2. /\ Passed(s, i, v) \in Nat /\ Passed(s, h, v) = Passed(s, i, v) + 1
          /\ Passed(t, j, v) \in Nat /\ Copies(a, v) \in Nat
      BY <1>5, <1>6, <1>7, <2>2
    <3>. QED
      BY ONLY <2>1, <3>1, <3>2
  <2>3. CASE s[h] # v
    BY <1>5, <2>1, <2>3
  <2>. QED
    BY <2>2, <2>3
<1>. QED
  BY <1>2, <1>3, <1>4, <1>8, <1>9 DEF InStep, Larger, Smaller

\* If the next two elements are equal, one is appended and both are passed.
LEMMA PassesBoth ==
    ASSUME NEW s \in Seq(Int), NEW t \in Seq(Int), Ascending(s), Ascending(t),
           NEW a, NEW i, NEW j, Ordered(a, s, i, t, j), InStep(s, i, t, j),
           i < Len(s), j < Len(t),
           NEW h, h = i + 1, NEW g, g = j + 1, s[h] = t[g],
           NEW b, b = Append(a, s[h])
    PROVE  Ordered(b, s, h, t, g) /\ InStep(s, h, t, g)
<1>1. /\ a \in Seq(Int) /\ i \in 0 .. Len(s) /\ j \in 0 .. Len(t) /\ i \in Nat /\ j \in Nat
      /\ s[h] \in Int /\ t[g] \in Int /\ s[h] <= t[g]
  BY DEF Ordered
<1>2. Ordered(b, s, h, t, g)
  <2>1. Ordered(b, s, h, t, j)
    BY <1>1, OrderedTaken
  <2>2. Ordered(b, t, j, s, h)
    BY <2>1, OrderedTurned
  <2>3. Ordered(b, t, g, s, h)
    BY <1>1, <2>2, OrderedPassed
  <2>. QED
    BY <2>3, OrderedTurned
<1>3. InStep(s, h, t, g)
  <2>1. Behind(s, i, t, j) /\ Behind(t, j, s, i)
    BY DEF InStep
  <2>2. Behind(s, h, t, g)
    BY <1>1, <2>1, BehindBoth
  <2>3. Behind(t, g, s, h)
    BY <1>1, <2>1, BehindBoth
  <2>. QED
    BY <2>2, <2>3 DEF InStep
<1>. QED
  BY <1>2, <1>3

\* The one that is appended counts for both arrays.
LEMMA CountsForBoth ==
    ASSUME NEW s \in Seq(Int), NEW t \in Seq(Int), NEW a, NEW i, NEW j, Ordered(a, s, i, t, j),
           i < Len(s), j < Len(t),
           NEW h, h = i + 1, NEW g, g = j + 1, s[h] = t[g],
           NEW b, b = Append(a, s[h])
    PROVE  /\ Larger(b, s, h, t, g) \/ ~ Larger(a, s, i, t, j)
           /\ Smaller(b, s, h, t, g) \/ ~ Smaller(a, s, i, t, j)
<1>1. /\ a \in Seq(Int) /\ i \in 0 .. Len(s) /\ j \in 0 .. Len(t) /\ i \in Nat /\ j \in Nat
      /\ s[h] \in Int /\ t[g] \in Int
  BY DEF Ordered
<1>2. \A v \in Int :
        /\ Passed(s, i, v) \in Nat
        /\ s[h] = v => Passed(s, h, v) = Passed(s, i, v) + 1
        /\ s[h] # v => Passed(s, h, v) = Passed(s, i, v)
  BY <1>1, PassedMore
<1>3. \A v \in Int :
        /\ Passed(t, j, v) \in Nat
        /\ t[g] = v => Passed(t, g, v) = Passed(t, j, v) + 1
        /\ t[g] # v => Passed(t, g, v) = Passed(t, j, v)
  BY <1>1, PassedMore
<1>4. \A v \in Int :
        /\ Copies(a, v) \in Nat
        /\ s[h] = v => Copies(b, v) = Copies(a, v) + 1
        /\ s[h] # v => Copies(b, v) = Copies(a, v)
  BY <1>1, CopiesAppended, CopiesIs
<1>5. ASSUME NEW v \in Int
      PROVE  \E d \in 0 .. 1 :
               /\ Passed(s, i, v) \in Nat /\ Passed(t, j, v) \in Nat /\ Copies(a, v) \in Nat
               /\ Passed(s, h, v) = Passed(s, i, v) + d
               /\ Passed(t, g, v) = Passed(t, j, v) + d
               /\ Copies(b, v) = Copies(a, v) + d
  <2>1. Passed(s, i, v) \in Nat /\ Passed(t, j, v) \in Nat /\ Copies(a, v) \in Nat
    BY <1>2, <1>3, <1>4
  <2>2. CASE s[h] = v
    <3>1. /\ Passed(s, h, v) = Passed(s, i, v) + 1
          /\ Passed(t, g, v) = Passed(t, j, v) + 1
          /\ Copies(b, v) = Copies(a, v) + 1
      BY <1>1, <1>2, <1>3, <1>4, <2>2
    <3>. QED
      BY ONLY <2>1, <3>1
  <2>3. CASE s[h] # v
    <3>1. /\ Passed(s, h, v) = Passed(s, i, v)
          /\ Passed(t, g, v) = Passed(t, j, v)
          /\ Copies(b, v) = Copies(a, v)
      BY <1>1, <1>2, <1>3, <1>4, <2>3
    <3>. QED
      BY ONLY <2>1, <3>1
  <2>. QED
    BY <2>2, <2>3
<1>6. ASSUME Larger(a, s, i, t, j), NEW v \in Int
      PROVE  /\ Copies(b, v) >= Passed(s, h, v) /\ Copies(b, v) >= Passed(t, g, v)
             /\ Copies(b, v) = Passed(s, h, v) \/ Copies(b, v) = Passed(t, g, v)
  <2>1. /\ Copies(a, v) >= Passed(s, i, v) /\ Copies(a, v) >= Passed(t, j, v)
        /\ Copies(a, v) = Passed(s, i, v) \/ Copies(a, v) = Passed(t, j, v)
    BY <1>6 DEF Larger
  <2>. QED
    BY ONLY <1>5, <2>1, v \in Int
<1>7. ASSUME Smaller(a, s, i, t, j), NEW v \in Int
      PROVE  /\ Copies(b, v) <= Passed(s, h, v) /\ Copies(b, v) <= Passed(t, g, v)
             /\ Copies(b, v) = Passed(s, h, v) \/ Copies(b, v) = Passed(t, g, v)
  <2>1. /\ Copies(a, v) <= Passed(s, i, v) /\ Copies(a, v) <= Passed(t, j, v)
        /\ Copies(a, v) = Passed(s, i, v) \/ Copies(a, v) = Passed(t, j, v)
    BY <1>7 DEF Smaller
  <2>. QED
    BY ONLY <1>5, <2>1, v \in Int
<1>. QED
  BY <1>6, <1>7 DEF Larger, Smaller

\* When the first array was passed, what the second still has it has at least as often.
LEMMA PassedAll ==
    ASSUME NEW s \in Seq(Int), NEW t \in Seq(Int), NEW i \in 0 .. Len(s), NEW j \in 0 .. Len(t),
           InStep(s, i, t, j), NEW v \in Int, i = Len(s)
    PROVE  /\ Copies(s, v) \in Nat /\ Copies(t, v) \in Nat /\ Passed(t, j, v) \in Nat
           /\ Passed(s, i, v) = Copies(s, v)
           /\ Passed(t, j, v) <= Copies(t, v)
           /\ Passed(t, j, v) >= Copies(s, v) \/ Copies(t, v) = Passed(t, j, v)
<1>1. /\ Copies(s, v) \in Nat /\ Copies(t, v) \in Nat /\ Passed(s, i, v) = Copies(s, v)
  BY CopiesIs
<1>2. /\ Passed(t, j, v) \in Nat /\ Passed(t, j, v) <= Copies(t, v)
      /\ (\A z \in 1 .. Len(t) : j < z => t[z] # v) => Copies(t, v) = Passed(t, j, v)
  BY PassedUpTo
<1>3. ASSUME Passed(t, j, v) < Copies(s, v) PROVE Copies(t, v) = Passed(t, j, v)
  <2>1. \A z \in 1 .. Len(t) : j < z => v < t[z]
    BY <1>1, <1>3 DEF InStep, Behind
  <2>2. \A z \in 1 .. Len(t) : j < z => t[z] # v
    BY <2>1
  <2>. QED
    BY <1>2, <2>2
<1>. QED
  BY <1>1, <1>2, <1>3

\* The larger and the smaller of two numbers.
LEMMA MaxOfTwo ==
    ASSUME NEW x \in Int, NEW y \in Int
    PROVE  /\ x >= y => Max({x, y}) = x /\ Min({x, y}) = y
           /\ y >= x => Max({x, y}) = y /\ Min({x, y}) = x
  BY DEF Max, Min

\* There is no copy in an empty array.
LEMMA NoCopies == \A v \in Int : Copies(<< >>, v) = 0
<1>. DEFINE e == << >>
<1>1. e \in Seq(Int) /\ Len(e) = 0
  OBVIOUS
<1>. HIDE DEF e
<1>2. \A v \in Int : Copies(e, v) = 0
  BY <1>1, CopiesIs, PassedNone
<1>. QED
  BY <1>2 DEF e

\* What holds of the variables of array_union after every round.
UnionInv(s, t, l) ==
  /\ Ordered(l.arr3, s, l.i, t, l.j) /\ InStep(s, l.i, t, l.j)
  /\ Larger(l.arr3, s, l.i, t, l.j)

\* A round of array_union keeps it.
LEMMA UnionRoundKeeps ==
    ASSUME NEW s \in Seq(Int), NEW t \in Seq(Int), Ascending(s), Ascending(t),
           NEW l \in CombineStates(s, t), UnionInv(s, t, l)
    PROVE  UnionInv(s, t, UnionRound(s, t, l))
<1>. DEFINE r == UnionRound(s, t, l)
            a == l.arr3
            i == l.i
            j == l.j
            h == i + 1
            g == j + 1
            b == Append(a, s[h])
            c == Append(a, t[g])
            e == Append(a, s[h])
<1>1. CASE ~ Both(s, t, l)
  <2>1. r = l
    BY <1>1 DEF UnionRound
  <2>. HIDE DEF r
  <2>. QED
    BY <2>1 DEF r
<1>2. CASE Both(s, t, l)
  <2>1. /\ i \in 0 .. Len(s) /\ j \in 0 .. Len(t) /\ i < Len(s) /\ j < Len(t)
        /\ Ordered(a, s, i, t, j) /\ InStep(s, i, t, j) /\ Larger(a, s, i, t, j)
    BY <1>2 DEF CombineStates, Both, UnionInv
  <2>2. s[h] \in Int /\ t[g] \in Int
    BY <2>1
  <2>3. r = IF s[h] < t[g] THEN [i |-> h, j |-> j, arr3 |-> b]
            ELSE IF s[h] > t[g] THEN [i |-> i, j |-> g, arr3 |-> c]
            ELSE [i |-> h, j |-> g, arr3 |-> e]
    BY <1>2 DEF UnionRound, TakeFirst, TakeSecond, TakeOnce
  <2>4. h = i + 1 /\ g = j + 1
    OBVIOUS
  <2>5. b = Append(a, s[h]) /\ c = Append(a, t[g]) /\ e = Append(a, s[h])
    OBVIOUS
  <2>. HIDE DEF r, a, i, j, h, g, b, c, e
  <2>6. CASE s[h] < t[g]
    <3>1. r.i = h /\ r.j = j /\ r.arr3 = b
      BY <2>3, <2>6
    <3>2. Ordered(b, s, h, t, j) /\ InStep(s, h, t, j) /\ Larger(b, s, h, t, j)
      BY <2>1, <2>4, <2>5, <2>6, PassesOne
    <3>. QED
      BY <3>1, <3>2 DEF UnionInv, r
  <2>7. CASE s[h] > t[g]
    <3>1. r.i = i /\ r.j = g /\ r.arr3 = c
      BY <2>2, <2>3, <2>7
    <3>2. t[g] < s[h]
      BY <2>2, <2>7
    <3>3. Ordered(a, t, j, s, i) /\ InStep(t, j, s, i) /\ Larger(a, t, j, s, i)
      BY <2>1, OrderedTurned, StepTurned
    <3>4. Ordered(c, t, g, s, i) /\ InStep(t, g, s, i) /\ Larger(c, t, g, s, i)
      BY <2>1, <2>4, <2>5, <3>2, <3>3, PassesOne
    <3>5. Ordered(c, s, i, t, g) /\ InStep(s, i, t, g) /\ Larger(c, s, i, t, g)
      BY <3>4, OrderedTurned, StepTurned
    <3>. QED
      BY <3>1, <3>5 DEF UnionInv, r
  <2>8. CASE ~ s[h] < t[g] /\ ~ s[h] > t[g]
    <3>1. r.i = h /\ r.j = g /\ r.arr3 = e
      BY <2>3, <2>8
    <3>2. s[h] = t[g]
      BY <2>1, <2>2, <2>4, <2>8
    <3>3. Ordered(e, s, h, t, g)
      BY <2>1, <2>4, <2>5, <3>2, PassesBoth
    <3>4. InStep(s, h, t, g)
      BY <2>1, <2>4, <2>5, <3>2, PassesBoth
    <3>5. Larger(e, s, h, t, g)
      BY <2>1, <2>4, <2>5, <3>2, CountsForBoth
    <3>. QED
      BY <3>1, <3>3, <3>4, <3>5 DEF UnionInv, r
  <2>. QED
    BY <2>6, <2>7, <2>8
<1>. QED
  BY <1>1, <1>2

\* The loop of array_union ends with it.
LEMMA UnitingEnds ==
    ASSUME NEW s \in Seq(Int), NEW t \in Seq(Int), Ascending(s), Ascending(t),
           NEW l, l = Uniting(s, t)[Len(s) + Len(t)]
    PROVE  UnionInv(s, t, l) /\ l \in CombineStates(s, t) /\ ~ Both(s, t, l)
<1>. DEFINE n == Len(s) + Len(t)
            r == Uniting(s, t)
            J == {k \in 0 .. n : UnionInv(s, t, r[k])}
<1>1. /\ n \in Nat /\ r[0] = AtStart
      /\ \A k \in 0 .. n : r[k] \in CombineStates(s, t)
      /\ \A k \in 1 .. n : r[k] = UnionRound(s, t, r[k - 1])
  BY UnitingIs
<1>2. n = Len(s) + Len(t) /\ l = r[n]
  OBVIOUS
<1>. HIDE DEF r, n
<1>3. 0 \in J
  <2>1. Ordered(<< >>, s, 0, t, 0)
    BY DEF Ordered, Ascending
  <2>2. InStep(s, 0, t, 0)
    BY BehindNone DEF InStep
  <2>3. Larger(<< >>, s, 0, t, 0)
    BY NoCopies, PassedNone DEF Larger
  <2>4. r[0].i = 0 /\ r[0].j = 0 /\ r[0].arr3 = << >>
    BY <1>1 DEF AtStart
  <2>. QED
    BY <1>1, <2>1, <2>2, <2>3, <2>4 DEF UnionInv
<1>4. ASSUME NEW k \in 1 .. n, k - 1 \in J PROVE k \in J
  BY <1>1, <1>4, UnionRoundKeeps
<1>. HIDE DEF J
<1>5. \A k \in 0 .. n : k \in J
  BY <1>1, <1>3, <1>4, InductTo
<1>6. UnionInv(s, t, r[n]) /\ r[n] \in CombineStates(s, t)
  BY <1>1, <1>5 DEF J
<1>7. ~ Both(s, t, r[n])
  <2>1. ASSUME NEW k \in 1 .. n
        PROVE  \/ ~ Both(s, t, r[k - 1]) /\ r[k] = r[k - 1]
               \/ Both(s, t, r[k - 1]) /\ r[k].i + r[k].j > r[k - 1].i + r[k - 1].j
    <3>1. r[k - 1] \in CombineStates(s, t) /\ r[k] = UnionRound(s, t, r[k - 1])
      BY <1>1
    <3>. QED
      BY <3>1, UnionRoundIs
  <2>. QED
    BY <1>1, <1>2, <2>1, LoopEnds
<1>. QED
  BY <1>2, <1>6, <1>7

\* What holds of the variables of array_intersect after every round.
IntersectInv(s, t, l) ==
  /\ Ordered(l.arr3, s, l.i, t, l.j) /\ InStep(s, l.i, t, l.j)
  /\ Smaller(l.arr3, s, l.i, t, l.j)

\* A round of array_intersect keeps it.
LEMMA IntersectRoundKeeps ==
    ASSUME NEW s \in Seq(Int), NEW t \in Seq(Int), Ascending(s), Ascending(t),
           NEW l \in CombineStates(s, t), IntersectInv(s, t, l)
    PROVE  IntersectInv(s, t, IntersectRound(s, t, l))
<1>. DEFINE r == IntersectRound(s, t, l)
            a == l.arr3
            i == l.i
            j == l.j
            h == i + 1
            g == j + 1
            b == a
            c == a
            e == Append(a, s[h])
<1>1. CASE ~ Both(s, t, l)
  <2>1. r = l
    BY <1>1 DEF IntersectRound
  <2>. HIDE DEF r
  <2>. QED
    BY <2>1 DEF r
<1>2. CASE Both(s, t, l)
  <2>1. /\ i \in 0 .. Len(s) /\ j \in 0 .. Len(t) /\ i < Len(s) /\ j < Len(t)
        /\ Ordered(a, s, i, t, j) /\ InStep(s, i, t, j) /\ Smaller(a, s, i, t, j)
    BY <1>2 DEF CombineStates, Both, IntersectInv
  <2>2. s[h] \in Int /\ t[g] \in Int
    BY <2>1
  <2>3. r = IF s[h] < t[g] THEN [i |-> h, j |-> j, arr3 |-> b]
            ELSE IF s[h] > t[g] THEN [i |-> i, j |-> g, arr3 |-> c]
            ELSE [i |-> h, j |-> g, arr3 |-> e]
    <3>1. l = [i |-> i, j |-> j, arr3 |-> a]
      BY DEF CombineStates
    <3>2. [l EXCEPT !.i = l.i + 1] = [i |-> h, j |-> j, arr3 |-> a]
      BY <3>1
    <3>3. [l EXCEPT !.j = l.j + 1] = [i |-> i, j |-> g, arr3 |-> a]
      <4>. DEFINE y == l.j + 1
      <4>1. [l EXCEPT !.j = y] = [i |-> i, j |-> y, arr3 |-> a]
        <5>. HIDE DEF y, i, j, a
        <5>. QED
          BY ONLY <3>1
      <4>. QED
        BY ONLY <4>1 DEF y, g, j
    <3>4. TakeOnce(s, l) = [i |-> h, j |-> g, arr3 |-> e]
      BY DEF TakeOnce
    <3>5. r = IF s[h] < t[g] THEN [l EXCEPT !.i = l.i + 1]
              ELSE IF s[h] > t[g] THEN [l EXCEPT !.j = l.j + 1]
              ELSE TakeOnce(s, l)
      BY <1>2 DEF IntersectRound
    <3>. HIDE DEF r
    <3>. QED
      BY ONLY <3>2, <3>3, <3>4, <3>5
  <2>4. h = i + 1 /\ g = j + 1
    OBVIOUS
  <2>5. b = a /\ c = a /\ e = Append(a, s[h])
    OBVIOUS
  <2>. HIDE DEF r, a, i, j, h, g, b, c, e
  <2>6. CASE s[h] < t[g]
    <3>1. r.i = h /\ r.j = j /\ r.arr3 = b
      BY <2>3, <2>6
    <3>2. Ordered(b, s, h, t, j) /\ InStep(s, h, t, j) /\ Smaller(b, s, h, t, j)
      BY <2>1, <2>4, <2>5, <2>6, PassesOne
    <3>. QED
      BY <3>1, <3>2 DEF IntersectInv, r
  <2>7. CASE s[h] > t[g]
    <3>1. r.i = i /\ r.j = g /\ r.arr3 = c
      BY <2>2, <2>3, <2>7
    <3>2. t[g] < s[h]
      BY <2>2, <2>7
    <3>3. Ordered(a, t, j, s, i) /\ InStep(t, j, s, i) /\ Smaller(a, t, j, s, i)
      BY <2>1, OrderedTurned, StepTurned
    <3>4. Ordered(c, t, g, s, i) /\ InStep(t, g, s, i) /\ Smaller(c, t, g, s, i)
      BY <2>1, <2>4, <2>5, <3>2, <3>3, PassesOne
    <3>5. Ordered(c, s, i, t, g) /\ InStep(s, i, t, g) /\ Smaller(c, s, i, t, g)
      BY <3>4, OrderedTurned, StepTurned
    <3>. QED
      BY <3>1, <3>5 DEF IntersectInv, r
  <2>8. CASE ~ s[h] < t[g] /\ ~ s[h] > t[g]
    <3>1. r.i = h /\ r.j = g /\ r.arr3 = e
      BY <2>3, <2>8
    <3>2. s[h] = t[g]
      BY <2>1, <2>2, <2>4, <2>8
    <3>3. Ordered(e, s, h, t, g)
      BY <2>1, <2>4, <2>5, <3>2, PassesBoth
    <3>4. InStep(s, h, t, g)
      BY <2>1, <2>4, <2>5, <3>2, PassesBoth
    <3>5. Smaller(e, s, h, t, g)
      BY <2>1, <2>4, <2>5, <3>2, CountsForBoth
    <3>. QED
      BY <3>1, <3>3, <3>4, <3>5 DEF IntersectInv, r
  <2>. QED
    BY <2>6, <2>7, <2>8
<1>. QED
  BY <1>1, <1>2

\* The loop of array_intersect ends with it.
LEMMA IntersectingEnds ==
    ASSUME NEW s \in Seq(Int), NEW t \in Seq(Int), Ascending(s), Ascending(t),
           NEW l, l = Intersecting(s, t)[Len(s) + Len(t)]
    PROVE  IntersectInv(s, t, l) /\ l \in CombineStates(s, t) /\ ~ Both(s, t, l)
<1>. DEFINE n == Len(s) + Len(t)
            r == Intersecting(s, t)
            J == {k \in 0 .. n : IntersectInv(s, t, r[k])}
<1>1. /\ n \in Nat /\ r[0] = AtStart
      /\ \A k \in 0 .. n : r[k] \in CombineStates(s, t)
      /\ \A k \in 1 .. n : r[k] = IntersectRound(s, t, r[k - 1])
  BY IntersectingIs
<1>2. n = Len(s) + Len(t) /\ l = r[n]
  OBVIOUS
<1>. HIDE DEF r, n
<1>3. 0 \in J
  <2>1. Ordered(<< >>, s, 0, t, 0)
    BY DEF Ordered, Ascending
  <2>2. InStep(s, 0, t, 0)
    BY BehindNone DEF InStep
  <2>3. Smaller(<< >>, s, 0, t, 0)
    BY NoCopies, PassedNone DEF Smaller
  <2>4. r[0].i = 0 /\ r[0].j = 0 /\ r[0].arr3 = << >>
    BY <1>1 DEF AtStart
  <2>. QED
    BY <1>1, <2>1, <2>2, <2>3, <2>4 DEF IntersectInv
<1>4. ASSUME NEW k \in 1 .. n, k - 1 \in J PROVE k \in J
  BY <1>1, <1>4, IntersectRoundKeeps
<1>. HIDE DEF J
<1>5. \A k \in 0 .. n : k \in J
  BY <1>1, <1>3, <1>4, InductTo
<1>6. IntersectInv(s, t, r[n]) /\ r[n] \in CombineStates(s, t)
  BY <1>1, <1>5 DEF J
<1>7. ~ Both(s, t, r[n])
  <2>1. ASSUME NEW k \in 1 .. n
        PROVE  \/ ~ Both(s, t, r[k - 1]) /\ r[k] = r[k - 1]
               \/ Both(s, t, r[k - 1]) /\ r[k].i + r[k].j > r[k - 1].i + r[k - 1].j
    <3>1. r[k - 1] \in CombineStates(s, t) /\ r[k] = IntersectRound(s, t, r[k - 1])
      BY <1>1
    <3>. QED
      BY <3>1, IntersectRoundIs
  <2>. QED
    BY <1>1, <1>2, <2>1, LoopEnds
<1>. QED
  BY <1>2, <1>6, <1>7

\* array_union of two sorted arrays is sorted and has every copy of the array
\* that has more of them.
LEMMA UnionIs ==
    ASSUME NEW s \in Seq(Int), NEW t \in Seq(Int), Ascending(s), Ascending(t)
    PROVE  /\ array_union(s, t) \in Seq(Int) /\ Ascending(array_union(s, t))
           /\ \A v \in Int : Copies(array_union(s, t), v) = Max({Copies(s, v), Copies(t, v)})
<1>. DEFINE c == array_union(s, t)
            l == Uniting(s, t)[Len(s) + Len(t)]
<1>1. c = WithRests(s, t, l)
  BY DEF array_union
<1>2. l = Uniting(s, t)[Len(s) + Len(t)]
  OBVIOUS
<1>. HIDE DEF c, l
<1>3. UnionInv(s, t, l) /\ l \in CombineStates(s, t) /\ ~ Both(s, t, l)
  BY <1>2, UnitingEnds
<1>4. Ordered(l.arr3, s, l.i, t, l.j)
  BY <1>3 DEF UnionInv
<1>5. /\ c \in Seq(Int) /\ Ascending(c)
      /\ \A v \in Int : Copies(c, v) = Copies(l.arr3, v) + (Copies(s, v) - Passed(s, l.i, v))
                                       + (Copies(t, v) - Passed(t, l.j, v))
  BY <1>1, <1>3, <1>4, RestsAre
<1>6. ASSUME NEW v \in Int PROVE Copies(c, v) = Max({Copies(s, v), Copies(t, v)})
  <2>. DEFINE a == l.arr3
              i == l.i
              j == l.j
  <2>1. /\ Copies(a, v) >= Passed(s, i, v) /\ Copies(a, v) >= Passed(t, j, v)
        /\ Copies(a, v) = Passed(s, i, v) \/ Copies(a, v) = Passed(t, j, v)
    BY <1>3 DEF UnionInv, Larger
  <2>2. InStep(s, i, t, j) /\ i \in 0 .. Len(s) /\ j \in 0 .. Len(t) /\ (i = Len(s) \/ j = Len(t))
    BY <1>3 DEF UnionInv, CombineStates, Both
  <2>3. Copies(c, v) = Copies(a, v) + (Copies(s, v) - Passed(s, i, v)) + (Copies(t, v) - Passed(t, j, v))
    BY <1>5
  <2>. HIDE DEF a, i, j
  <2>4. /\ Copies(s, v) \in Int /\ Copies(t, v) \in Int
        /\ \/ Copies(c, v) = Copies(s, v) /\ Copies(s, v) >= Copies(t, v)
           \/ Copies(c, v) = Copies(t, v) /\ Copies(t, v) >= Copies(s, v)
    <3>1. CASE i = Len(s)
      <4>1. /\ Copies(s, v) \in Nat /\ Copies(t, v) \in Nat /\ Passed(t, j, v) \in Nat
            /\ Passed(s, i, v) = Copies(s, v)
            /\ Passed(t, j, v) <= Copies(t, v)
            /\ Passed(t, j, v) >= Copies(s, v) \/ Copies(t, v) = Passed(t, j, v)
        BY <2>2, <3>1, PassedAll
      <4>. QED
        BY ONLY <2>1, <2>3, <4>1
    <3>2. CASE j = Len(t)
      <4>0. InStep(t, j, s, i)
        BY <2>2, StepTurned
      <4>1. /\ Copies(t, v) \in Nat /\ Copies(s, v) \in Nat /\ Passed(s, i, v) \in Nat
            /\ Passed(t, j, v) = Copies(t, v)
            /\ Passed(s, i, v) <= Copies(s, v)
            /\ Passed(s, i, v) >= Copies(t, v) \/ Copies(s, v) = Passed(s, i, v)
        BY <2>2, <3>2, <4>0, PassedAll
      <4>. QED
        BY ONLY <2>1, <2>3, <4>1
    <3>. QED
      BY <2>2, <3>1, <3>2
  <2>. QED
    BY <2>4, MaxOfTwo
<1>. QED
  BY <1>5, <1>6 DEF c

\* array_intersect of two sorted arrays is sorted and has every copy of the
\* array that has less of them.
LEMMA IntersectIs ==
    ASSUME NEW s \in Seq(Int), NEW t \in Seq(Int), Ascending(s), Ascending(t)
    PROVE  /\ array_intersect(s, t) \in Seq(Int) /\ Ascending(array_intersect(s, t))
           /\ \A v \in Int : Copies(array_intersect(s, t), v) = Min({Copies(s, v), Copies(t, v)})
<1>. DEFINE c == array_intersect(s, t)
            l == Intersecting(s, t)[Len(s) + Len(t)]
<1>1. c = l.arr3
  BY DEF array_intersect
<1>2. l = Intersecting(s, t)[Len(s) + Len(t)]
  OBVIOUS
<1>. HIDE DEF c, l
<1>3. IntersectInv(s, t, l) /\ l \in CombineStates(s, t) /\ ~ Both(s, t, l)
  BY <1>2, IntersectingEnds
<1>4. c \in Seq(Int) /\ Ascending(c)
  BY <1>1, <1>3 DEF IntersectInv, Ordered
<1>5. ASSUME NEW v \in Int PROVE Copies(c, v) = Min({Copies(s, v), Copies(t, v)})
  <2>. DEFINE i == l.i
              j == l.j
  <2>1. /\ Copies(c, v) <= Passed(s, i, v) /\ Copies(c, v) <= Passed(t, j, v)
        /\ Copies(c, v) = Passed(s, i, v) \/ Copies(c, v) = Passed(t, j, v)
    BY <1>1, <1>3 DEF IntersectInv, Smaller
  <2>2. InStep(s, i, t, j) /\ i \in 0 .. Len(s) /\ j \in 0 .. Len(t) /\ (i = Len(s) \/ j = Len(t))
    BY <1>3 DEF IntersectInv, CombineStates, Both
  <2>. HIDE DEF i, j
  <2>3. /\ Copies(s, v) \in Int /\ Copies(t, v) \in Int
        /\ \/ Copies(c, v) = Copies(s, v) /\ Copies(s, v) <= Copies(t, v)
           \/ Copies(c, v) = Copies(t, v) /\ Copies(t, v) <= Copies(s, v)
    <3>1. CASE i = Len(s)
      <4>1. /\ Copies(s, v) \in Nat /\ Copies(t, v) \in Nat /\ Passed(t, j, v) \in Nat
            /\ Passed(s, i, v) = Copies(s, v)
            /\ Passed(t, j, v) <= Copies(t, v)
            /\ Passed(t, j, v) >= Copies(s, v) \/ Copies(t, v) = Passed(t, j, v)
        BY <2>2, <3>1, PassedAll
      <4>. QED
        BY ONLY <2>1, <4>1
    <3>2. CASE j = Len(t)
      <4>0. InStep(t, j, s, i)
        BY <2>2, StepTurned
      <4>1. /\ Copies(t, v) \in Nat /\ Copies(s, v) \in Nat /\ Passed(s, i, v) \in Nat
            /\ Passed(t, j, v) = Copies(t, v)
            /\ Passed(s, i, v) <= Copies(s, v)
            /\ Passed(s, i, v) >= Copies(t, v) \/ Copies(s, v) = Passed(s, i, v)
        BY <2>2, <3>2, <4>0, PassedAll
      <4>. QED
        BY ONLY <2>1, <4>1
    <3>. QED
      BY <2>2, <3>1, <3>2
  <2>. QED
    BY <2>3, MaxOfTwo
<1>. QED
  BY <1>4, <1>5 DEF c

\* The elements of an array are numbers.
LEMMA ContentsNumbers ==
    ASSUME ArrayInv, NEW a \in Arrays
    PROVE  Contents(a) \in Seq(Int)
<1>1. Contents(a) \in Seq(Val)
  BY ContentsIs
<1>. DEFINE s == Contents(a)
<1>2. s \in Seq(Val)
  BY <1>1
<1>. HIDE DEF s
<1>3. \A j \in 1 .. Len(s) : s[j] \in Val
  BY <1>2, ElementOfSeq
<1>4. \A j \in 1 .. Len(s) : s[j] \in Int
  BY <1>3, ArrayAssumption
<1>5. s \in [1 .. Len(s) -> Val] /\ Len(s) \in Nat
  BY <1>2
<1>6. s \in [1 .. Len(s) -> Int]
  BY ONLY <1>4, <1>5
<1>7. s \in Seq(Int)
  BY ONLY <1>5, <1>6, SeqDef
<1>. QED
  BY <1>7 DEF s

\* On the arrays binary_search finds what there is to find.
LEMMA SearchesFind ==
    ASSUME ArrayInv
    PROVE  BinarySearchFinds
<1>. SUFFICES ASSUME NEW a \in Arrays, NEW v \in Val, NEW s, s = Contents(a),
                     NEW i, i = binary_search(s, v), is_sorted(s)
              PROVE  /\ i = -1 <=> linear_search(s, v) = -1
                     /\ i # -1 => i + 1 \in DOMAIN s /\ s[i + 1] = v
  BY DEF BinarySearchFinds
<1>1. s \in Seq(Int) /\ v \in Int
  BY ArrayAssumption, ContentsNumbers
<1>2. /\ i \in -1 .. Len(s) - 1
      /\ i # -1 => s[i + 1] = v
      /\ i = -1 => \A j \in 1 .. Len(s) : s[j] # v
  BY <1>1, SearchFinds
<1>3. linear_search(s, v) = -1 <=> \A j \in 1 .. Len(s) : s[j] # v
  BY <1>1, LinearFinds
<1>4. i # -1 => i + 1 \in 1 .. Len(s)
  BY <1>1, <1>2
<1>5. DOMAIN s = 1 .. Len(s)
  BY <1>1
<1>. QED
  BY <1>2, <1>3, <1>4, <1>5

\* On the arrays merge, array_union and array_intersect make what they should.
LEMMA Combines ==
    ASSUME ArrayInv
    PROVE  CombinesSorted
<1>. SUFFICES ASSUME NEW a \in Arrays, NEW b \in Arrays, NEW s, s = Contents(a),
                     NEW t, t = Contents(b), is_sorted(s), is_sorted(t)
              PROVE  /\ is_sorted(merge(s, t)) /\ is_sorted(array_union(s, t))
                     /\ is_sorted(array_intersect(s, t))
                     /\ \A v \in Val :
                          /\ Copies(merge(s, t), v) = Copies(s, v) + Copies(t, v)
                          /\ Copies(array_union(s, t), v) = Max({Copies(s, v), Copies(t, v)})
                          /\ Copies(array_intersect(s, t), v) = Min({Copies(s, v), Copies(t, v)})
  BY DEF CombinesSorted
<1>1. s \in Seq(Int) /\ t \in Seq(Int) /\ Val \subseteq Int
  BY ArrayAssumption, ContentsNumbers
<1>2. Ascending(s) /\ Ascending(t)
  BY <1>1, SortedAscends
<1>3. /\ merge(s, t) \in Seq(Int) /\ Ascending(merge(s, t))
      /\ \A v \in Int : Copies(merge(s, t), v) = Copies(s, v) + Copies(t, v)
  BY <1>1, <1>2, MergeIs
<1>4. /\ array_union(s, t) \in Seq(Int) /\ Ascending(array_union(s, t))
      /\ \A v \in Int : Copies(array_union(s, t), v) = Max({Copies(s, v), Copies(t, v)})
  BY <1>1, <1>2, UnionIs
<1>5. /\ array_intersect(s, t) \in Seq(Int) /\ Ascending(array_intersect(s, t))
      /\ \A v \in Int : Copies(array_intersect(s, t), v) = Min({Copies(s, v), Copies(t, v)})
  BY <1>1, <1>2, IntersectIs
<1>6. is_sorted(merge(s, t)) /\ is_sorted(array_union(s, t)) /\ is_sorted(array_intersect(s, t))
  BY <1>3, <1>4, <1>5, SortedAscends
<1>. QED
  BY <1>1, <1>3, <1>4, <1>5, <1>6

-----------------------------------------------------------------------------
(* The heap: an array whose cells are set and swapped.                     *)

Blocks(n) == {c \in Seq(Int) : Len(c) = n}

CellSet(n, c, i, x, b) ==
  /\ b \in Blocks(n) /\ b[i] = x
  /\ \A p \in 1 .. n : p # i => b[p] = c[p]

\* A cell that is set changes alone.
LEMMA SetIs ==
    ASSUME NEW n \in Nat, NEW c \in Blocks(n), NEW i \in 1 .. n, NEW x \in Int,
           NEW b, b = [c EXCEPT ![i] = x]
    PROVE  CellSet(n, c, i, x, b)
<1>1. c \in Seq(Int) /\ Len(c) = n
  BY DEF Blocks
<1>2. c \in [1 .. n -> Int]
  BY <1>1
<1>3. b \in [1 .. n -> Int] /\ b[i] = x /\ \A p \in 1 .. n : p # i => b[p] = c[p]
  BY <1>2
<1>4. b \in Seq(Int)
  BY ONLY <1>3, n \in Nat, SeqDef
<1>5. Len(b) = n
  BY <1>3, <1>4
<1>. QED
  BY <1>3, <1>4, <1>5 DEF Blocks, CellSet

\* The copies of v in the other cells.
Others(c, n, i, v) == Cardinality({p \in 1 .. n : p # i /\ c[p] = v})

LEMMA OthersIs ==
    ASSUME NEW n \in Nat, NEW c \in Blocks(n), NEW i \in 1 .. n, NEW v
    PROVE  /\ Others(c, n, i, v) \in Nat
           /\ c[i] = v => Copies(c, v) = Others(c, n, i, v) + 1
           /\ c[i] # v => Copies(c, v) = Others(c, n, i, v)
<1>. DEFINE U == {p \in 1 .. n : p # i /\ c[p] = v}
            W == {p \in DOMAIN c : c[p] = v}
<1>1. DOMAIN c = 1 .. n
  BY DEF Blocks
<1>2. IsFiniteSet(U)
  <2>1. IsFiniteSet(1 .. n) /\ U \subseteq 1 .. n
    BY FS_Interval
  <2>. HIDE DEF U
  <2>. QED
    BY <2>1, FS_Subset
<1>3. i \notin U
  OBVIOUS
<1>4. c[i] = v => W = U \cup {i}
  BY <1>1
<1>5. c[i] # v => W = U
  BY <1>1
<1>. HIDE DEF U, W
<1>6. Cardinality(U \cup {i}) = Cardinality(U) + 1 /\ Cardinality(U) \in Nat
  BY <1>2, <1>3, FS_AddElement, FS_CardinalityType
<1>. QED
  BY <1>4, <1>5, <1>6 DEF Copies, Others, U, W

\* They are what they were when cell i is set.
LEMMA OthersSame ==
    ASSUME NEW n \in Nat, NEW c, NEW b, NEW i, NEW v, \A p \in 1 .. n : p # i => b[p] = c[p]
    PROVE  Others(b, n, i, v) = Others(c, n, i, v)
<1>1. {p \in 1 .. n : p # i /\ b[p] = v} = {p \in 1 .. n : p # i /\ c[p] = v}
  OBVIOUS
<1>. QED
  BY <1>1 DEF Others

SameCopies(b, c) == \A v \in Int : Copies(b, v) = Copies(c, v)

\* Two blocks have the same elements if one has x in cell i and y in cell j and is
\* like the other but for these two, which are the other way round there.
LEMMA SwapSame ==
    ASSUME NEW n \in Nat, NEW c \in Blocks(n), NEW i \in 1 .. n, NEW j \in 1 .. n, i # j,
           NEW b \in Blocks(n), b[i] = c[j], b[j] = c[i],
           \A p \in 1 .. n : p # i /\ p # j => b[p] = c[p]
    PROVE  SameCopies(b, c)
<1>. DEFINE d == [c EXCEPT ![i] = c[j]]
<1>1. c[i] \in Int /\ c[j] \in Int
  BY DEF Blocks
<1>2. /\ d \in Blocks(n) /\ d[i] = c[j]
      /\ \A p \in 1 .. n : p # i => d[p] = c[p]
  <2>1. CellSet(n, c, i, c[j], d)
    BY <1>1, SetIs
  <2>. QED
    BY <2>1 DEF CellSet
<1>. HIDE DEF d
<1>3. \A p \in 1 .. n : p # j => b[p] = d[p]
  BY <1>2
<1>4. ASSUME NEW v \in Int PROVE Copies(b, v) = Copies(c, v)
  <2>1. Others(d, n, i, v) = Others(c, n, i, v)
    BY <1>2, OthersSame
  <2>2. Others(b, n, j, v) = Others(d, n, j, v)
    BY <1>3, OthersSame
  <2>3. /\ Others(c, n, i, v) \in Nat
        /\ c[i] = v => Copies(c, v) = Others(c, n, i, v) + 1
        /\ c[i] # v => Copies(c, v) = Others(c, n, i, v)
    BY OthersIs
  <2>4. /\ d[i] = v => Copies(d, v) = Others(d, n, i, v) + 1
        /\ d[i] # v => Copies(d, v) = Others(d, n, i, v)
    BY <1>2, OthersIs
  <2>5. /\ Others(d, n, j, v) \in Nat
        /\ d[j] = v => Copies(d, v) = Others(d, n, j, v) + 1
        /\ d[j] # v => Copies(d, v) = Others(d, n, j, v)
    BY <1>2, OthersIs
  <2>6. /\ b[j] = v => Copies(b, v) = Others(b, n, j, v) + 1
        /\ b[j] # v => Copies(b, v) = Others(b, n, j, v)
    BY OthersIs
  <2>7. d[j] = c[j] /\ d[i] = c[j] /\ b[j] = c[i]
    BY <1>2
  <2>. QED
    BY ONLY <2>1, <2>2, <2>3, <2>4, <2>5, <2>6, <2>7
<1>. QED
  BY <1>4 DEF SameCopies

Swapped(n, c, i, j, b) ==
  /\ b \in Blocks(n) /\ b[i] = c[j] /\ b[j] = c[i]
  /\ \A p \in 1 .. n : p # i /\ p # j => b[p] = c[p]
  /\ SameCopies(b, c)

\* What Swap does.
LEMMA SwapIs ==
    ASSUME NEW n \in Nat, NEW c \in Blocks(n), NEW i \in 1 .. n, NEW j \in 1 .. n, i # j,
           NEW b, b = H!Swap(c, i, j)
    PROVE  Swapped(n, c, i, j, b)
<1>1. c \in [1 .. n -> Int]
  BY DEF Blocks
<1>2. /\ b \in [1 .. n -> Int] /\ b[i] = c[j] /\ b[j] = c[i]
      /\ \A p \in 1 .. n : p # i /\ p # j => b[p] = c[p]
  BY <1>1 DEF H!Swap
<1>3. b \in Seq(Int)
  BY ONLY <1>2, n \in Nat, SeqDef
<1>4. b \in Blocks(n)
  BY <1>2, <1>3 DEF Blocks
<1>. QED
  BY <1>2, <1>4, SwapSame DEF Swapped

-----------------------------------------------------------------------------
(* insert: the element of cell m rises among its parents.                  *)

HeapStates(n, m) == [A : Blocks(n), i : 1 .. m]

\* The parent of k.
LEMMA ParentIs ==
    ASSUME NEW k \in Nat, k > 1, NEW j, j = k \div 2
    PROVE  j \in 1 .. k - 1 /\ j \in Nat /\ (k = 2 * j \/ k = 2 * j + 1)
  OBVIOUS

Climbs(temp, l) == l.i > 1 /\ temp > l.A[l.i \div 2]

ParentMoved(n, l, r) ==
  /\ r.i = l.i \div 2 /\ r.A[l.i] = l.A[l.i \div 2]
  /\ \A p \in 1 .. n : p # l.i => r.A[p] = l.A[p]

\* A round moves the parent of cell i into it, or is the last.
LEMMA InsertRoundIs ==
    ASSUME NEW n \in Nat, NEW m \in 1 .. n, NEW l \in HeapStates(n, m), NEW temp \in Int,
           NEW r, r = H!InsertRound(temp, l)
    PROVE  /\ r \in HeapStates(n, m)
           /\ ~ Climbs(temp, l) => r = l
           /\ Climbs(temp, l) => ParentMoved(n, l, r)
<1>. DEFINE c == l.A
            i == l.i
            j == i \div 2
            b == [c EXCEPT ![i] = c[j]]
<1>1. c \in Blocks(n) /\ i \in 1 .. m /\ m <= n
  BY DEF HeapStates
<1>2. CASE ~ Climbs(temp, l)
  <2>1. r = l
    BY <1>2 DEF H!InsertRound, Climbs
  <2>. QED
    BY <1>2, <2>1
<1>3. CASE Climbs(temp, l)
  <2>1. r = [A |-> b, i |-> j]
    BY <1>3 DEF H!InsertRound, Climbs
  <2>2. i > 1
    BY <1>3 DEF Climbs
  <2>3. j \in 1 .. m /\ j \in 1 .. n /\ i \in 1 .. n
    BY <1>1, <2>2, ParentIs
  <2>. HIDE DEF c, i
  <2>4. PICK x \in Int : x = c[j]
    BY <1>1, <2>3 DEF Blocks
  <2>5. PICK d : d = [c EXCEPT ![i] = x]
    OBVIOUS
  <2>6. d \in Blocks(n) /\ d[i] = x /\ \A p \in 1 .. n : p # i => d[p] = c[p]
    <3>1. CellSet(n, c, i, x, d)
      BY <1>1, <2>3, <2>5, SetIs
    <3>. QED
      BY <3>1 DEF CellSet
  <2>9. b = d
    BY <2>4, <2>5
  <2>. HIDE DEF b
  <2>7. r \in HeapStates(n, m)
    BY <2>1, <2>3, <2>6, <2>9 DEF HeapStates
  <2>8. r.i = j /\ r.A = b
    BY <2>1
  <2>. QED
    BY <1>3, <2>4, <2>6, <2>7, <2>8, <2>9 DEF ParentMoved, c, i
<1>. QED
  BY <1>2, <1>3

\* The loop of insert, round by round.
LEMMA RisingIs ==
    ASSUME NEW n \in Nat, NEW m \in 1 .. n, NEW c \in Blocks(n), NEW r, r = H!Rising(c, m)
    PROVE  /\ \A k \in 0 .. m : r[k] \in HeapStates(n, m)
           /\ r[0] = [A |-> c, i |-> m]
           /\ \A k \in 1 .. m : r[k] = H!InsertRound(c[m], r[k - 1])
<1>. DEFINE D == HeapStates(n, m)
            x == [A |-> c, i |-> m]
            temp == c[m]
            g == [p \in (1 .. m) \X D |-> H!InsertRound(temp, p[2])]
            Is(f) == f = [k \in 0 .. m |-> IF k = 0 THEN x ELSE H!InsertRound(temp, f[k - 1])]
            u == CHOOSE f : Is(f)
            F == [0 .. m -> D]
            h == LoopOf(m, x, g)
<1>1. m \in Nat /\ x \in D /\ temp \in Int
  BY DEF HeapStates, Blocks
<1>2. r = u
  BY DEF H!Rising
<1>. HIDE DEF temp
<1>3. \A k \in 1 .. m : \A y \in D : g[<<k, y>>] = H!InsertRound(temp, y) /\ g[<<k, y>>] \in D
  BY <1>1, InsertRoundIs
<1>4. \A k \in 1 .. m : k - 1 \in 0 .. m
  BY <1>1
<1>. HIDE DEF g, D, x, h
<1>5. h \in F /\ h[0] = x /\ \A k \in 1 .. m : h[k] = g[<<k, h[k - 1]>>]
  <2>1. \A k \in 1 .. m : \A y \in D : g[<<k, y>>] \in D
    BY <1>3
  <2>2. IsLoop(h, m, D, x, g)
    BY ONLY <1>1, <2>1, LoopIs DEF h
  <2>. QED
    BY <2>2 DEF IsLoop
<1>6. \A k \in 1 .. m : h[k] = H!InsertRound(temp, h[k - 1])
  BY <1>3, <1>4, <1>5
<1>7. Is(h)
  BY <1>5, <1>6
<1>8. Is(u)
  BY <1>7
<1>. HIDE DEF u
<1>9. u[0] = x /\ \A k \in 1 .. m : u[k] = H!InsertRound(temp, u[k - 1])
  BY <1>1, <1>8
<1>. DEFINE J == {k \in 0 .. m : u[k] \in D}
<1>10. 0 \in J
  BY <1>1, <1>9
<1>11. ASSUME NEW k \in 1 .. m, k - 1 \in J PROVE k \in J
  BY <1>1, <1>9, <1>11, InsertRoundIs DEF D
<1>. HIDE DEF J
<1>12. \A k \in 0 .. m : k \in J
  BY <1>1, <1>10, <1>11, InductTo
<1>13. \A k \in 0 .. m : u[k] \in HeapStates(n, m)
  BY <1>12 DEF J, D
<1>. QED
  BY <1>2, <1>9, <1>13 DEF x, temp

HeapUpTo(c, m) == \A k \in 2 .. m : c[k] <= c[k \div 2]

\* The first m cells are a heap but for cell i, which may be above its parent.
HeapBut(c, m, i) ==
  /\ \A k \in 2 .. m : k # i => c[k] <= c[k \div 2]
  /\ \A k \in 2 .. m : k \div 2 = i /\ i > 1 => c[k] <= c[i \div 2]

\* If it is and changes places with its parent, this holds of the parent's cell.
LEMMA RisesOn ==
    ASSUME NEW n \in Nat, NEW m \in 1 .. n, NEW c \in Blocks(n), NEW b \in Blocks(n),
           NEW i \in 2 .. m, NEW j, j = i \div 2, b[i] = c[j], b[j] = c[i],
           \A p \in 1 .. n : p # i /\ p # j => b[p] = c[p],
           HeapBut(c, m, i), c[i] > c[j]
    PROVE  HeapBut(b, m, j)
<1>1. /\ j \in 1 .. n /\ j < i /\ i \in 1 .. n /\ i \in Nat /\ j \in Nat /\ m <= n
      /\ \A p \in 1 .. n : c[p] \in Int
  BY ParentIs DEF Blocks
<1>2. \A k \in 2 .. m : k \in 1 .. n /\ k \div 2 \in 1 .. n /\ k \div 2 < k
  OBVIOUS
<1>3. ASSUME NEW k \in 2 .. m, k # j PROVE b[k] <= b[k \div 2]
  <2>1. PICK z \in 1 .. n : z = k \div 2
    BY <1>2
  <2>2. k \in 1 .. n /\ z # k
    BY <1>2, <2>1
  <2>3. CASE k = i
    <3>1. z = j
      BY <2>1, <2>3
    <3>2. b[k] = c[j] /\ b[z] = c[i]
      BY <2>3, <3>1
    <3>. QED
      BY <1>1, <2>1, <3>2
  <2>4. CASE k # i
    <3>1. b[k] = c[k] /\ c[k] <= c[z]
      BY <1>3, <2>1, <2>2, <2>4 DEF HeapBut
    <3>2. CASE z = i
      <4>1. c[k] <= c[j] /\ b[z] = c[j]
        BY <2>1, <3>2 DEF HeapBut
      <4>. QED
        BY <2>1, <3>1, <4>1
    <3>3. CASE z = j
      <4>1. b[z] = c[i] /\ c[k] <= c[j] /\ c[k] \in Int /\ c[j] \in Int /\ c[i] \in Int
        BY <1>1, <2>2, <3>1, <3>3
      <4>2. b[k] <= b[z]
        BY <3>1, <4>1
      <4>. QED
        BY <2>1, <4>2
    <3>4. CASE z # i /\ z # j
      BY <2>1, <3>1, <3>4
    <3>. QED
      BY <3>2, <3>3, <3>4
  <2>. QED
    BY <2>3, <2>4
<1>4. ASSUME NEW k \in 2 .. m, k \div 2 = j, j > 1 PROVE b[k] <= b[j \div 2]
  <2>1. PICK z \in 1 .. n : z = j \div 2
    BY <1>1, <1>4, ParentIs
  <2>2. z < j /\ j \in 2 .. m /\ j # i
    BY <1>1, <1>4, <2>1, ParentIs
  <2>3. c[j] <= c[z] /\ b[z] = c[z] /\ c[z] \in Int /\ c[j] \in Int
    BY <1>1, <2>1, <2>2 DEF HeapBut
  <2>4. b[k] <= c[z]
    <3>1. CASE k = i
      BY <2>3, <3>1
    <3>2. CASE k # i
      <4>1. k \in 1 .. n /\ k # j
        BY <1>1, <1>2, <1>4
      <4>2. b[k] = c[k] /\ c[k] <= c[j] /\ c[k] \in Int
        BY <1>1, <1>4, <3>2, <4>1 DEF HeapBut
      <4>. QED
        BY <2>3, <4>2
    <3>. QED
      BY <3>1, <3>2
  <2>. QED
    BY <2>1, <2>3, <2>4
<1>. QED
  BY <1>3, <1>4 DEF HeapBut

\* What holds after k rounds of the array with temp in cell i.
RiseInv(c, n, m, l, k) ==
  \E b \in Blocks(n) :
    /\ b[l.i] = c[m] /\ \A p \in 1 .. n : p # l.i => b[p] = l.A[p]
    /\ SameCopies(b, c) /\ HeapBut(b, m, l.i)
    /\ l.i <= m - k \/ ~ Climbs(c[m], l)

\* A round keeps it.
LEMMA InsertRoundKeeps ==
    ASSUME NEW n \in Nat, NEW m \in 1 .. n, NEW c \in Blocks(n), NEW l \in HeapStates(n, m),
           NEW k \in 1 .. m, RiseInv(c, n, m, l, k - 1), NEW r, r = H!InsertRound(c[m], l)
    PROVE  RiseInv(c, n, m, r, k)
<1>. DEFINE temp == c[m]
            i == l.i
            j == i \div 2
<1>1. PICK b \in Blocks(n) :
        /\ b[i] = temp /\ \A p \in 1 .. n : p # i => b[p] = l.A[p]
        /\ SameCopies(b, c) /\ HeapBut(b, m, i)
        /\ i <= m - (k - 1) \/ ~ Climbs(temp, l)
  BY DEF RiseInv
<1>2. i \in 1 .. m /\ i \in 1 .. n /\ i \in Nat /\ temp \in Int /\ l.A \in Blocks(n)
  BY DEF HeapStates, Blocks
<1>3. CASE ~ Climbs(temp, l)
  <2>1. r = l
    BY <1>2, <1>3, InsertRoundIs
  <2>. QED
    BY <1>1, <1>3, <2>1 DEF RiseInv
<1>4. CASE Climbs(temp, l)
  <2>1. i > 1 /\ temp > l.A[j] /\ j \in 1 .. i - 1 /\ j \in 1 .. n /\ i \in 2 .. m /\ j # i
    BY <1>2, <1>4, ParentIs DEF Climbs
  <2>2. /\ r.i = j /\ r.A[i] = l.A[j]
        /\ \A p \in 1 .. n : p # i => r.A[p] = l.A[p]
    <3>1. ParentMoved(n, l, r)
      BY <1>2, <1>4, InsertRoundIs
    <3>. QED
      BY <3>1 DEF ParentMoved
  <2>. DEFINE d == H!Swap(b, i, j)
  <2>3. /\ d \in Blocks(n) /\ d[i] = b[j] /\ d[j] = b[i]
        /\ \A p \in 1 .. n : p # i /\ p # j => d[p] = b[p]
        /\ SameCopies(d, b)
    <3>1. Swapped(n, b, i, j, d)
      BY <1>2, <2>1, SwapIs
    <3>. QED
      BY <3>1 DEF Swapped
  <2>4. SameCopies(d, c)
    BY <1>1, <2>3 DEF SameCopies
  <2>. HIDE DEF d, temp
  <2>5. b[i] > b[j]
    BY <1>1, <2>1
  <2>6. HeapBut(d, m, j)
    BY <1>1, <2>1, <2>3, <2>5, RisesOn
  <2>7. d[j] = temp /\ \A p \in 1 .. n : p # j => d[p] = r.A[p]
    BY <1>1, <2>1, <2>2, <2>3
  <2>8. j <= m - k
    BY <1>1, <1>2, <1>4, <2>1
  <2>. HIDE DEF i, j
  <2>. QED
    BY <2>2, <2>3, <2>4, <2>6, <2>7, <2>8 DEF RiseInv, temp
<1>. QED
  BY <1>3, <1>4

\* insert makes a heap of the first m cells, if the cells before were one.
LEMMA InsertIs ==
    ASSUME NEW n \in Nat, NEW m \in 2 .. n, NEW c \in Blocks(n), HeapUpTo(c, m - 1),
           NEW d, d = H!insert(c, m)
    PROVE  d \in Blocks(n) /\ SameCopies(d, c) /\ HeapUpTo(d, m)
<1>. DEFINE r == H!Rising(c, m)
            J == {k \in 0 .. m : RiseInv(c, n, m, r[k], k)}
            l == r[m]
<1>1. m \in 1 .. n /\ m \in Nat /\ c[m] \in Int
  BY DEF Blocks
<1>2. /\ \A k \in 0 .. m : r[k] \in HeapStates(n, m)
      /\ r[0] = [A |-> c, i |-> m]
      /\ \A k \in 1 .. m : r[k] = H!InsertRound(c[m], r[k - 1])
  BY <1>1, RisingIs
<1>3. d = [l.A EXCEPT ![l.i] = c[m]]
  BY DEF H!insert
<1>. HIDE DEF r
<1>4. 0 \in J
  <2>1. HeapBut(c, m, m)
    BY <1>1 DEF HeapBut, HeapUpTo
  <2>2. r[0].i = m /\ r[0].A = c
    BY <1>2
  <2>3. SameCopies(c, c) /\ r[0].i <= m - 0
    BY <1>1, <2>2 DEF SameCopies
  <2>4. RiseInv(c, n, m, r[0], 0)
    BY <2>1, <2>2, <2>3 DEF RiseInv
  <2>. QED
    BY <1>1, <2>4
<1>5. ASSUME NEW k \in 1 .. m, k - 1 \in J PROVE k \in J
  <2>1. r[k - 1] \in HeapStates(n, m) /\ RiseInv(c, n, m, r[k - 1], k - 1) /\ k \in 0 .. m
    BY <1>1, <1>2, <1>5
  <2>2. r[k] = H!InsertRound(c[m], r[k - 1])
    BY <1>2
  <2>3. RiseInv(c, n, m, r[k], k)
    BY <1>1, <2>1, <2>2, InsertRoundKeeps
  <2>. QED
    BY <2>1, <2>3
<1>. HIDE DEF J
<1>6. \A k \in 0 .. m : k \in J
  BY <1>1, <1>4, <1>5, InductTo
<1>7. RiseInv(c, n, m, l, m) /\ l \in HeapStates(n, m)
  BY <1>1, <1>2, <1>6 DEF J
<1>. DEFINE i == l.i
<1>8. PICK b \in Blocks(n) :
        /\ b[i] = c[m] /\ \A p \in 1 .. n : p # i => b[p] = l.A[p]
        /\ SameCopies(b, c) /\ HeapBut(b, m, i)
        /\ i <= m - m \/ ~ Climbs(c[m], l)
  BY <1>7 DEF RiseInv
<1>9. i \in 1 .. m /\ i \in 1 .. n /\ i \in Nat /\ l.A \in Blocks(n)
  BY <1>1, <1>7 DEF HeapStates
<1>. HIDE DEF l
<1>10. /\ d \in Blocks(n) /\ d[i] = c[m]
       /\ \A p \in 1 .. n : p # i => d[p] = l.A[p]
  <2>1. CellSet(n, l.A, i, c[m], d)
    BY <1>1, <1>3, <1>9, SetIs
  <2>. QED
    BY <2>1 DEF CellSet
<1>11. d = b
  <2>1. \A p \in 1 .. n : d[p] = b[p]
    BY <1>8, <1>10
  <2>2. d \in [1 .. n -> Int] /\ b \in [1 .. n -> Int]
    BY <1>8, <1>10 DEF Blocks
  <2>. QED
    BY ONLY <2>1, <2>2
<1>12. HeapUpTo(b, m)
  <2>1. ~ Climbs(c[m], l)
    BY <1>1, <1>8, <1>9
  <2>2. ASSUME NEW k \in 2 .. m PROVE b[k] <= b[k \div 2]
    <3>1. CASE k # i
      BY <1>8, <3>1 DEF HeapBut
    <3>2. CASE k = i
      <4>1. PICK z \in 1 .. n : z = k \div 2 /\ z # k
        BY <1>1
      <4>2. ~ c[m] > l.A[z] /\ l.A[z] = b[z] /\ b[z] \in Int
        BY <1>8, <2>1, <3>2, <4>1 DEF Climbs, Blocks
      <4>3. b[k] <= b[z]
        BY <1>1, <1>8, <3>2, <4>2
      <4>. QED
        BY <4>1, <4>3
    <3>. QED
      BY <3>1, <3>2
  <2>. QED
    BY <2>2 DEF HeapUpTo
<1>. QED
  BY <1>8, <1>10, <1>11, <1>12

\* insert leaves a block of the same length.
LEMMA InsertType ==
    ASSUME NEW n \in Nat, NEW m \in 1 .. n, NEW c \in Blocks(n)
    PROVE  H!insert(c, m) \in Blocks(n)
<1>. DEFINE l == H!Rising(c, m)[m]
            d == H!insert(c, m)
<1>1. m \in 1 .. n /\ m \in Nat /\ c[m] \in Int
  BY DEF Blocks
<1>2. l \in HeapStates(n, m)
  <2>. DEFINE r == H!Rising(c, m)
  <2>1. \A k \in 0 .. m : r[k] \in HeapStates(n, m)
    BY RisingIs
  <2>. HIDE DEF r
  <2>2. r[m] \in HeapStates(n, m)
    BY <1>1, <2>1
  <2>. QED
    BY <2>2 DEF r
<1>3. d = [l.A EXCEPT ![l.i] = c[m]]
  BY DEF H!insert
<1>. HIDE DEF l, d
<1>4. l.A \in Blocks(n) /\ l.i \in 1 .. n
  BY <1>1, <1>2 DEF HeapStates
<1>5. CellSet(n, l.A, l.i, c[m], d)
  BY <1>1, <1>3, <1>4, SetIs
<1>. QED
  BY <1>5 DEF CellSet, d

\* create_heap, element by element.
LEMMA CreatingIs ==
    ASSUME NEW n \in Nat, NEW c \in Blocks(n), NEW r, r = H!Creating(c)
    PROVE  /\ \A k \in 0 .. n : r[k] \in Blocks(n)
           /\ r[0] = c
           /\ \A k \in 1 .. n : r[k] = IF k < 2 THEN c ELSE H!insert(r[k - 1], k)
<1>. DEFINE D == Blocks(n)
            g == [p \in (1 .. n) \X D |-> IF p[1] < 2 THEN c ELSE H!insert(p[2], p[1])]
            Is(f) == f = [k \in 0 .. n |-> IF k < 2 THEN c ELSE H!insert(f[k - 1], k)]
            u == CHOOSE f : Is(f)
            F == [0 .. n -> D]
            h == LoopOf(n, c, g)
<1>1. Len(c) = n
  BY DEF Blocks
<1>2. r = u
  BY <1>1 DEF H!Creating
<1>3. \A k \in 1 .. n : \A y \in D :
        /\ g[<<k, y>>] = IF k < 2 THEN c ELSE H!insert(y, k)
        /\ g[<<k, y>>] \in D
  BY InsertType
<1>4. \A k \in 1 .. n : k - 1 \in 0 .. n
  OBVIOUS
<1>0. c \in D
  OBVIOUS
<1>. HIDE DEF g, D, h
<1>5. h \in F /\ h[0] = c /\ \A k \in 1 .. n : h[k] = g[<<k, h[k - 1]>>]
  <2>1. \A k \in 1 .. n : \A y \in D : g[<<k, y>>] \in D
    BY <1>3
  <2>2. IsLoop(h, n, D, c, g)
    BY ONLY <1>0, <2>1, n \in Nat, LoopIs DEF h
  <2>. QED
    BY <2>2 DEF IsLoop
<1>6. \A k \in 1 .. n : h[k] = IF k < 2 THEN c ELSE H!insert(h[k - 1], k)
  <2>. SUFFICES ASSUME NEW k \in 1 .. n
                PROVE  h[k] = IF k < 2 THEN c ELSE H!insert(h[k - 1], k)
    OBVIOUS
  <2>1. PICK y \in D : y = h[k - 1]
    BY <1>4, <1>5
  <2>2. h[k] = g[<<k, y>>]
    BY <1>5, <2>1
  <2>3. g[<<k, y>>] = IF k < 2 THEN c ELSE H!insert(y, k)
    BY <1>3
  <2>. QED
    BY ONLY <2>1, <2>2, <2>3
<1>7. Is(h)
  <2>1. h = [k \in 0 .. n |-> h[k]]
    BY <1>5
  <2>2. ASSUME NEW k \in 0 .. n PROVE h[k] = IF k < 2 THEN c ELSE H!insert(h[k - 1], k)
    <3>1. CASE k = 0
      BY <1>5, <3>1
    <3>2. CASE k # 0
      <4>1. k \in 1 .. n
        BY <3>2
      <4>. QED
        BY <1>6, <4>1
    <3>. QED
      BY <3>1, <3>2
  <2>. QED
    BY <2>1, <2>2
<1>8. Is(u)
  BY <1>7
<1>. HIDE DEF u
<1>9. /\ u[0] = c
      /\ \A k \in 1 .. n : u[k] = IF k < 2 THEN c ELSE H!insert(u[k - 1], k)
  <2>1. 0 \in 0 .. n /\ \A k \in 1 .. n : k \in 0 .. n
    OBVIOUS
  <2>2. \A k \in 0 .. n : u[k] = IF k < 2 THEN c ELSE H!insert(u[k - 1], k)
    BY <1>8
  <2>3. u[0] = c
    BY <2>1, <2>2
  <2>. QED
    BY <2>1, <2>2, <2>3
<1>. DEFINE J == {k \in 0 .. n : u[k] \in D}
<1>10. 0 \in J
  BY <1>0, <1>9
<1>11. ASSUME NEW k \in 1 .. n, k - 1 \in J PROVE k \in J
  BY <1>0, <1>9, <1>11, InsertType DEF D
<1>. HIDE DEF J
<1>12. \A k \in 0 .. n : k \in J
  BY <1>10, <1>11, InductTo
<1>13. \A k \in 0 .. n : u[k] \in Blocks(n)
  BY <1>12 DEF J, D
<1>. QED
  BY <1>2, <1>9, <1>13

\* create_heap makes a heap of the same elements.
LEMMA CreateIs ==
    ASSUME NEW n \in Nat, NEW c \in Blocks(n), NEW h, h = H!create_heap(c)
    PROVE  h \in Blocks(n) /\ SameCopies(h, c) /\ HeapUpTo(h, n)
<1>. DEFINE r == H!Creating(c)
            J == {k \in 0 .. n : SameCopies(r[k], c) /\ HeapUpTo(r[k], k)}
<1>1. /\ \A k \in 0 .. n : r[k] \in Blocks(n)
      /\ r[0] = c
      /\ \A k \in 1 .. n : r[k] = IF k < 2 THEN c ELSE H!insert(r[k - 1], k)
  BY CreatingIs
<1>2. h = r[n]
  BY DEF H!create_heap, Blocks
<1>. HIDE DEF r
<1>3. SameCopies(c, c)
  BY DEF SameCopies
<1>4. 0 \in J
  BY <1>1, <1>3 DEF HeapUpTo
<1>5. ASSUME NEW k \in 1 .. n, k - 1 \in J PROVE k \in J
  <2>1. k - 1 \in 0 .. n /\ k \in 0 .. n
    OBVIOUS
  <2>2. r[k - 1] \in Blocks(n) /\ SameCopies(r[k - 1], c) /\ HeapUpTo(r[k - 1], k - 1)
    BY <1>1, <1>5, <2>1
  <2>3. CASE k < 2
    <3>1. r[k] = c /\ HeapUpTo(c, k)
      BY <1>1, <2>3 DEF HeapUpTo
    <3>. QED
      BY <1>3, <2>1, <3>1
  <2>4. CASE ~ k < 2
    <3>1. r[k] = H!insert(r[k - 1], k) /\ k \in 2 .. n
      BY <1>1, <2>4
    <3>2. SameCopies(r[k], r[k - 1]) /\ HeapUpTo(r[k], k)
      BY <2>2, <3>1, InsertIs
    <3>3. SameCopies(r[k], c)
      BY <2>2, <3>2 DEF SameCopies
    <3>. QED
      BY <2>1, <3>2, <3>3
  <2>. QED
    BY <2>3, <2>4
<1>. HIDE DEF J
<1>6. \A k \in 0 .. n : k \in J
  BY <1>4, <1>5, InductTo
<1>7. n \in 0 .. n
  OBVIOUS
<1>. QED
  BY <1>1, <1>2, <1>6, <1>7 DEF J

-----------------------------------------------------------------------------
(* del: the element that is put at the root sinks among its children.      *)

\* Cell j has the larger child of cell i, the left one if they are equal.
LargerChild(c, i) == IF c[2 * i] < c[2 * i + 1] THEN 2 * i + 1 ELSE 2 * i

Sinks(m, l) == 2 * l.i < m - 1 /\ l.A[LargerChild(l.A, l.i)] > l.A[l.i]

\* b is c after cell i and its larger child j, which is among the first m - 1, changed places.
ChildMoved(n, m, c, i, b, j) ==
  /\ b \in Blocks(n) /\ j \in 1 .. m - 1 /\ (j = 2 * i \/ j = 2 * i + 1)
  /\ 2 * i + 1 \in 1 .. m - 1 /\ c[j] > c[i] /\ c[2 * i] <= c[j] /\ c[2 * i + 1] <= c[j]
  /\ b[i] = c[j] /\ b[j] = c[i]
  /\ \A p \in 1 .. n : p # i /\ p # j => b[p] = c[p]
  /\ SameCopies(b, c)

\* A round does this, or is the last.
LEMMA DelRoundIs ==
    ASSUME NEW n \in Nat, NEW m \in 1 .. n, NEW l \in HeapStates(n, n),
           NEW r, r = H!DelRound(m, l)
    PROVE  /\ r \in HeapStates(n, n)
           /\ ~ Sinks(m, l) => r = l
           /\ Sinks(m, l) => ChildMoved(n, m, l.A, l.i, r.A, r.i)
<1>. DEFINE c == l.A
            i == l.i
            j == LargerChild(c, i)
            b == H!Swap(c, i, j)
<1>1. c \in Blocks(n) /\ i \in 1 .. n /\ m <= n
  BY DEF HeapStates
<1>2. r = IF Sinks(m, l) THEN [A |-> b, i |-> j] ELSE l
  BY DEF H!DelRound, Sinks, LargerChild
<1>. HIDE DEF c, i, j, b
<1>3. CASE ~ Sinks(m, l)
  BY <1>2, <1>3
<1>4. CASE Sinks(m, l)
  <2>1. 2 * i < m - 1 /\ c[j] > c[i]
    BY <1>4 DEF Sinks, c, i, j
  <2>2. 2 * i \in 1 .. n /\ 2 * i + 1 \in 1 .. n /\ 2 * i + 1 \in 1 .. m - 1
    BY <1>1, <2>1
  <2>3. c[2 * i] \in Int /\ c[2 * i + 1] \in Int
    <3>1. \A p \in 1 .. n : c[p] \in Int
      BY <1>1 DEF Blocks
    <3>. QED
      BY <2>2, <3>1
  <2>4. /\ j = 2 * i \/ j = 2 * i + 1
        /\ c[2 * i] <= c[j] /\ c[2 * i + 1] <= c[j]
    <3>1. CASE c[2 * i] < c[2 * i + 1]
      <4>1. j = 2 * i + 1
        BY <3>1 DEF LargerChild, j
      <4>. QED
        BY <2>3, <3>1, <4>1
    <3>2. CASE ~ c[2 * i] < c[2 * i + 1]
      <4>1. j = 2 * i
        BY <3>2 DEF LargerChild, j
      <4>. QED
        BY <2>3, <3>2, <4>1
    <3>. QED
      BY <3>1, <3>2
  <2>5. j \in 1 .. m - 1 /\ j \in 1 .. n /\ j # i
    BY <1>1, <2>1, <2>4
  <2>6. b = H!Swap(c, i, j)
    BY DEF b
  <2>7. /\ b \in Blocks(n) /\ b[i] = c[j] /\ b[j] = c[i]
        /\ \A p \in 1 .. n : p # i /\ p # j => b[p] = c[p]
        /\ SameCopies(b, c)
    <3>1. Swapped(n, c, i, j, b)
      BY <1>1, <2>5, <2>6, SwapIs
    <3>. QED
      BY <3>1 DEF Swapped
  <2>8. ChildMoved(n, m, c, i, b, j)
    BY <2>1, <2>2, <2>4, <2>5, <2>7 DEF ChildMoved
  <2>9. r = [A |-> b, i |-> j]
    BY <1>2, <1>4
  <2>10. r \in HeapStates(n, n)
    BY <2>5, <2>7, <2>9 DEF HeapStates
  <2>11. r.A = b /\ r.i = j
    BY <2>9
  <2>. QED
    BY <1>4, <2>8, <2>10, <2>11 DEF c, i
<1>. QED
  BY <1>3, <1>4

\* The loop of del, round by round.
LEMMA SinkingIs ==
    ASSUME NEW n \in Nat, NEW m \in 1 .. n, NEW c \in Blocks(n), NEW r, r = H!Sinking(c, m),
           NEW d, d = [c EXCEPT ![1] = c[m]]
    PROVE  /\ \A k \in 0 .. m : r[k] \in HeapStates(n, n)
           /\ r[0] = [A |-> d, i |-> 1]
           /\ \A k \in 1 .. m : r[k] = H!DelRound(m, r[k - 1])
<1>. DEFINE D == HeapStates(n, n)
            x == [A |-> d, i |-> 1]
            g == [p \in (1 .. m) \X D |-> H!DelRound(m, p[2])]
            Is(f) == f = [k \in 0 .. m |-> IF k = 0 THEN x ELSE H!DelRound(m, f[k - 1])]
            u == CHOOSE f : Is(f)
            F == [0 .. m -> D]
            h == LoopOf(m, x, g)
<1>1. m \in Nat /\ x \in D
  <2>1. c[m] \in Int /\ 1 \in 1 .. n
    BY DEF Blocks
  <2>2. CellSet(n, c, 1, c[m], d)
    BY <2>1, SetIs
  <2>. QED
    BY <2>1, <2>2 DEF CellSet, HeapStates
<1>2. r = u
  BY DEF H!Sinking
<1>3. \A k \in 1 .. m : \A y \in D : g[<<k, y>>] = H!DelRound(m, y) /\ g[<<k, y>>] \in D
  BY DelRoundIs
<1>4. \A k \in 1 .. m : k - 1 \in 0 .. m
  BY <1>1
<1>. HIDE DEF g, D, x, h
<1>5. h \in F /\ h[0] = x /\ \A k \in 1 .. m : h[k] = g[<<k, h[k - 1]>>]
  <2>1. \A k \in 1 .. m : \A y \in D : g[<<k, y>>] \in D
    BY <1>3
  <2>2. IsLoop(h, m, D, x, g)
    BY ONLY <1>1, <2>1, LoopIs DEF h
  <2>. QED
    BY <2>2 DEF IsLoop
<1>6. \A k \in 1 .. m : h[k] = H!DelRound(m, h[k - 1])
  BY <1>3, <1>4, <1>5
<1>7. Is(h)
  BY <1>5, <1>6
<1>8. Is(u)
  BY <1>7
<1>. HIDE DEF u
<1>9. u[0] = x /\ \A k \in 1 .. m : u[k] = H!DelRound(m, u[k - 1])
  <2>1. \A k \in 0 .. m : u[k] = IF k = 0 THEN x ELSE H!DelRound(m, u[k - 1])
    BY <1>8
  <2>2. 0 \in 0 .. m /\ \A k \in 1 .. m : k \in 0 .. m /\ k # 0
    BY <1>1
  <2>. QED
    BY ONLY <2>1, <2>2
<1>. DEFINE J == {k \in 0 .. m : u[k] \in D}
<1>10. 0 \in J
  BY <1>1, <1>9
<1>11. ASSUME NEW k \in 1 .. m, k - 1 \in J PROVE k \in J
  BY <1>1, <1>9, <1>11, DelRoundIs DEF D
<1>. HIDE DEF J
<1>12. \A k \in 0 .. m : k \in J
  BY <1>1, <1>10, <1>11, InductTo
<1>13. \A k \in 0 .. m : u[k] \in HeapStates(n, n)
  BY <1>12 DEF J, D
<1>. QED
  BY <1>2, <1>9, <1>13 DEF x

\* The first m cells are a heap but for cell i, which may be below its children.
HeapOver(c, m, i) ==
  /\ \A k \in 2 .. m : k \div 2 # i => c[k] <= c[k \div 2]
  /\ \A k \in 2 .. m : k \div 2 = i /\ i > 1 => c[k] <= c[i \div 2]

\* If it is and changes places with the larger one, this holds of that one's cell.
LEMMA SinksOn ==
    ASSUME NEW n \in Nat, NEW m \in 1 .. n, NEW c \in Blocks(n), NEW i \in 1 .. n,
           HeapOver(c, m - 1, i), NEW b, NEW j, ChildMoved(n, m, c, i, b, j)
    PROVE  HeapOver(b, m - 1, j)
<1>1. /\ b \in Blocks(n) /\ j \in 1 .. m - 1 /\ (j = 2 * i \/ j = 2 * i + 1)
      /\ c[j] > c[i] /\ c[2 * i] <= c[j] /\ c[2 * i + 1] <= c[j]
      /\ b[i] = c[j] /\ b[j] = c[i]
      /\ \A p \in 1 .. n : p # i /\ p # j => b[p] = c[p]
  BY DEF ChildMoved
<1>2. /\ \A p \in 1 .. n : c[p] \in Int
      /\ i \in Nat /\ j \in Nat /\ j \in 1 .. n /\ i < j /\ j \div 2 = i /\ m \in Nat /\ m <= n
  BY <1>1 DEF Blocks
<1>3. \A k \in 2 .. m - 1 : k \in 1 .. n /\ k \div 2 \in 1 .. n /\ k \div 2 < k
                            /\ (k = 2 * (k \div 2) \/ k = 2 * (k \div 2) + 1)
  BY <1>2
<1>4. ASSUME NEW k \in 2 .. m - 1, k \div 2 # j PROVE b[k] <= b[k \div 2]
  <2>1. PICK z \in 1 .. n : z = k \div 2
    BY <1>3
  <2>2. k \in 1 .. n /\ z # k /\ z < k /\ (k = 2 * z \/ k = 2 * z + 1) /\ z # j
    BY <1>3, <1>4, <2>1
  <2>3. c[i] \in Int /\ c[j] \in Int /\ c[k] \in Int /\ c[z] \in Int
    BY <1>2, <2>2
  <2>4. b[k] <= b[z]
    <3>1. CASE k = j
      <4>1. z = i
        BY <1>2, <2>1, <3>1
      <4>. QED
        BY <1>1, <2>3, <3>1, <4>1
    <3>2. CASE k # j /\ z = i
      <4>1. c[k] <= c[j]
        BY <1>1, <2>2, <3>2
      <4>2. b[k] = c[k] /\ b[z] = c[j]
        BY <1>1, <2>2, <3>2
      <4>. QED
        BY <4>1, <4>2
    <3>3. CASE k = i /\ z # i
      <4>1. i > 1 /\ j \in 2 .. m - 1
        BY <1>1, <1>2, <3>3
      <4>2. c[j] <= c[z]
        BY <1>2, <2>1, <3>3, <4>1 DEF HeapOver
      <4>. QED
        BY <1>1, <2>2, <3>3, <4>2
    <3>4. CASE k # j /\ k # i /\ z # i
      <4>1. c[k] <= c[z]
        BY <2>1, <3>4 DEF HeapOver
      <4>2. b[k] = c[k] /\ b[z] = c[z]
        BY <1>1, <2>2, <3>4
      <4>. QED
        BY <4>1, <4>2
    <3>. QED
      BY <2>2, <3>1, <3>2, <3>3, <3>4
  <2>. QED
    BY <2>1, <2>4
<1>5. ASSUME NEW k \in 2 .. m - 1, k \div 2 = j PROVE b[k] <= b[j \div 2]
  <2>1. k \in 1 .. n /\ k # j /\ k # i
    BY <1>2, <1>3, <1>5
  <2>2. c[k] <= c[j]
    BY <1>2, <1>5 DEF HeapOver
  <2>3. b[k] = c[k] /\ b[j \div 2] = c[j]
    BY <1>1, <1>2, <2>1
  <2>. QED
    BY <2>2, <2>3
<1>. QED
  BY <1>4, <1>5 DEF HeapOver

\* No cell of a heap is above the root.
LEMMA HeapRoot ==
    ASSUME NEW n \in Nat, NEW m \in 0 .. n, NEW c \in Blocks(n), HeapUpTo(c, m)
    PROVE  \A p \in 1 .. m : c[p] <= c[1]
<1>. DEFINE J == {k \in 0 .. m : \A p \in 1 .. k : c[p] <= c[1]}
<1>1. m \in Nat /\ m <= n /\ \A p \in 1 .. n : c[p] \in Int
  BY DEF Blocks
<1>2. 0 \in J
  BY <1>1
<1>3. ASSUME NEW k \in 1 .. m, k - 1 \in J PROVE k \in J
  <2>1. c[k] <= c[1]
    <3>1. CASE k = 1
      BY <1>1, <3>1
    <3>2. CASE k # 1
      <4>1. k \in 2 .. m
        BY <3>2
      <4>2. PICK z \in 1 .. n : z = k \div 2 /\ z \in 1 .. k - 1
        BY <1>1, <4>1
      <4>3. c[k] <= c[z] /\ c[z] <= c[1]
        BY <1>3, <4>1, <4>2 DEF HeapUpTo
      <4>4. c[k] \in Int /\ c[z] \in Int /\ c[1] \in Int
        BY <1>1
      <4>. QED
        BY <4>3, <4>4
    <3>. QED
      BY <3>1, <3>2
  <2>2. \A p \in 1 .. k : p = k \/ p \in 1 .. k - 1
    OBVIOUS
  <2>3. \A p \in 1 .. k : c[p] <= c[1]
    BY <1>3, <2>1, <2>2
  <2>. QED
    BY <1>1, <2>3
<1>. HIDE DEF J
<1>4. \A k \in 0 .. m : k \in J
  BY <1>1, <1>2, <1>3, InductTo
<1>. QED
  BY <1>1, <1>4 DEF J

Bounds(c, m, x) == \A p \in 1 .. m : c[p] <= x

\* What holds after k rounds, when d is the array with the last element at the root.
SinkInv(c, d, n, m, l, k) ==
  /\ SameCopies(l.A, d) /\ \A p \in m .. n : l.A[p] = c[p]
  /\ HeapOver(l.A, m - 1, l.i)
  /\ \A x \in Int : Bounds(c, m, x) => Bounds(l.A, m - 1, x)
  /\ l.i >= k + 1 \/ ~ Sinks(m, l)

\* A round keeps it.
LEMMA DelRoundKeeps ==
    ASSUME NEW n \in Nat, NEW m \in 1 .. n, NEW c, NEW d, NEW l \in HeapStates(n, n),
           NEW k \in 1 .. m, SinkInv(c, d, n, m, l, k - 1), NEW r, r = H!DelRound(m, l)
    PROVE  SinkInv(c, d, n, m, r, k)
<1>. DEFINE a == l.A
            i == l.i
            b == r.A
            j == r.i
<1>1. /\ SameCopies(a, d) /\ \A p \in m .. n : a[p] = c[p]
      /\ HeapOver(a, m - 1, i)
      /\ \A x \in Int : Bounds(c, m, x) => Bounds(a, m - 1, x)
      /\ i >= (k - 1) + 1 \/ ~ Sinks(m, l)
  BY DEF SinkInv
<1>2. a \in Blocks(n) /\ i \in 1 .. n
  BY DEF HeapStates
<1>3. CASE ~ Sinks(m, l)
  <2>1. r = l
    BY <1>3, DelRoundIs
  <2>. QED
    BY <1>1, <1>3, <2>1 DEF SinkInv
<1>4. CASE Sinks(m, l)
  <2>1. ChildMoved(n, m, a, i, b, j)
    BY <1>4, DelRoundIs
  <2>. HIDE DEF a, i, b, j
  <2>2. HeapOver(b, m - 1, j)
    BY <1>1, <1>2, <2>1, SinksOn
  <2>3. /\ j \in 1 .. m - 1 /\ (j = 2 * i \/ j = 2 * i + 1) /\ i \in 1 .. m - 1
        /\ b[i] = a[j] /\ b[j] = a[i]
        /\ \A p \in 1 .. n : p # i /\ p # j => b[p] = a[p]
        /\ SameCopies(b, a)
    BY <1>2, <2>1 DEF ChildMoved
  <2>4. SameCopies(b, d)
    BY <1>1, <2>3 DEF SameCopies
  <2>5. \A p \in m .. n : b[p] = c[p]
    <3>1. \A p \in m .. n : p \in 1 .. n /\ p # i /\ p # j
      BY <2>3
    <3>. QED
      BY <1>1, <2>3, <3>1
  <2>6. ASSUME NEW x \in Int, Bounds(c, m, x) PROVE Bounds(b, m - 1, x)
    <3>1. \A p \in 1 .. m - 1 : a[p] <= x
      BY <1>1, <2>6 DEF Bounds
    <3>2. ASSUME NEW p \in 1 .. m - 1 PROVE b[p] <= x
      <4>1. CASE p = i
        BY <2>3, <3>1, <4>1
      <4>2. CASE p = j
        BY <2>3, <3>1, <4>2
      <4>3. CASE p # i /\ p # j
        <5>1. p \in 1 .. n
          OBVIOUS
        <5>. QED
          BY <2>3, <3>1, <4>3, <5>1
      <4>. QED
        BY <4>1, <4>2, <4>3
    <3>. QED
      BY <3>2 DEF Bounds
  <2>7. j >= k + 1
    BY <1>1, <1>2, <1>4, <2>3
  <2>. QED
    BY <2>2, <2>4, <2>5, <2>6, <2>7 DEF SinkInv, b, j
<1>. QED
  BY <1>3, <1>4

\* The loop of del ends with it, and the element has sunk as far as it does.
LEMMA SinkingEnds ==
    ASSUME NEW n \in Nat, NEW m \in 2 .. n, NEW c \in Blocks(n), HeapUpTo(c, m - 1),
           NEW d, d = [c EXCEPT ![1] = c[m]], NEW l, l = H!Sinking(c, m)[m]
    PROVE  l \in HeapStates(n, n) /\ SinkInv(c, d, n, m, l, m) /\ ~ Sinks(m, l)
<1>. DEFINE r == H!Sinking(c, m)
            J == {k \in 0 .. m : SinkInv(c, d, n, m, r[k], k)}
<1>1. m \in 1 .. n /\ m \in Nat /\ 1 \in 1 .. n /\ \A p \in 1 .. n : c[p] \in Int
  BY DEF Blocks
<1>2. /\ \A k \in 0 .. m : r[k] \in HeapStates(n, n)
      /\ r[0] = [A |-> d, i |-> 1]
      /\ \A k \in 1 .. m : r[k] = H!DelRound(m, r[k - 1])
  BY <1>1, SinkingIs
<1>3. l = r[m]
  OBVIOUS
<1>. HIDE DEF r
<1>4. d \in Blocks(n) /\ d[1] = c[m] /\ \A p \in 1 .. n : p # 1 => d[p] = c[p]
  <2>1. CellSet(n, c, 1, c[m], d)
    BY <1>1, SetIs
  <2>. QED
    BY <2>1 DEF CellSet
<1>5. 0 \in J
  <2>1. r[0].A = d /\ r[0].i = 1
    BY <1>2
  <2>2. SameCopies(d, d) /\ \A p \in m .. n : d[p] = c[p]
    BY <1>4 DEF SameCopies
  <2>3. HeapOver(d, m - 1, 1)
    <3>1. ASSUME NEW k \in 2 .. m - 1, k \div 2 # 1 PROVE d[k] <= d[k \div 2]
      <4>1. PICK z \in 1 .. n : z = k \div 2
        BY <1>1
      <4>2. k \in 1 .. n /\ k # 1 /\ z # 1
        BY <1>1, <3>1, <4>1
      <4>3. c[k] <= c[z]
        BY <4>1 DEF HeapUpTo
      <4>. QED
        BY <1>4, <4>1, <4>2, <4>3
    <3>. QED
      BY <3>1 DEF HeapOver
  <2>4. ASSUME NEW x \in Int, Bounds(c, m, x) PROVE Bounds(d, m - 1, x)
    <3>1. \A p \in 1 .. m : c[p] <= x
      BY <2>4 DEF Bounds
    <3>2. ASSUME NEW p \in 1 .. m - 1 PROVE d[p] <= x
      <4>1. m \in 1 .. m /\ p \in 1 .. m /\ p \in 1 .. n
        BY <1>1
      <4>2. d[p] = c[p] \/ d[p] = c[m]
        BY <1>4, <4>1
      <4>. QED
        BY <3>1, <4>1, <4>2
    <3>. QED
      BY <3>2 DEF Bounds
  <2>5. SinkInv(c, d, n, m, r[0], 0)
    <3>1. r[0].i >= 0 + 1
      BY <2>1
    <3>. QED
      BY <2>1, <2>2, <2>3, <2>4, <3>1 DEF SinkInv
  <2>. QED
    BY <1>1, <2>5
<1>6. ASSUME NEW k \in 1 .. m, k - 1 \in J PROVE k \in J
  <2>1. r[k - 1] \in HeapStates(n, n) /\ SinkInv(c, d, n, m, r[k - 1], k - 1) /\ k \in 0 .. m
    BY <1>1, <1>2, <1>6
  <2>2. r[k] = H!DelRound(m, r[k - 1])
    BY <1>2
  <2>3. SinkInv(c, d, n, m, r[k], k)
    BY <1>1, <2>1, <2>2, DelRoundKeeps
  <2>. QED
    BY <2>1, <2>3
<1>. HIDE DEF J
<1>7. \A k \in 0 .. m : k \in J
  BY <1>1, <1>5, <1>6, InductTo
<1>8. l \in HeapStates(n, n) /\ SinkInv(c, d, n, m, l, m)
  <2>1. m \in 0 .. m
    BY <1>1
  <2>2. m \in J
    BY <1>7, <2>1
  <2>3. SinkInv(c, d, n, m, r[m], m)
    BY <2>2 DEF J
  <2>. QED
    BY <1>2, <1>3, <2>1, <2>3
<1>9. ~ Sinks(m, l)
  <2>1. l.i >= m + 1 \/ ~ Sinks(m, l)
    BY <1>8 DEF SinkInv
  <2>2. l.i \in Nat
    BY <1>8 DEF HeapStates
  <2>3. ASSUME l.i >= m + 1 PROVE ~ 2 * l.i < m - 1
    BY <1>1, <2>2, <2>3
  <2>. QED
    BY <2>1, <2>3 DEF Sinks
<1>. QED
  BY <1>8, <1>9

\* Where the loop of del ends every cell but the last of those that are left is in
\* its place, and the last of them is not above the root, if it is the third or later.
LEMMA SunkIs ==
    ASSUME NEW n \in Nat, NEW m \in 2 .. n, NEW l \in HeapStates(n, n),
           HeapOver(l.A, m - 1, l.i), ~ Sinks(m, l)
    PROVE  /\ HeapUpTo(l.A, m - 2)
           /\ m - 1 >= 3 => l.A[m - 1] <= l.A[1]
<1>. DEFINE a == l.A
            i == l.i
            j == LargerChild(a, i)
<1>1. a \in Blocks(n) /\ i \in 1 .. n /\ i \in Nat /\ m \in Nat /\ m <= n
      /\ \A p \in 1 .. n : a[p] \in Int
  BY DEF HeapStates, Blocks
<1>2. HeapOver(a, m - 1, i) /\ (2 * i < m - 1 => ~ a[j] > a[i])
  BY DEF Sinks
<1>. HIDE DEF a, i
<1>3. ASSUME 2 * i < m - 1 PROVE a[2 * i] <= a[i] /\ a[2 * i + 1] <= a[i]
  <2>1. PICK p \in 1 .. n : p = 2 * i
    BY <1>1, <1>3
  <2>2. PICK z \in 1 .. n : z = 2 * i + 1
    BY <1>1, <1>3
  <2>3. j = IF a[p] < a[z] THEN z ELSE p
    BY <2>1, <2>2 DEF LargerChild
  <2>4. ~ a[j] > a[i] /\ a[p] \in Int /\ a[z] \in Int /\ a[i] \in Int
    BY <1>1, <1>2, <1>3
  <2>. HIDE DEF j
  <2>5. a[p] <= a[i] /\ a[z] <= a[i]
    BY ONLY <2>3, <2>4
  <2>. QED
    BY <2>1, <2>2, <2>5
<1>4. ASSUME NEW k \in 2 .. m - 1, k \div 2 = i, 2 * i < m - 1 PROVE a[k] <= a[i]
  <2>1. k = 2 * i \/ k = 2 * i + 1
    BY <1>1, <1>4
  <2>. QED
    BY <1>3, <1>4, <2>1
<1>5. HeapUpTo(a, m - 2)
  <2>1. ASSUME NEW k \in 2 .. m - 2 PROVE a[k] <= a[k \div 2]
    <3>1. k \in 2 .. m - 1
      BY <1>1
    <3>2. CASE k \div 2 # i
      BY <1>2, <3>1, <3>2 DEF HeapOver
    <3>3. CASE k \div 2 = i
      <4>1. 2 * i < m - 1
        BY <1>1, <3>3
      <4>. QED
        BY <1>4, <3>1, <3>3, <4>1
    <3>. QED
      BY <3>2, <3>3
  <2>. QED
    BY <2>1 DEF HeapUpTo
<1>6. \A p \in 1 .. m - 2 : a[p] <= a[1]
  <2>1. m - 2 \in 0 .. n
    BY <1>1
  <2>. QED
    BY <1>1, <1>5, <2>1, HeapRoot
<1>7. ASSUME m - 1 >= 3 PROVE a[m - 1] <= a[1]
  <2>1. PICK k \in 2 .. m - 1 : k = m - 1
    BY <1>1, <1>7
  <2>2. PICK z \in 1 .. m - 2 : z = k \div 2
    BY <1>1, <1>7, <2>1
  <2>3. a[k] \in Int /\ a[z] \in Int /\ a[1] \in Int
    BY <1>1, <2>1, <2>2
  <2>4. CASE z # i
    <3>1. a[k] <= a[z]
      BY <1>2, <2>2, <2>4 DEF HeapOver
    <3>2. a[z] <= a[1]
      BY <1>6
    <3>. QED
      BY <2>1, <2>3, <3>1, <3>2
  <2>5. CASE z = i /\ i > 1
    <3>1. PICK p \in 1 .. m - 2 : p = i \div 2
      BY <1>1, <2>2, <2>5
    <3>2. a[k] <= a[p] /\ a[p] <= a[1] /\ a[p] \in Int
      BY <1>1, <1>2, <1>6, <2>2, <2>5, <3>1 DEF HeapOver
    <3>. QED
      BY <2>1, <2>3, <3>2
  <2>6. CASE z = i /\ ~ i > 1
    <3>1. i = 1 /\ 2 * i < m - 1
      BY <1>1, <1>7, <2>6
    <3>2. a[k] <= a[i]
      BY <1>4, <2>2, <2>6, <3>1
    <3>. QED
      BY <2>1, <3>1, <3>2
  <2>. QED
    BY <2>4, <2>5, <2>6
<1>. QED
  BY <1>5, <1>7 DEF a

\* What del needs of the first m cells, and leaves of those without the last.
HeapButLast(c, m) == HeapUpTo(c, m - 1) /\ (m >= 3 => c[m] <= c[1])

\* del moves the root to the end of the first m cells and leaves the others so.
DelDone(n, m, c, b) ==
  /\ b \in Blocks(n) /\ SameCopies(b, c)
  /\ b[m] = c[1] /\ \A p \in m + 1 .. n : b[p] = c[p]
  /\ HeapButLast(b, m - 1)
  /\ \A x \in Int : Bounds(c, m, x) => Bounds(b, m, x)

LEMMA DelIs ==
    ASSUME NEW n \in Nat, NEW m \in 2 .. n, NEW c \in Blocks(n), HeapButLast(c, m)
    PROVE  DelDone(n, m, c, H!del(c, m))
<1>. DEFINE b == H!del(c, m)
            d == [c EXCEPT ![1] = c[m]]
            l == H!Sinking(c, m)[m]
            a == l.A
<1>1. m \in 1 .. n /\ m \in Nat /\ 1 \in 1 .. n /\ m # 1 /\ \A p \in 1 .. n : c[p] \in Int
  BY DEF Blocks
<1>2. CellSet(n, c, 1, c[m], d)
  BY <1>1, SetIs
<1>3. l \in HeapStates(n, n) /\ SinkInv(c, d, n, m, l, m) /\ ~ Sinks(m, l)
  <2>1. HeapUpTo(c, m - 1)
    BY DEF HeapButLast
  <2>. QED
    BY <2>1, SinkingEnds
<1>4. b = [a EXCEPT ![m] = c[1]]
  BY DEF H!del
<1>5. d = [c EXCEPT ![1] = c[m]]
  OBVIOUS
<1>. HIDE DEF l, b, d
<1>6. /\ SameCopies(a, d) /\ \A p \in m .. n : a[p] = c[p]
      /\ HeapOver(a, m - 1, l.i)
      /\ \A x \in Int : Bounds(c, m, x) => Bounds(a, m - 1, x)
  BY <1>3 DEF SinkInv
<1>7. HeapUpTo(a, m - 2) /\ (m - 1 >= 3 => a[m - 1] <= a[1])
  BY <1>3, <1>6, SunkIs
<1>8. a \in Blocks(n)
  BY <1>3 DEF HeapStates
<1>. HIDE DEF a
<1>9. CellSet(n, a, m, c[1], b)
  BY <1>1, <1>4, <1>8, SetIs
<1>10. /\ b \in Blocks(n) /\ b[m] = c[1] /\ \A p \in 1 .. n : p # m => b[p] = a[p]
       /\ d \in Blocks(n) /\ d[1] = c[m] /\ \A p \in 1 .. n : p # 1 => d[p] = c[p]
  BY <1>2, <1>9 DEF CellSet
<1>11. ASSUME NEW v \in Int PROVE Copies(b, v) = Copies(c, v)
  <2>1. Others(b, n, m, v) = Others(a, n, m, v)
    BY <1>10, OthersSame
  <2>2. Others(d, n, 1, v) = Others(c, n, 1, v)
    BY <1>10, OthersSame
  <2>3. /\ Others(b, n, m, v) \in Nat
        /\ b[m] = v => Copies(b, v) = Others(b, n, m, v) + 1
        /\ b[m] # v => Copies(b, v) = Others(b, n, m, v)
    BY <1>1, <1>10, OthersIs
  <2>4. /\ a[m] = v => Copies(a, v) = Others(a, n, m, v) + 1
        /\ a[m] # v => Copies(a, v) = Others(a, n, m, v)
    BY <1>1, <1>8, OthersIs
  <2>5. /\ Others(d, n, 1, v) \in Nat
        /\ d[1] = v => Copies(d, v) = Others(d, n, 1, v) + 1
        /\ d[1] # v => Copies(d, v) = Others(d, n, 1, v)
    BY <1>1, <1>10, OthersIs
  <2>6. /\ c[1] = v => Copies(c, v) = Others(c, n, 1, v) + 1
        /\ c[1] # v => Copies(c, v) = Others(c, n, 1, v)
    BY <1>1, OthersIs
  <2>7. Copies(a, v) = Copies(d, v) /\ a[m] = c[m] /\ b[m] = c[1] /\ d[1] = c[m]
    BY <1>1, <1>6, <1>10 DEF SameCopies
  <2>. QED
    BY ONLY <2>1, <2>2, <2>3, <2>4, <2>5, <2>6, <2>7
<1>12. \A p \in m + 1 .. n : b[p] = c[p]
  <2>1. \A p \in m + 1 .. n : p \in 1 .. n /\ p \in m .. n /\ p # m
    BY <1>1
  <2>. QED
    BY <1>6, <1>10, <2>1
<1>13. HeapButLast(b, m - 1)
  <2>1. ASSUME NEW k \in 2 .. m - 2 PROVE b[k] <= b[k \div 2]
    <3>1. PICK z \in 1 .. n : z = k \div 2 /\ z # m
      BY <1>1
    <3>2. k \in 1 .. n /\ k # m
      BY <1>1
    <3>3. a[k] <= a[z]
      BY <1>7, <3>1 DEF HeapUpTo
    <3>. QED
      BY <1>10, <3>1, <3>2, <3>3
  <2>2. HeapUpTo(b, (m - 1) - 1)
    <3>1. (m - 1) - 1 = m - 2
      BY <1>1
    <3>. QED
      BY <2>1, <3>1 DEF HeapUpTo
  <2>3. m - 1 >= 3 => b[m - 1] <= b[1]
    <3>1. m - 1 >= 3 => m - 1 \in 1 .. n /\ m - 1 # m
      BY <1>1
    <3>. QED
      BY <1>1, <1>7, <1>10, <3>1
  <2>. QED
    BY <2>2, <2>3 DEF HeapButLast
<1>14. ASSUME NEW x \in Int, Bounds(c, m, x) PROVE Bounds(b, m, x)
  <2>1. \A p \in 1 .. m - 1 : a[p] <= x
    BY <1>6, <1>14 DEF Bounds
  <2>2. c[1] <= x
    <3>1. 1 \in 1 .. m
      BY <1>1
    <3>. QED
      BY <1>14, <3>1 DEF Bounds
  <2>3. ASSUME NEW p \in 1 .. m PROVE b[p] <= x
    <3>1. CASE p = m
      BY <1>10, <2>2, <3>1
    <3>2. CASE p # m
      <4>1. p \in 1 .. m - 1 /\ p \in 1 .. n
        BY <1>1, <3>2
      <4>. QED
        BY <1>10, <2>1, <3>2, <4>1
    <3>. QED
      BY <3>1, <3>2
  <2>. QED
    BY <2>3 DEF Bounds
<1>. QED
  BY <1>10, <1>11, <1>12, <1>13, <1>14 DEF DelDone, SameCopies, b

-----------------------------------------------------------------------------
(* heap_sort.                                                              *)

\* del leaves a block of the same length.
LEMMA DelType ==
    ASSUME NEW n \in Nat, NEW m \in 1 .. n, NEW c \in Blocks(n)
    PROVE  H!del(c, m) \in Blocks(n)
<1>. DEFINE r == H!Sinking(c, m)
            l == r[m]
            d == [c EXCEPT ![1] = c[m]]
            b == H!del(c, m)
<1>1. m \in Nat /\ c[1] \in Int
  BY DEF Blocks
<1>2. \A k \in 0 .. m : r[k] \in HeapStates(n, n)
  BY SinkingIs
<1>3. b = [l.A EXCEPT ![m] = c[1]]
  BY DEF H!del
<1>. HIDE DEF r, b
<1>4. l \in HeapStates(n, n)
  BY <1>1, <1>2
<1>5. l.A \in Blocks(n)
  BY <1>4 DEF HeapStates
<1>. HIDE DEF l
<1>6. CellSet(n, l.A, m, c[1], b)
  BY <1>1, <1>3, <1>5, SetIs
<1>. QED
  BY <1>6 DEF CellSet, b

\* heap_sort, deletion by deletion.
LEMMA SortingIs ==
    ASSUME NEW n \in Nat, NEW c \in Blocks(n), NEW r, r = H!Sorting(c)
    PROVE  /\ \A k \in 0 .. n : r[k] \in Blocks(n)
           /\ r[0] = c
           /\ \A k \in 1 .. n : r[k] = IF n + 1 - k < 2 THEN r[k - 1] ELSE H!del(r[k - 1], n + 1 - k)
<1>. DEFINE D == Blocks(n)
            Done(k, y) == IF n + 1 - k < 2 THEN y ELSE H!del(y, n + 1 - k)
            g == [p \in (1 .. n) \X D |-> Done(p[1], p[2])]
            Is(f) == f = [k \in 0 .. n |-> IF k = 0 THEN c ELSE Done(k, f[k - 1])]
            u == CHOOSE f : Is(f)
            F == [0 .. n -> D]
            h == LoopOf(n, c, g)
<1>1. Len(c) = n
  BY DEF Blocks
<1>2. r = u
  <2>1. H!Sorting(c) = CHOOSE f : f = [k \in 0 .. n |->
          IF k = 0 THEN c ELSE IF n + 1 - k < 2 THEN f[k - 1] ELSE H!del(f[k - 1], n + 1 - k)]
    BY <1>1 DEF H!Sorting
  <2>. QED
    BY <2>1
<1>0. c \in D
  OBVIOUS
<1>3. ASSUME NEW k \in 1 .. n, NEW y \in D PROVE Done(k, y) \in D
  <2>1. n + 1 - k \in 1 .. n
    OBVIOUS
  <2>2. H!del(y, n + 1 - k) \in Blocks(n)
    BY <2>1, DelType
  <2>. QED
    BY <2>2
<1>4. \A k \in 1 .. n : k - 1 \in 0 .. n
  OBVIOUS
<1>. HIDE DEF D, Done
<1>5. \A k \in 1 .. n : \A y \in D : g[<<k, y>>] = Done(k, y)
  OBVIOUS
<1>. HIDE DEF g, h
<1>6. h \in F /\ h[0] = c /\ \A k \in 1 .. n : h[k] = g[<<k, h[k - 1]>>]
  <2>1. \A k \in 1 .. n : \A y \in D : g[<<k, y>>] \in D
    BY <1>3, <1>5
  <2>2. IsLoop(h, n, D, c, g)
    BY ONLY <1>0, <2>1, n \in Nat, LoopIs DEF h
  <2>. QED
    BY <2>2 DEF IsLoop
<1>7. \A k \in 1 .. n : h[k] = Done(k, h[k - 1])
  BY <1>4, <1>5, <1>6
<1>8. Is(h)
  BY <1>6, <1>7
<1>9. Is(u)
  BY <1>8
<1>. HIDE DEF u
<1>10. u[0] = c /\ \A k \in 1 .. n : u[k] = Done(k, u[k - 1])
  <2>1. \A k \in 0 .. n : u[k] = IF k = 0 THEN c ELSE Done(k, u[k - 1])
    BY <1>9
  <2>2. 0 \in 0 .. n /\ \A k \in 1 .. n : k \in 0 .. n /\ k # 0
    OBVIOUS
  <2>. QED
    BY ONLY <2>1, <2>2
<1>. DEFINE J == {k \in 0 .. n : u[k] \in D}
<1>11. 0 \in J
  BY <1>0, <1>10
<1>12. ASSUME NEW k \in 1 .. n, k - 1 \in J PROVE k \in J
  BY <1>3, <1>10, <1>12
<1>. HIDE DEF J
<1>13. \A k \in 0 .. n : k \in J
  BY <1>11, <1>12, InductTo
<1>14. \A k \in 0 .. n : u[k] \in Blocks(n)
  BY <1>13 DEF J, D
<1>. QED
  BY <1>2, <1>10, <1>14 DEF Done

\* From the third on, the cells behind the first m have no larger one before them.
SortedFrom(c, n, m) ==
  \A p \in 3 .. n : m < p => \A z \in 1 .. p : c[z] <= c[p]

\* Deleting the root of the first m cells sorts one cell more.
LEMMA DelSorts ==
    ASSUME NEW n \in Nat, NEW m \in 2 .. n, NEW c \in Blocks(n), HeapButLast(c, m),
           SortedFrom(c, n, m), NEW b, DelDone(n, m, c, b)
    PROVE  SortedFrom(b, n, m - 1)
<1>1. /\ b[m] = c[1] /\ \A p \in m + 1 .. n : b[p] = c[p]
      /\ \A x \in Int : Bounds(c, m, x) => Bounds(b, m, x)
      /\ HeapUpTo(c, m - 1) /\ (m >= 3 => c[m] <= c[1])
  BY DEF DelDone, HeapButLast
<1>2. m \in Nat /\ m <= n /\ \A p \in 1 .. n : c[p] \in Int
  BY DEF Blocks
<1>. SUFFICES ASSUME NEW p \in 3 .. n, m - 1 < p, NEW z \in 1 .. p PROVE b[z] <= b[p]
  BY DEF SortedFrom
<1>3. p \in 1 .. n /\ z \in 1 .. n
  OBVIOUS
<1>4. CASE p = m
  <2>1. Bounds(c, m, c[1])
    <3>1. \A k \in 1 .. m - 1 : c[k] <= c[1]
      <4>1. m - 1 \in 0 .. n
        BY <1>2
      <4>. QED
        BY <1>1, <4>1, HeapRoot
    <3>2. \A k \in 1 .. m : k = m \/ k \in 1 .. m - 1
      BY <1>2
    <3>3. c[m] <= c[1]
      BY <1>1, <1>2, <1>4
    <3>. QED
      BY <3>1, <3>2, <3>3 DEF Bounds
  <2>2. c[1] \in Int
    BY <1>2
  <2>3. b[z] <= c[1]
    BY <1>1, <1>4, <2>1, <2>2 DEF Bounds
  <2>. QED
    BY <1>1, <1>4, <2>3
<1>5. CASE p # m
  <2>1. p \in m + 1 .. n /\ m < p
    BY <1>2, <1>5
  <2>2. \A k \in 1 .. p : c[k] <= c[p]
    BY <2>1 DEF SortedFrom
  <2>3. b[p] = c[p] /\ c[p] \in Int
    BY <1>1, <1>2, <1>3, <2>1
  <2>4. CASE z \in m + 1 .. n
    BY <1>1, <2>2, <2>3, <2>4
  <2>5. CASE z \in 1 .. m
    <3>1. Bounds(c, m, c[p])
      <4>1. \A k \in 1 .. m : k \in 1 .. p
        BY <1>2, <2>1
      <4>. QED
        BY <2>2, <4>1 DEF Bounds
    <3>2. b[z] <= c[p]
      BY <1>1, <2>3, <2>5, <3>1 DEF Bounds
    <3>. QED
      BY <2>3, <3>2
  <2>. QED
    BY <1>2, <1>3, <2>4, <2>5
<1>. QED
  BY <1>4, <1>5

\* heap_sort of a heap keeps its elements and sorts them but for the first two.
LEMMA SortIs ==
    ASSUME NEW n \in Nat, NEW c \in Blocks(n), HeapUpTo(c, n), NEW d, d = H!heap_sort(c)
    PROVE  d \in Blocks(n) /\ SameCopies(d, c) /\ SortedFrom(d, n, 0)
<1>. DEFINE r == H!Sorting(c)
            Kept(k) == /\ SameCopies(r[k], c) /\ SortedFrom(r[k], n, n - k)
                       /\ HeapButLast(r[k], n - k)
            J == {k \in 0 .. n : Kept(k)}
<1>1. /\ \A k \in 0 .. n : r[k] \in Blocks(n)
      /\ r[0] = c
      /\ \A k \in 1 .. n : r[k] = IF n + 1 - k < 2 THEN r[k - 1] ELSE H!del(r[k - 1], n + 1 - k)
  BY SortingIs
<1>2. d = r[n]
  BY DEF H!heap_sort, Blocks
<1>. HIDE DEF r
<1>3. 0 \in J
  <2>1. SameCopies(c, c)
    BY DEF SameCopies
  <2>2. SortedFrom(c, n, n)
    BY DEF SortedFrom
  <2>3. HeapUpTo(c, n - 1)
    BY DEF HeapUpTo
  <2>4. n >= 3 => c[n] <= c[1]
    <3>1. n \in 0 .. n
      OBVIOUS
    <3>2. \A p \in 1 .. n : c[p] <= c[1]
      BY <3>1, HeapRoot
    <3>. QED
      BY <3>2
  <2>5. n - 0 = n
    OBVIOUS
  <2>. QED
    BY <1>1, <2>1, <2>2, <2>3, <2>4, <2>5 DEF HeapButLast
<1>4. ASSUME NEW k \in 1 .. n, k - 1 \in J PROVE k \in J
  <2>. DEFINE a == r[k - 1]
  <2>1. PICK m \in 1 .. n : m = n + 1 - k
    OBVIOUS
  <2>2. n - (k - 1) = m /\ n - k = m - 1 /\ k \in 0 .. n /\ k - 1 \in 0 .. n
    BY <2>1
  <2>3. SameCopies(a, c) /\ SortedFrom(a, n, m) /\ HeapButLast(a, m) /\ a \in Blocks(n)
    BY <1>1, <1>4, <2>2
  <2>4. r[k] = IF m < 2 THEN a ELSE H!del(a, m)
    BY <1>1, <2>1
  <2>. HIDE DEF a
  <2>5. CASE m < 2
    <3>1. m = 1 /\ r[k] = a
      BY <2>4, <2>5
    <3>2. SortedFrom(a, n, m - 1)
      BY <2>3, <3>1 DEF SortedFrom
    <3>3. HeapButLast(a, m - 1)
      BY <3>1 DEF HeapButLast, HeapUpTo
    <3>. QED
      BY <2>2, <2>3, <3>1, <3>2, <3>3
  <2>6. CASE ~ m < 2
    <3>1. m \in 2 .. n /\ r[k] = H!del(a, m)
      BY <2>4, <2>6
    <3>2. DelDone(n, m, a, r[k])
      BY <2>3, <3>1, DelIs
    <3>3. SortedFrom(r[k], n, m - 1)
      BY <2>3, <3>1, <3>2, DelSorts
    <3>4. SameCopies(r[k], c) /\ HeapButLast(r[k], m - 1)
      BY <2>3, <3>2 DEF DelDone, SameCopies
    <3>. QED
      BY <2>2, <3>3, <3>4
  <2>. QED
    BY <2>5, <2>6
<1>. HIDE DEF J
<1>5. \A k \in 0 .. n : k \in J
  BY <1>3, <1>4, InductTo
<1>6. n \in 0 .. n /\ n - n = 0
  OBVIOUS
<1>7. n \in J
  BY <1>5, <1>6
<1>8. SameCopies(r[n], c) /\ SortedFrom(r[n], n, 0)
  BY <1>6, <1>7 DEF J
<1>. QED
  BY <1>1, <1>2, <1>6, <1>8

\* Of any text create_heap makes a heap and heap_sort what it promises.
LEMMA HeapSorts ==
    ASSUME text \in Seq(Codes)
    PROVE  HeapSortsAllButTwo
<1>. DEFINE n == Len(text)
            h == H!create_heap(text)
            r == H!heap_sort(h)
<1>1. text \in Blocks(n) /\ n \in Nat
  <2>1. n \in Nat /\ \A p \in 1 .. n : text[p] \in Codes
    BY ElementOfSeq
  <2>2. \A p \in 1 .. n : text[p] \in Int
    <3>1. \A x \in Codes : x \in Int
      BY OrderingAssumption
    <3>. QED
      BY ONLY <2>1, <3>1
  <2>3. text \in [1 .. n -> Codes]
    OBVIOUS
  <2>4. text \in [1 .. n -> Int]
    BY ONLY <2>2, <2>3
  <2>5. text \in Seq(Int)
    BY ONLY <2>1, <2>4, SeqDef
  <2>. QED
    BY <2>1, <2>5 DEF Blocks
<1>. HIDE DEF n, h, r
<1>2. h \in Blocks(n) /\ SameCopies(h, text) /\ HeapUpTo(h, n)
  BY <1>1, CreateIs DEF h
<1>3. r \in Blocks(n) /\ SameCopies(r, h) /\ SortedFrom(r, n, 0)
  BY <1>1, <1>2, SortIs DEF r
<1>4. \A c \in Blocks(n) : Len(c) = n /\ Range(c) \subseteq Int
  <2>. SUFFICES ASSUME NEW c \in Blocks(n) PROVE Range(c) \subseteq Int /\ Len(c) = n
    OBVIOUS
  <2>1. c \in Seq(Int) /\ Len(c) = n
    BY DEF Blocks
  <2>2. Range(c) = {c[i] : i \in 1 .. Len(c)}
    BY <2>1, RangeIs
  <2>3. \A i \in 1 .. Len(c) : c[i] \in Int
    BY <2>1
  <2>. QED
    BY <2>1, <2>2, <2>3
<1>5. H!IsHeap(h)
  BY <1>2, <1>4 DEF H!IsHeap, HeapUpTo
<1>6. SameElements(h, text)
  BY <1>1, <1>2, <1>4 DEF SameElements, SameCopies
<1>7. SameElements(r, text)
  <2>1. Range(r) \subseteq Int /\ Range(text) \subseteq Int
    BY <1>1, <1>3, <1>4
  <2>2. \A v \in Int : Copies(r, v) = Copies(text, v)
    BY <1>2, <1>3 DEF SameCopies
  <2>. QED
    BY <2>1, <2>2 DEF SameElements
<1>8. \A m \in 3 .. Len(r) : \A k \in 1 .. m : r[k] <= r[m]
  <2>1. Len(r) = n
    BY <1>3, <1>4
  <2>2. \A m \in 3 .. n : 0 < m
    OBVIOUS
  <2>. QED
    BY <1>3, <2>1, <2>2 DEF SortedFrom
<1>. QED
  BY <1>5, <1>6, <1>7, <1>8 DEF HeapSortsAllButTwo, h, r

\* The arrays are what ArrayInv says and the text is one of characters.
OrderInv == ArrayInv /\ text \in Seq(Codes)

LEMMA OrderInvariant == OrderSpec => []OrderInv
<1>1. OrderInit => OrderInv
  BY ArrayInit DEF OrderInit, NoText, OrderInv
<1>2. OrderInv /\ [OrderNext]_<<vars, text>> => OrderInv'
  <2>. SUFFICES ASSUME OrderInv, [OrderNext]_<<vars, text>> PROVE OrderInv'
    OBVIOUS
  <2>. USE DEF OrderInv
  <2>1. CASE Call
    <3>1. [Next]_vars /\ text' = text
      BY <2>1 DEF Call
    <3>. QED
      BY <3>1, ArrayStep
  <2>2. ASSUME NEW c \in Codes, Write(c) PROVE OrderInv'
    <3>1. [Next]_vars /\ text' = Append(text, c)
      BY <2>2 DEF Write
    <3>2. text' \in Seq(Codes)
      BY <3>1
    <3>. QED
      BY <3>1, <3>2, ArrayStep
  <2>3. CASE UNCHANGED <<vars, text>>
    <3>1. [Next]_vars /\ text' = text
      BY <2>3
    <3>. QED
      BY <3>1, ArrayStep
  <2>. QED
    BY <2>1, <2>2, <2>3 DEF OrderNext
<1>. QED
  BY <1>1, <1>2, PTL DEF OrderSpec

\* Of any arrays and any text, of any length: what binary_search, merge,
\* array_union, array_intersect, create_heap and heap_sort make of order.
THEOREM OrderKeptHolds == OrderSpec => []OrderKept
<1>1. OrderInv => OrderKept
  BY SearchesFind, Combines, HeapSorts DEF OrderKept, OrderInv
<1>. QED
  BY <1>1, OrderInvariant, PTL

-----------------------------------------------------------------------------
(* The string functions.                                                   *)

\* find_length is the number of characters before the first Nul.
LEMMA LengthIs ==
    ASSUME NEW y \in Seq(Int), NEW n \in Nat, n < Len(y), y[n + 1] = 0,
           \A i \in 1 .. n : y[i] # 0
    PROVE  C!find_length(y) = n
<1>. DEFINE I == {i \in 1 .. Len(y) : y[i] = 0}
<1>1. Len(y) \in Nat /\ n + 1 \in I
  OBVIOUS
<1>2. \A i \in I : n + 1 <= i
  OBVIOUS
<1>3. C!find_length(y) = (IF I # {} THEN C!Min(I) ELSE 0) - 1
  BY DEF C!find_length, C!SelectInSeq, C!Nul
<1>4. \A i \in I : i \in Nat
  BY <1>1
<1>. HIDE DEF I
<1>5. C!Min(I) = CHOOSE x \in I : \A z \in I : x =< z
  BY DEF C!Min
<1>6. \A x \in I : (\A z \in I : x =< z) => x = n + 1
  BY <1>1, <1>2, <1>4
<1>7. C!Min(I) = n + 1
  BY <1>1, <1>2, <1>5, <1>6
<1>. QED
  BY <1>1, <1>3, <1>7

IsText(t) == t \in Seq(Int) /\ \A i \in 1 .. Len(t) : 1 <= t[i] /\ t[i] <= 126

\* A text with a Nul behind is a string of its length.
LEMMA StringIs ==
    ASSUME NEW t, IsText(t), NEW y, y = Append(t, 0)
    PROVE  /\ y \in Seq(Int) /\ Len(t) \in Nat /\ Len(y) = Len(t) + 1 /\ DOMAIN y = 1 .. Len(t) + 1
           /\ \A i \in 1 .. Len(t) : y[i] = t[i] /\ y[i] \in Int /\ 1 <= y[i] /\ y[i] <= 126
           /\ y[Len(t) + 1] = 0
           /\ C!find_length(y) = Len(t)
<1>1. t \in Seq(Int) /\ Len(t) \in Nat
  BY DEF IsText
<1>2. y \in Seq(Int) /\ Len(y) = Len(t) + 1 /\ DOMAIN y = 1 .. Len(t) + 1
  BY <1>1
<1>3. y[Len(t) + 1] = 0
  BY <1>1
<1>4. ASSUME NEW i \in 1 .. Len(t)
      PROVE  y[i] = t[i] /\ y[i] \in Int /\ 1 <= y[i] /\ y[i] <= 126
  <2>1. y[i] = t[i] /\ t[i] \in Int
    BY <1>1
  <2>2. 1 <= t[i] /\ t[i] <= 126
    BY DEF IsText
  <2>. QED
    BY ONLY <2>1, <2>2
<1>5. C!find_length(y) = Len(t)
  <2>1. \A i \in 1 .. Len(t) : y[i] # 0
    BY <1>4
  <2>2. Len(t) < Len(y)
    BY <1>1, <1>2
  <2>. HIDE DEF IsText
  <2>. QED
    BY ONLY <1>1, <1>2, <1>3, <2>1, <2>2, LengthIs
<1>. QED
  BY <1>1, <1>2, <1>3, <1>4, <1>5

\* So is the string that has another character in each place of it.
LEMMA LengthKept ==
    ASSUME NEW t, IsText(t), NEW y \in Seq(Int), Len(y) = Len(t) + 1, y[Len(t) + 1] = 0,
           \A i \in 1 .. Len(t) : y[i] # 0
    PROVE  C!find_length(y) = Len(t)
<1>1. Len(t) \in Nat /\ Len(t) < Len(y)
  BY DEF IsText
<1>. QED
  BY <1>1, LengthIs

\* What the loops that change the letters of a string write.
IsString(y, n) ==
  /\ y \in Seq(Int) /\ Len(y) = n + 1 /\ DOMAIN y = 1 .. n + 1
  /\ y[n + 1] = 0 /\ \A i \in 1 .. n : y[i] \in Int

ChangedBy(z, y, n, change) == IsString(z, n) /\ \A i \in 1 .. n : z[i] = y[i] + change[i]

LEMMA ChangedIs ==
    ASSUME NEW n \in Nat, NEW y, IsString(y, n), C!find_length(y) = n,
           NEW change \in [DOMAIN y -> Int]
    PROVE  ChangedBy(C!Changed(y, change), y, n, change)
<1>. DEFINE z == C!Changed(y, change)
<1>0. /\ y \in Seq(Int) /\ Len(y) = n + 1 /\ DOMAIN y = 1 .. n + 1
      /\ y[n + 1] = 0 /\ \A i \in 1 .. n : y[i] \in Int
  BY DEF IsString
<1>1. \A i \in 1 .. n + 1 : y[i] \in Int /\ change[i] \in Int
  BY <1>0
<1>2. z = [i \in 1 .. n + 1 |-> IF i <= n THEN y[i] + change[i] ELSE y[i]]
  BY <1>0 DEF C!Changed
<1>. HIDE DEF z
<1>3. \A i \in 1 .. n + 1 : z[i] \in Int
  BY <1>1, <1>2
<1>4. z \in Seq(Int) /\ Len(z) = n + 1
  <2>. DEFINE m == n + 1
  <2>1. m \in Nat /\ z \in [1 .. m -> Int]
    BY <1>1, <1>2, <1>3
  <2>. HIDE DEF m
  <2>2. z \in Seq(Int) /\ Len(z) = m
    BY <2>1
  <2>. QED
    BY <2>2 DEF m
<1>5. z[n + 1] = 0 /\ \A i \in 1 .. n : z[i] = y[i] + change[i]
  BY <1>0, <1>1, <1>2
<1>6. IsString(z, n)
  BY <1>2, <1>3, <1>4, <1>5 DEF IsString
<1>. QED
  BY <1>5, <1>6 DEF ChangedBy, z

\* flip, and the functions it is compared with.
Flipped(z, y, n) ==
  /\ IsString(z, n)
  /\ \A i \in 1 .. n : /\ y[i] \in C!Upper => z[i] = y[i] + 32
                       /\ y[i] \notin C!Upper => z[i] = y[i] - 32

LEMMA FlipIs ==
    ASSUME NEW n \in Nat, NEW y, IsString(y, n), C!find_length(y) = n
    PROVE  Flipped(C!flip(y), y, n)
<1>. DEFINE change == [i \in DOMAIN y |-> IF y[i] \in C!Upper THEN 32 ELSE -32]
            z == C!flip(y)
<1>1. z = C!Changed(y, change)
  BY DEF C!flip
<1>2. change \in [DOMAIN y -> Int]
  OBVIOUS
<1>3. \A i \in 1 .. n : i \in DOMAIN y /\ y[i] \in Int
  BY DEF IsString
<1>4. \A i \in 1 .. n : /\ y[i] \in C!Upper => change[i] = 32
                        /\ y[i] \notin C!Upper => change[i] = -32
  BY <1>3
<1>. HIDE DEF change, z
<1>5. ChangedBy(z, y, n, change)
  BY <1>1, <1>2, ChangedIs
<1>6. IsString(z, n) /\ \A i \in 1 .. n : z[i] = y[i] + change[i]
  BY <1>5 DEF ChangedBy
<1>7. \A i \in 1 .. n : /\ y[i] \in C!Upper => z[i] = y[i] + 32
                        /\ y[i] \notin C!Upper => z[i] = y[i] - 32
  BY <1>3, <1>4, <1>6
<1>. QED
  BY <1>6, <1>7 DEF Flipped, z

\* Strings of one length are equal when their characters are.
LEMMA SameStrings ==
    ASSUME NEW n \in Nat, NEW y, NEW z, IsString(y, n), IsString(z, n),
           \A i \in 1 .. n : y[i] = z[i]
    PROVE  y = z
<1>0. y \in Seq(Int) /\ z \in Seq(Int) /\ Len(y) = n + 1 /\ Len(z) = n + 1 /\ y[n + 1] = z[n + 1]
  BY DEF IsString
<1>1. \A i \in 1 .. n + 1 : i = n + 1 \/ i \in 1 .. n
  OBVIOUS
<1>2. \A i \in 1 .. n + 1 : y[i] = z[i]
  BY <1>0, <1>1
<1>. QED
  BY <1>0, <1>2, SeqEqual

\* The text as a string.
LEMMA StrIs ==
    ASSUME IsText(text)
    PROVE  /\ Len(text) \in Nat /\ DOMAIN text = 1 .. Len(text)
           /\ IsString(str, Len(text)) /\ C!find_length(str) = Len(text)
           /\ \A i \in 1 .. Len(text) : /\ str[i] = text[i] /\ text[i] \in ToSet(text)
                                        /\ str[i] \in Int /\ 1 <= str[i] /\ str[i] <= 126
<1>1. str = Append(text, 0)
  BY DEF str, C!Nul
<1>. HIDE DEF str
<1>2. DOMAIN text = 1 .. Len(text)
  BY DEF IsText
<1>3. /\ str \in Seq(Int) /\ Len(text) \in Nat /\ Len(str) = Len(text) + 1
      /\ DOMAIN str = 1 .. Len(text) + 1
      /\ \A i \in 1 .. Len(text) : str[i] = text[i] /\ str[i] \in Int /\ 1 <= str[i] /\ str[i] <= 126
      /\ str[Len(text) + 1] = 0
      /\ C!find_length(str) = Len(text)
  BY <1>1, StringIs
<1>4. IsString(str, Len(text))
  BY <1>3 DEF IsString
<1>5. \A i \in 1 .. Len(text) : text[i] \in ToSet(text)
  BY <1>2 DEF ToSet
<1>. QED
  BY <1>2, <1>3, <1>4, <1>5

\* Texts of letters of one case.
LEMMA OneCase ==
    ASSUME IsText(text)
    PROVE  /\ ToSet(text) \subseteq C!Lower => C!flip(str) = C!upper_address(str)
           /\ ToSet(text) \subseteq C!Upper => C!flip(str) = C!lower_ref(str)
<1>. DEFINE n == Len(text)
            f == C!flip(str)
            u == C!upper_address(str)
            l == C!lower_ref(str)
<1>1. /\ n \in Nat /\ IsString(str, n) /\ C!find_length(str) = n
      /\ \A i \in 1 .. n : str[i] = text[i] /\ text[i] \in ToSet(text) /\ str[i] \in Int
  BY StrIs
<1>2. Flipped(f, str, n)
  BY <1>1, FlipIs
<1>3. IsString(u, n) /\ \A i \in 1 .. n : u[i] = str[i] - 32
  <2>. DEFINE change == [i \in DOMAIN str |-> -32]
  <2>1. u = C!Changed(str, change) /\ change \in [DOMAIN str -> Int]
    BY DEF C!upper_address
  <2>2. \A i \in 1 .. n : str[i] \in Int /\ change[i] = -32
    BY <1>1 DEF IsString
  <2>. HIDE DEF change, u, n
  <2>3. ChangedBy(u, str, n, change)
    BY <1>1, <2>1, ChangedIs
  <2>. QED
    BY <2>2, <2>3 DEF ChangedBy
<1>4. IsString(l, n) /\ \A i \in 1 .. n : l[i] = str[i] + 32
  <2>. DEFINE change == [i \in DOMAIN str |-> 32]
  <2>1. l = C!Changed(str, change) /\ change \in [DOMAIN str -> Int]
    BY DEF C!lower_ref
  <2>2. \A i \in 1 .. n : str[i] \in Int /\ change[i] = 32
    BY <1>1 DEF IsString
  <2>. HIDE DEF change, l, n
  <2>3. ChangedBy(l, str, n, change)
    BY <1>1, <2>1, ChangedIs
  <2>. QED
    BY <2>2, <2>3 DEF ChangedBy
<1>. HIDE DEF f, u, l, n
<1>5. IsString(f, n)
  BY <1>2 DEF Flipped
<1>6. ASSUME ToSet(text) \subseteq C!Lower PROVE f = u
  <2>1. ASSUME NEW i \in 1 .. n PROVE f[i] = u[i]
    <3>1. str[i] \in C!Lower /\ str[i] \in Int
      BY <1>1, <1>6
    <3>2. str[i] \notin C!Upper
      BY <3>1 DEF C!Lower, C!Upper
    <3>3. f[i] = str[i] - 32
      BY <1>2, <3>2 DEF Flipped
    <3>. QED
      BY <1>3, <3>1, <3>3
  <2>. QED
    BY <1>1, <1>3, <1>5, <2>1, SameStrings
<1>7. ASSUME ToSet(text) \subseteq C!Upper PROVE f = l
  <2>1. ASSUME NEW i \in 1 .. n PROVE f[i] = l[i]
    <3>1. str[i] \in C!Upper /\ str[i] \in Int
      BY <1>1, <1>7
    <3>2. f[i] = str[i] + 32
      BY <1>2, <3>1 DEF Flipped
    <3>. QED
      BY <1>4, <3>1, <3>2
  <2>. QED
    BY <1>1, <1>4, <1>5, <2>1, SameStrings
<1>. QED
  BY <1>6, <1>7 DEF f, u, l

\* Letters have two cases, and flip goes from the one to the other.
LEMMA TwoCases ==
    ASSUME IsText(text), ToSet(text) \subseteq C!Upper \union C!Lower
    PROVE  /\ C!flip(C!flip(str)) = str
           /\ \A i \in DOMAIN text : text[i] \in C!Upper <=> C!flip(str)[i] \in C!Lower
<1>. DEFINE n == Len(text)
            f == C!flip(str)
            g == C!flip(f)
<1>1. /\ n \in Nat /\ DOMAIN text = 1 .. n /\ IsString(str, n) /\ C!find_length(str) = n
      /\ \A i \in 1 .. n : str[i] = text[i] /\ text[i] \in ToSet(text) /\ str[i] \in Int
  BY StrIs
<1>2. Flipped(f, str, n)
  BY <1>1, FlipIs
<1>. HIDE DEF f, n
<1>3. IsString(f, n)
  BY <1>2 DEF Flipped
<1>4. ASSUME NEW i \in 1 .. n
      PROVE  /\ str[i] \in C!Upper <=> f[i] \in C!Lower
             /\ f[i] \in C!Upper <=> str[i] \notin C!Upper
             /\ f[i] \in Int /\ f[i] # 0
  <2>1. str[i] \in Int /\ (str[i] \in C!Upper \/ str[i] \in C!Lower)
    BY <1>1
  <2>2. CASE str[i] \in C!Upper
    <3>1. f[i] = str[i] + 32
      BY <1>2, <2>2 DEF Flipped
    <3>. QED
      BY <2>1, <2>2, <3>1 DEF C!Upper, C!Lower
  <2>3. CASE str[i] \notin C!Upper
    <3>1. f[i] = str[i] - 32 /\ str[i] \in C!Lower
      BY <1>2, <2>1, <2>3 DEF Flipped
    <3>. QED
      BY <2>1, <2>3, <3>1 DEF C!Upper, C!Lower
  <2>. QED
    BY <2>2, <2>3
<1>5. C!find_length(f) = n
  <2>1. f \in Seq(Int) /\ n < Len(f) /\ f[n + 1] = 0
    BY <1>1, <1>3 DEF IsString
  <2>. QED
    BY <1>1, <1>4, <2>1, LengthIs
<1>6. Flipped(g, f, n)
  BY <1>1, <1>3, <1>5, FlipIs
<1>. HIDE DEF g
<1>7. ASSUME NEW i \in 1 .. n PROVE g[i] = str[i]
  <2>1. str[i] \in Int
    BY <1>1
  <2>2. CASE str[i] \in C!Upper
    <3>1. f[i] = str[i] + 32 /\ f[i] \notin C!Upper
      BY <1>2, <1>4, <2>2 DEF Flipped
    <3>2. g[i] = f[i] - 32
      BY <1>6, <3>1 DEF Flipped
    <3>. QED
      BY <2>1, <3>1, <3>2
  <2>3. CASE str[i] \notin C!Upper
    <3>1. f[i] = str[i] - 32 /\ f[i] \in C!Upper
      BY <1>2, <1>4, <2>3 DEF Flipped
    <3>2. g[i] = f[i] + 32
      BY <1>6, <3>1 DEF Flipped
    <3>. QED
      BY <2>1, <3>1, <3>2
  <2>. QED
    BY <2>2, <2>3
<1>8. g = str
  <2>1. IsString(g, n)
    BY <1>6 DEF Flipped
  <2>. QED
    BY <1>1, <1>7, <2>1, SameStrings
<1>. QED
  BY <1>1, <1>4, <1>8 DEF g, f

\* flip ends a string where its first space was.
LEMMA EndsAtSpace ==
    ASSUME IsText(text)
    PROVE  C!find_length(C!flip(str)) = SelectInSeq(Append(text, C!Space), LAMBDA c : c = C!Space) - 1
<1>. DEFINE n == Len(text)
            w == Append(text, 32)
            I == {i \in 1 .. Len(w) : w[i] = 32}
            f == C!flip(str)
<1>1. /\ n \in Nat /\ IsString(str, n) /\ C!find_length(str) = n
      /\ \A i \in 1 .. n : /\ str[i] = text[i] /\ str[i] \in Int /\ 1 <= str[i] /\ str[i] <= 126
  BY StrIs
<1>2. Flipped(f, str, n)
  BY <1>1, FlipIs
<1>3. Len(w) = n + 1 /\ w[n + 1] = 32 /\ \A i \in 1 .. n : w[i] = text[i]
  <2>1. text \in Seq(Int)
    BY DEF IsText
  <2>. QED
    BY <2>1
<1>4. SelectInSeq(Append(text, C!Space), LAMBDA c : c = C!Space) = IF I # {} THEN Min(I) ELSE 0
  BY DEF SelectInSeq, C!Space
<1>. HIDE DEF w, n, f
<1>5. I \subseteq Nat /\ n + 1 \in I
  BY <1>1, <1>3
<1>6. PICK m \in I : \A i \in I : m <= i
  BY <1>5, LeastNat
<1>7. m \in 1 .. n + 1 /\ w[m] = 32 /\ \A i \in 1 .. n : i < m => w[i] # 32
  BY <1>1, <1>3, <1>6
<1>8. Min(I) = m
  <2>1. \A x \in I : (\A z \in I : x =< z) => x = m
    <3>1. \A x \in I : x \in Nat
      BY <1>5
    <3>. HIDE DEF I
    <3>. QED
      BY <1>6, <3>1
  <2>. HIDE DEF I
  <2>. QED
    BY <1>6, <2>1 DEF Min
<1>9. f \in Seq(Int) /\ Len(f) = n + 1 /\ f[n + 1] = 0
  BY <1>2 DEF Flipped, IsString
<1>10. f[m] = 0
  <2>1. CASE m = n + 1
    BY <1>9, <2>1
  <2>2. CASE m # n + 1
    <3>1. m \in 1 .. n
      BY <1>1, <1>7, <2>2
    <3>2. str[m] = 32
      BY <1>1, <1>3, <1>7, <3>1
    <3>3. str[m] \notin C!Upper
      BY <3>2 DEF C!Upper
    <3>4. f[m] = str[m] - 32
      BY <1>2, <3>1, <3>3 DEF Flipped
    <3>. QED
      BY <3>2, <3>4
  <2>. QED
    BY <2>1, <2>2
<1>11. ASSUME NEW i \in 1 .. m - 1 PROVE f[i] # 0
  <2>1. i \in 1 .. n /\ i < m
    BY <1>1, <1>7
  <2>2. str[i] # 32 /\ str[i] \in Int /\ 1 <= str[i]
    BY <1>1, <1>3, <1>7, <2>1
  <2>3. f[i] = str[i] + 32 \/ f[i] = str[i] - 32
    BY <1>2, <2>1 DEF Flipped
  <2>. QED
    BY <2>2, <2>3
<1>12. C!find_length(f) = m - 1
  <2>. DEFINE k == m - 1
  <2>1. k \in Nat /\ k < Len(f) /\ k + 1 = m
    BY <1>1, <1>7, <1>9
  <2>2. \A i \in 1 .. k : f[i] # 0
    BY <1>11
  <2>. HIDE DEF k
  <2>3. f[k + 1] = 0
    BY <1>10, <2>1
  <2>4. C!find_length(f) = k
    BY <1>9, <2>1, <2>2, <2>3, LengthIs
  <2>. QED
    BY <2>4 DEF k
<1>. QED
  BY <1>4, <1>6, <1>8, <1>12 DEF f

LEMMA CasesAreFlipped == ASSUME IsText(text) PROVE CasesFlipped
  BY OneCase, TwoCases, EndsAtSpace DEF CasesFlipped

\* equals compares what both strings have.
LEMMA EqualsIs ==
    ASSUME NEW s, IsText(s), NEW t, IsText(t)
    PROVE  C!equals(Append(s, 0), Append(t, 0)) <=> \A i \in 1 .. Len(s) : i <= Len(t) => s[i] = t[i]
<1>. DEFINE y == Append(s, 0)
            z == Append(t, 0)
<1>1. /\ Len(s) \in Nat /\ DOMAIN y = 1 .. Len(s) + 1 /\ C!find_length(y) = Len(s)
      /\ \A i \in 1 .. Len(s) : y[i] = s[i]
  BY StringIs
<1>2. /\ Len(t) \in Nat /\ DOMAIN z = 1 .. Len(t) + 1 /\ C!find_length(z) = Len(t)
      /\ \A i \in 1 .. Len(t) : z[i] = t[i]
  BY StringIs
<1>. HIDE DEF y, z
<1>3. C!equals(y, z) <=> \A i \in DOMAIN y \intersect DOMAIN z :
                            i <= C!find_length(y) /\ i <= C!find_length(z) => y[i] = z[i]
  BY DEF C!equals
<1>4. ASSUME C!equals(y, z), NEW i \in 1 .. Len(s), i <= Len(t) PROVE s[i] = t[i]
  BY <1>1, <1>2, <1>3, <1>4
<1>5. ASSUME \A i \in 1 .. Len(s) : i <= Len(t) => s[i] = t[i] PROVE C!equals(y, z)
  <2>1. ASSUME NEW i \in DOMAIN y \intersect DOMAIN z, i <= Len(s), i <= Len(t)
        PROVE  y[i] = z[i]
    <3>1. i \in 1 .. Len(s) /\ i \in 1 .. Len(t)
      BY <1>1, <1>2, <2>1
    <3>. QED
      BY <1>1, <1>2, <1>5, <3>1
  <2>. QED
    BY <1>1, <1>2, <1>3, <2>1
<1>. QED
  BY <1>4, <1>5 DEF y, z

\* A prefix has the first elements of the other sequence.
LEMMA PrefixIs ==
    ASSUME NEW s \in Seq(Int), NEW t \in Seq(Int), Len(s) <= Len(t)
    PROVE  IsPrefix(s, t) <=> \A i \in 1 .. Len(s) : s[i] = t[i]
<1>. DEFINE n == Len(s)
            a == SubSeq(s, 1, n)
            b == SubSeq(t, 1, n)
<1>1. n \in Nat /\ n <= Len(t) /\ Len(t) \in Nat
  OBVIOUS
<1>2. a \in Seq(Int) /\ b \in Seq(Int) /\ Len(a) = n /\ Len(b) = n
      /\ \A i \in 1 .. n : a[i] = s[i] /\ b[i] = t[i]
  BY <1>1
<1>3. IsPrefix(s, t) <=> a = b
  BY DEF IsPrefix
<1>. HIDE DEF a, b
<1>4. (\A i \in 1 .. n : a[i] = b[i]) => a = b
  BY <1>2, SeqEqual
<1>. QED
  BY <1>2, <1>3, <1>4

LEMMA PrefixesEqual ==
    ASSUME NEW s, IsText(s), NEW t, IsText(t)
    PROVE  C!equals(Append(s, 0), Append(t, 0)) <=> IsPrefix(s, t) \/ IsPrefix(t, s)
<1>1. s \in Seq(Int) /\ t \in Seq(Int) /\ Len(s) \in Nat /\ Len(t) \in Nat
  BY DEF IsText
<1>2. IsPrefix(s, t) => Len(s) <= Len(t)
  BY DEF IsPrefix
<1>3. IsPrefix(t, s) => Len(t) <= Len(s)
  BY DEF IsPrefix
<1>4. Len(s) <= Len(t) => (IsPrefix(s, t) <=> \A i \in 1 .. Len(s) : s[i] = t[i])
  BY <1>1, PrefixIs
<1>5. Len(t) <= Len(s) => (IsPrefix(t, s) <=> \A i \in 1 .. Len(t) : t[i] = s[i])
  BY <1>1, PrefixIs
<1>6. C!equals(Append(s, 0), Append(t, 0)) <=> \A i \in 1 .. Len(s) : i <= Len(t) => s[i] = t[i]
  BY EqualsIs
<1>7. CASE Len(s) <= Len(t)
  <2>1. (\A i \in 1 .. Len(s) : i <= Len(t) => s[i] = t[i]) <=> \A i \in 1 .. Len(s) : s[i] = t[i]
    BY <1>1, <1>7
  <2>2. IsPrefix(t, s) => IsPrefix(s, t)
    <3>1. SUFFICES ASSUME IsPrefix(t, s) PROVE IsPrefix(s, t)
      OBVIOUS
    <3>2. Len(s) = Len(t)
      BY <1>1, <1>3, <1>7, <3>1
    <3>. QED
      BY <1>4, <1>5, <3>1, <3>2
  <2>. QED
    BY <1>4, <1>6, <1>7, <2>1, <2>2
<1>8. CASE ~ (Len(s) <= Len(t))
  <2>1. Len(t) <= Len(s) /\ ~ IsPrefix(s, t)
    BY <1>1, <1>2, <1>8
  <2>2. (\A i \in 1 .. Len(s) : i <= Len(t) => s[i] = t[i]) <=> \A i \in 1 .. Len(t) : t[i] = s[i]
    BY <1>1, <2>1
  <2>. QED
    BY <1>5, <1>6, <2>1, <2>2
<1>. QED
  BY <1>7, <1>8

LEMMA TextPart ==
    ASSUME NEW t, IsText(t), NEW i \in 1 .. Len(t) + 1, NEW j \in 0 .. Len(t), i <= j + 1
    PROVE  IsText(SubSeq(t, i, j))
<1>. DEFINE u == SubSeq(t, i, j)
            m == j - i + 1
<1>1. t \in Seq(Int) /\ Len(t) \in Nat /\ \A k \in 1 .. Len(t) : 1 <= t[k] /\ t[k] <= 126
  BY DEF IsText
<1>2. m \in Nat /\ i \in Nat /\ j \in Nat /\ j <= Len(t) /\ i + m = j + 1 /\ 1 <= i
  BY <1>1
<1>3. u \in Seq(Int) /\ Len(u) = m /\ \A k \in 1 .. m : u[k] = t[i + k - 1]
  BY <1>1, <1>2
<1>. HIDE DEF u, m
<1>4. \A k \in 1 .. m : i + k - 1 \in 1 .. Len(t)
  BY <1>1, <1>2
<1>5. IsText(u)
  BY <1>1, <1>3, <1>4 DEF IsText
<1>. QED
  BY <1>5 DEF u

LEMMA BeginningsAreEqual == ASSUME IsText(text) PROVE BeginningsEqual
<1>. SUFFICES ASSUME NEW k \in 0 .. Len(text)
              PROVE  C!equals(Append(SubSeq(text, 1, k), 0), Append(SubSeq(text, k + 1, Len(text)), 0))
                       <=> \/ IsPrefix(SubSeq(text, 1, k), SubSeq(text, k + 1, Len(text)))
                           \/ IsPrefix(SubSeq(text, k + 1, Len(text)), SubSeq(text, 1, k))
  BY DEF BeginningsEqual, C!Nul
<1>. DEFINE a == SubSeq(text, 1, k)
            b == SubSeq(text, k + 1, Len(text))
<1>1. Len(text) \in Nat
  BY DEF IsText
<1>2. 1 \in 1 .. Len(text) + 1 /\ k + 1 \in 1 .. Len(text) + 1 /\ Len(text) \in 0 .. Len(text)
      /\ 1 <= k + 1 /\ k + 1 <= Len(text) + 1
  BY <1>1
<1>3. IsText(a) /\ IsText(b)
  BY <1>2, TextPart
<1>. HIDE DEF a, b
<1>4. C!equals(Append(a, 0), Append(b, 0)) <=> IsPrefix(a, b) \/ IsPrefix(b, a)
  BY <1>3, PrefixesEqual
<1>. QED
  BY <1>4 DEF a, b

\* reverse turns the text round and leaves the Nul behind it.
LEMMA TextReversed == ASSUME IsText(text) PROVE C!Text(C!reverse(str)) = Reverse(text)
<1>. DEFINE n == Len(text)
            r == C!reverse(str)
            a == SubSeq(r, 1, n)
            b == Reverse(text)
<1>1. /\ n \in Nat /\ IsString(str, n) /\ C!find_length(str) = n
      /\ \A i \in 1 .. n : /\ str[i] = text[i] /\ str[i] \in Int /\ 1 <= str[i]
  BY StrIs
<1>2. str \in Seq(Int) /\ Len(str) = n + 1 /\ DOMAIN str = 1 .. n + 1 /\ str[n + 1] = 0
  BY <1>1 DEF IsString
<1>3. r = [i \in 1 .. n + 1 |-> IF i <= n THEN str[n + 1 - i]
                                ELSE IF i = n + 1 THEN C!Nul ELSE str[i]]
  BY <1>1, <1>2 DEF C!reverse
<1>4. b = [i \in 1 .. n |-> text[(n - i) + 1]]
  BY DEF Reverse
<1>. HIDE DEF r, n, b
<1>5. \A i \in 1 .. n : n + 1 - i \in 1 .. n /\ (n - i) + 1 = n + 1 - i
  BY <1>1
<1>6. r[n + 1] = 0 /\ \A i \in 1 .. n : r[i] = str[n + 1 - i]
  <2>1. n + 1 \in 1 .. n + 1 /\ ~ (n + 1 <= n) /\ \A i \in 1 .. n : i \in 1 .. n + 1 /\ i <= n
    BY <1>1
  <2>. QED
    BY <1>3, <2>1 DEF C!Nul
<1>7. \A i \in 1 .. n : r[i] \in Int /\ r[i] # 0
  BY <1>1, <1>5, <1>6
<1>8. r \in Seq(Int) /\ Len(r) = n + 1
  <2>. DEFINE m == n + 1
  <2>1. \A i \in 1 .. n + 1 : i \in 1 .. n \/ i = n + 1
    BY <1>1
  <2>2. \A i \in 1 .. n + 1 : r[i] \in Int
    BY <1>6, <1>7, <2>1
  <2>3. m \in Nat /\ r \in [1 .. m -> Int]
    BY <1>1, <1>3, <2>2
  <2>. HIDE DEF m
  <2>4. r \in Seq(Int) /\ Len(r) = m
    BY <2>3
  <2>. QED
    BY <2>4 DEF m
<1>9. C!find_length(r) = n
  <2>1. n < Len(r)
    BY <1>1, <1>8
  <2>. QED
    BY <1>1, <1>6, <1>7, <1>8, <2>1, LengthIs
<1>10. a \in Seq(Int) /\ Len(a) = n /\ \A i \in 1 .. n : a[i] = r[i]
  BY <1>1, <1>8
<1>11. b \in Seq(Int) /\ Len(b) = n /\ \A i \in 1 .. n : b[i] = str[n + 1 - i]
  <2>1. \A i \in 1 .. n : b[i] = str[n + 1 - i] /\ b[i] \in Int
    BY <1>1, <1>4, <1>5
  <2>2. b \in [1 .. n -> Int]
    BY <1>4, <2>1
  <2>. QED
    BY <1>1, <2>1, <2>2
<1>. HIDE DEF a
<1>12. a = b
  BY <1>6, <1>10, <1>11, SeqEqual
<1>. QED
  BY <1>9, <1>12 DEF C!Text, a, b, r

\* How many numbers up to n are in P.
CountTo(P, n) == Cardinality({i \in 1 .. n : i \in P})

LEMMA CountMore ==
    ASSUME NEW P, NEW n \in Nat
    PROVE  /\ CountTo(P, n) \in Nat
           /\ n + 1 \in P => CountTo(P, n + 1) = CountTo(P, n) + 1
           /\ n + 1 \notin P => CountTo(P, n + 1) = CountTo(P, n)
<1>. DEFINE U == {i \in 1 .. n : i \in P}
            W == {i \in 1 .. n + 1 : i \in P}
<1>1. IsFiniteSet(U)
  <2>1. IsFiniteSet(1 .. n) /\ U \subseteq 1 .. n
    BY FS_Interval
  <2>. QED
    BY <2>1, FS_Subset
<1>2. n + 1 \notin U
  OBVIOUS
<1>3. n + 1 \in P => W = U \cup {n + 1}
  OBVIOUS
<1>4. n + 1 \notin P => W = U
  <2>1. \A i \in 1 .. n + 1 : i = n + 1 \/ i \in 1 .. n
    OBVIOUS
  <2>. QED
    BY <2>1
<1>5. CountTo(P, n) = Cardinality(U) /\ CountTo(P, n + 1) = Cardinality(W)
  BY DEF CountTo
<1>. HIDE DEF U, W
<1>6. Cardinality(U) \in Nat /\ Cardinality(U \cup {n + 1}) = Cardinality(U) + 1
  BY <1>1, <1>2, FS_CardinalityType, FS_AddElement
<1>. QED
  BY <1>3, <1>4, <1>5, <1>6

LEMMA CountNone == \A P : CountTo(P, 0) = 0
<1>. SUFFICES ASSUME NEW P PROVE CountTo(P, 0) = 0
  OBVIOUS
<1>1. {i \in 1 .. 0 : i \in P} = {}
  OBVIOUS
<1>. QED
  BY <1>1, FS_EmptySet DEF CountTo

\* The places of t up to m in which a word begins, and those that end one.
Begins(B, t, m) == \A i \in 1 .. m : i \in B <=> t[i] # 32 /\ (i = 1 \/ t[i - 1] = 32)

Ends(E, t, m, before) ==
  \A i \in 1 .. m : i \in E <=> t[i] = 32 /\ (IF i = 1 THEN before ELSE t[i - 1]) # 32

\* Between the first character and the n-th, words begin as often as they end,
\* but for a word that the n-th is in and a space in the first place which ends
\* one that is in front of the array.
LEMMA WordsEnd ==
    ASSUME NEW t, NEW m \in Nat \ {0}, NEW before, NEW B, NEW E, NEW d \in 0 .. 1,
           d = IF t[1] = 32 /\ before # 32 THEN 1 ELSE 0,
           Begins(B, t, m), Ends(E, t, m, before)
    PROVE  /\ CountTo(B, m) \in Nat /\ CountTo(E, m) \in Nat
           /\ t[m] # 32 => CountTo(E, m) + 1 = CountTo(B, m) + d
           /\ t[m] = 32 => CountTo(E, m) = CountTo(B, m) + d
<1>. DEFINE Good(n) == /\ CountTo(B, n) \in Nat /\ CountTo(E, n) \in Nat
                       /\ t[n] # 32 => CountTo(E, n) + 1 = CountTo(B, n) + d
                       /\ t[n] = 32 => CountTo(E, n) = CountTo(B, n) + d
            J == {k \in 0 .. m : k # 0 => Good(k)}
<1>1. 0 \in J
  OBVIOUS
<1>2. ASSUME NEW k \in 1 .. m, k - 1 \in J PROVE k \in J
  <2>1. k - 1 \in Nat /\ (k - 1) + 1 = k
    OBVIOUS
  <2>2. /\ CountTo(B, k - 1) \in Nat
        /\ k \in B => CountTo(B, k) = CountTo(B, k - 1) + 1
        /\ k \notin B => CountTo(B, k) = CountTo(B, k - 1)
    BY <2>1, CountMore
  <2>3. /\ CountTo(E, k - 1) \in Nat
        /\ k \in E => CountTo(E, k) = CountTo(E, k - 1) + 1
        /\ k \notin E => CountTo(E, k) = CountTo(E, k - 1)
    BY <2>1, CountMore
  <2>4. k \in B <=> t[k] # 32 /\ (k = 1 \/ t[k - 1] = 32)
    BY DEF Begins
  <2>5. k \in E <=> t[k] = 32 /\ (IF k = 1 THEN before ELSE t[k - 1]) # 32
    BY DEF Ends
  <2>6. Good(k)
    <3>1. CASE k = 1
      <4>1. CountTo(B, k - 1) = 0 /\ CountTo(E, k - 1) = 0
        BY <3>1, CountNone
      <4>2. CASE t[k] = 32
        BY <2>2, <2>3, <2>4, <2>5, <3>1, <4>1, <4>2
      <4>3. CASE t[k] # 32
        BY <2>2, <2>3, <2>4, <2>5, <3>1, <4>1, <4>3
      <4>. QED
        BY <4>2, <4>3
    <3>2. CASE k # 1
      <4>1. Good(k - 1)
        BY <1>2, <3>2
      <4>2. CASE t[k] = 32
        BY <2>2, <2>3, <2>4, <2>5, <3>2, <4>1, <4>2
      <4>3. CASE t[k] # 32
        BY <2>2, <2>3, <2>4, <2>5, <3>2, <4>1, <4>3
      <4>. QED
        BY <4>2, <4>3
    <3>. QED
      BY <3>1, <3>2
  <2>. QED
    BY <2>6
<1>. HIDE DEF J
<1>3. \A k \in 0 .. m : k \in J
  BY <1>1, <1>2, InductTo
<1>. QED
  BY <1>3 DEF J

LEMMA SameCardinality == \A S : C!Cardinality(S) = Cardinality(S)
  BY DEF C!Cardinality, Cardinality

LEMMA WordsAreCounted == ASSUME IsText(text), Codes \subseteq Int PROVE WordsCounted
<1>. SUFFICES ASSUME NEW before \in Codes
              PROVE  IF C!IsTrimmed(text) THEN C!count_word(before, str) = C!Words(text)
                     ELSE C!count_word(before, str) \in C!Words(text) .. C!Words(text) + 2
  BY DEF WordsCounted
<1>. DEFINE m == Len(text)
            B == {i \in 1 .. m : text[i] # 32 /\ (i = 1 \/ text[i - 1] = 32)}
            E == {i \in 1 .. m : str[i] = 32 /\ (IF i = 1 THEN before ELSE str[i - 1]) # 32}
            d == IF text[1] = 32 /\ before # 32 THEN 1 ELSE 0
<1>1. /\ m \in Nat /\ DOMAIN text = 1 .. m /\ C!find_length(str) = m
      /\ \A i \in 1 .. m : str[i] = text[i] /\ text[i] \in Int
  BY StrIs
<1>2. C!Words(text) = CountTo(B, m)
  <2>1. {i \in 1 .. m : i \in B} = B
    OBVIOUS
  <2>2. C!Words(text) = Cardinality(B)
    BY <1>1, SameCardinality DEF C!Words, C!Space
  <2>. QED
    BY <2>1, <2>2 DEF CountTo
<1>3. C!count_word(before, str) = CountTo(E, m) + 1
  <2>1. {i \in 1 .. m : i \in E} = E
    OBVIOUS
  <2>2. C!count_word(before, str) = Cardinality(E) + 1
    BY <1>1, SameCardinality DEF C!count_word, C!Space
  <2>. QED
    BY <2>1, <2>2 DEF CountTo
<1>4. C!IsTrimmed(text) <=> text # << >> /\ text[1] # 32 /\ text[m] # 32
  BY DEF C!IsTrimmed, C!Space, Last, C!Last
<1>5. d \in 0 .. 1
  OBVIOUS
<1>6. Begins(B, text, m)
  BY DEF Begins
<1>7. Ends(E, text, m, before)
  <2>. SUFFICES ASSUME NEW i \in 1 .. m
                PROVE  i \in E <=> text[i] = 32 /\ (IF i = 1 THEN before ELSE text[i - 1]) # 32
    BY DEF Ends
  <2>1. i = 1 \/ i - 1 \in 1 .. m
    BY <1>1
  <2>2. str[i] = text[i] /\ (i # 1 => str[i - 1] = text[i - 1])
    BY <1>1, <2>1
  <2>. QED
    BY <2>2
<1>8. d = IF text[1] = 32 /\ before # 32 THEN 1 ELSE 0
  OBVIOUS
<1>. HIDE DEF m, B, E, d
<1>9. CASE m = 0
  <2>1. text = << >>
    BY <1>9 DEF m, IsText
  <2>2. CountTo(B, m) = 0 /\ CountTo(E, m) = 0
    BY <1>9, CountNone
  <2>. QED
    BY <1>2, <1>3, <1>4, <2>1, <2>2
<1>10. CASE m # 0
  <2>1. /\ CountTo(B, m) \in Nat /\ CountTo(E, m) \in Nat
        /\ text[m] # 32 => CountTo(E, m) + 1 = CountTo(B, m) + d
        /\ text[m] = 32 => CountTo(E, m) = CountTo(B, m) + d
    <3>1. m \in Nat \ {0}
      BY <1>1, <1>10
    <3>. QED
      BY <1>5, <1>6, <1>7, <1>8, <3>1, WordsEnd
  <2>2. CASE C!IsTrimmed(text)
    <3>1. d = 0 /\ text[m] # 32
      BY <1>4, <1>8, <2>2
    <3>. QED
      BY <1>2, <1>3, <2>1, <2>2, <3>1
  <2>3. CASE ~ C!IsTrimmed(text)
    <3>1. text[m] = 32 \/ text[m] # 32
      OBVIOUS
    <3>. QED
      BY <1>2, <1>3, <1>5, <2>1, <2>3, <3>1
  <2>. QED
    BY <2>2, <2>3
<1>. QED
  BY <1>9, <1>10

LEMMA StringsEnd == ASSUME IsText(text), Codes \subseteq Int PROVE StringsAtTheirEnds
  BY WordsAreCounted, CasesAreFlipped, BeginningsAreEqual, TextReversed DEF StringsAtTheirEnds

-----------------------------------------------------------------------------
(* The format of a log().                                                  *)

\* F[k] is the first k sequences of c, one behind the other.
Joins(F, c) ==
  /\ F[0] = << >> /\ \A k \in 0 .. Len(c) : F[k] \in Seq(Int)
  /\ \A k \in 1 .. Len(c) : F[k] = F[k - 1] \o c[k]

LEMMA FlattenIs ==
    ASSUME NEW c \in Seq(Seq(Int))
    PROVE  \E F : Joins(F, c) /\ FlattenSeq(c) = F[Len(c)]
<1>. DEFINE n == Len(c)
            D == Seq(Int)
            x == << >>
            g == [p \in (1 .. n) \X D |-> p[2] \o c[p[1]]]
            F == LoopOf(n, x, g)
            Is(f) == f = [i \in 1 .. n |-> IF i = 1 THEN c[i] ELSE f[i - 1] \o c[i]]
            h == [i \in 1 .. n |-> F[i]]
            u == CHOOSE f : Is(f)
<1>1. n \in Nat /\ x \in D /\ \A k \in 1 .. n : c[k] \in D
  BY ElementOfSeq
<1>2. \A k \in 1 .. n : \A y \in D : g[<<k, y>>] = y \o c[k] /\ g[<<k, y>>] \in D
  <2>1. \A y \in D, z \in D : y \o z \in D
    BY ConcatProperties
  <2>. QED
    BY <1>1, <2>1
<1>3. FlattenSeq(c) = IF n = 0 THEN c ELSE u[n]
  BY DEF FlattenSeq
<1>4. \A k \in 1 .. n : k - 1 \in 0 .. n
  BY <1>1
<1>. HIDE DEF g, D, n, F
<1>5. F[0] = x /\ (\A k \in 0 .. n : F[k] \in D) /\ \A k \in 1 .. n : F[k] = g[<<k, F[k - 1]>>]
  <2>1. \A k \in 1 .. n : \A y \in D : g[<<k, y>>] \in D
    BY <1>2
  <2>. HIDE DEF x
  <2>2. IsLoop(F, n, D, x, g)
    BY ONLY <1>1, <2>1, LoopIs DEF F
  <2>. QED
    BY <2>2 DEF IsLoop
<1>6. \A k \in 1 .. n : F[k] = F[k - 1] \o c[k]
  BY <1>2, <1>4, <1>5
<1>7. Joins(F, c)
  BY <1>5, <1>6 DEF Joins, D, n
<1>8. CASE n = 0
  <2>1. c = << >>
    BY <1>8 DEF n
  <2>. QED
    BY <1>3, <1>5, <1>7, <1>8, <2>1 DEF n
<1>9. CASE n # 0
  <2>1. 1 \in 1 .. n /\ n \in 1 .. n /\ \A i \in 1 .. n : i # 1 => i - 1 \in 1 .. n
    BY <1>1, <1>9
  <2>2. F[1] = c[1]
    <3>1. F[1] = x \o c[1]
      <4>1. 1 - 1 = 0
        OBVIOUS
      <4>. QED
        BY <1>5, <1>6, <2>1, <4>1
    <3>2. c[1] \in Seq(Int)
      BY <1>1, <2>1 DEF D
    <3>. QED
      BY <3>1, <3>2
  <2>3. Is(h)
    <3>1. \A i \in 1 .. n : i # 1 => h[i - 1] = F[i - 1]
      BY <2>1
    <3>2. \A i \in 1 .. n : F[i] = IF i = 1 THEN c[i] ELSE h[i - 1] \o c[i]
      BY <1>6, <2>2, <3>1
    <3>. QED
      BY <3>2
  <2>. HIDE DEF h
  <2>4. Is(u)
    BY <2>3
  <2>. HIDE DEF u
  <2>5. \A i \in 1 .. n : u[i] = IF i = 1 THEN c[i] ELSE u[i - 1] \o c[i]
    BY <2>4
  <2>. HIDE DEF Is
  <2>. DEFINE J == {k \in 0 .. n : k # 0 => u[k] = F[k]}
  <2>6. 0 \in J
    BY <1>1
  <2>7. ASSUME NEW k \in 1 .. n, k - 1 \in J PROVE k \in J
    <3>1. k \in 0 .. n
      BY <1>1
    <3>2. CASE k = 1
      BY <2>2, <2>5, <3>1, <3>2
    <3>3. CASE k # 1
      <4>1. u[k - 1] = F[k - 1]
        BY <2>7, <3>3
      <4>2. u[k] = u[k - 1] \o c[k]
        BY <2>5, <3>3
      <4>. QED
        BY <1>6, <3>1, <4>1, <4>2
    <3>. QED
      BY <3>2, <3>3
  <2>. HIDE DEF J
  <2>8. \A k \in 0 .. n : k \in J
    BY <1>1, <2>6, <2>7, InductTo
  <2>9. u[n] = F[n]
    BY <1>1, <1>9, <2>1, <2>8 DEF J
  <2>. QED
    BY <1>3, <1>7, <1>9, <2>9 DEF n
<1>. QED
  BY <1>8, <1>9

\* How far a percent is from the beginning of its run.
Offset(fmt, p) == p - L!RunStart(fmt, p)

LEMMA OffsetIs ==
    ASSUME NEW fmt \in Seq(Int), NEW p \in 1 .. Len(fmt), fmt[p] = 37
    PROVE  /\ Offset(fmt, p) \in Nat
           /\ p = 1 \/ fmt[p - 1] # 37 => Offset(fmt, p) = 0
           /\ p # 1 /\ fmt[p - 1] = 37 => Offset(fmt, p) = Offset(fmt, p - 1) + 1
<1>. DEFINE S(m) == {r \in 1 .. m : \A z \in r .. m : fmt[z] = 37}
            Least(x, T) == x \in T /\ \A y \in T : x =< y
<1>1. \A m : L!RunStart(fmt, m) = CHOOSE x \in S(m) : \A y \in S(m) : x =< y
  BY DEF L!RunStart, L!Min, L!Percent
<1>2. \A m \in Nat : S(m) \subseteq Nat
  OBVIOUS
<1>3. ASSUME NEW m \in Nat, S(m) # {} PROVE Least(L!RunStart(fmt, m), S(m))
  <2>1. \E x \in S(m) : \A y \in S(m) : x =< y
    <3>. DEFINE T == S(m)
    <3>1. T \in SUBSET Nat /\ T # {}
      BY <1>2, <1>3
    <3>. HIDE DEF T
    <3>2. \E x \in T : \A y \in T : x <= y
      BY <3>1, LeastNat
    <3>. QED
      BY <3>2 DEF T
  <2>. QED
    BY <1>1, <2>1
<1>4. p \in Nat /\ p \in S(p)
  OBVIOUS
<1>5. Least(L!RunStart(fmt, p), S(p))
  BY <1>3, <1>4
<1>6. L!RunStart(fmt, p) \in 1 .. p
  BY <1>5
<1>7. Offset(fmt, p) \in Nat
  BY <1>4, <1>6 DEF Offset
<1>8. CASE p = 1 \/ fmt[p - 1] # 37
  <2>1. \A r \in S(p) : r = p
    <3>. SUFFICES ASSUME NEW r \in 1 .. p, \A z \in r .. p : fmt[z] = 37, r # p PROVE FALSE
      OBVIOUS
    <3>1. p - 1 \in r .. p /\ p # 1
      OBVIOUS
    <3>. QED
      BY <1>8, <3>1
  <2>2. L!RunStart(fmt, p) = p
    BY <1>5, <2>1
  <2>. QED
    BY <1>4, <1>7, <1>8, <2>2 DEF Offset
<1>9. CASE p # 1 /\ fmt[p - 1] = 37
  <2>. DEFINE m == p - 1
  <2>1. m \in Nat /\ m \in S(m) /\ m \in 1 .. p
    BY <1>9
  <2>2. Least(L!RunStart(fmt, m), S(m))
    BY <1>3, <2>1
  <2>3. \A r \in 1 .. m : r \in S(m) <=> r \in S(p)
    <3>1. ASSUME NEW r \in 1 .. m
          PROVE  (\A z \in r .. m : fmt[z] = 37) <=> (\A z \in r .. p : fmt[z] = 37)
      <4>1. \A z \in r .. p : z = p \/ z \in r .. m
        OBVIOUS
      <4>2. \A z \in r .. m : z \in r .. p
        OBVIOUS
      <4>. QED
        BY <4>1, <4>2
    <3>2. \A r \in 1 .. m : r \in 1 .. p
      OBVIOUS
    <3>. QED
      BY <3>1, <3>2
  <2>4. \A r \in S(p) : r = p \/ r \in 1 .. m
    OBVIOUS
  <2>5. \A r \in S(m) : r \in 1 .. m
    OBVIOUS
  <2>. HIDE DEF S
  <2>6. L!RunStart(fmt, p) = L!RunStart(fmt, m)
    <3>. DEFINE a == L!RunStart(fmt, p)
                b == L!RunStart(fmt, m)
    <3>1. b \in 1 .. m /\ b \in S(p)
      BY <2>2, <2>3, <2>5
    <3>2. a \in S(p) /\ a <= b /\ a \in 1 .. p
      BY <1>5, <1>6, <3>1
    <3>3. a \in 1 .. m
      BY <2>1, <2>4, <3>1, <3>2
    <3>4. a \in S(m)
      BY <2>3, <3>2, <3>3
    <3>5. b <= a
      BY <2>2, <3>4
    <3>. HIDE DEF a, b
    <3>6. a = b
      BY <3>1, <3>2, <3>5
    <3>. QED
      BY <3>6 DEF a, b
  <2>7. p - L!RunStart(fmt, p) = ((p - 1) - L!RunStart(fmt, m)) + 1
    BY <1>4, <1>6, <2>6
  <2>. QED
    BY <1>7, <1>9, <2>7 DEF Offset, m
<1>. QED
  BY <1>7, <1>8, <1>9

\* At a place s that the walk comes to, an even number of percents is in front.
Even(fmt, s) == s \in 1 .. Len(fmt) /\ fmt[s] = 37 => Offset(fmt, s) % 2 = 0

LEMMA PlaceOrLiteral ==
    ASSUME NEW fmt \in Seq(Int), NEW p \in 1 .. Len(fmt)
    PROVE  /\ fmt[p] # 37 => ~ L!IsPlace(fmt, p) /\ L!IsLiteral(fmt, p)
           /\ fmt[p] = 37 => (L!IsLiteral(fmt, p) <=> Offset(fmt, p) % 2 = 1)
           /\ fmt[p] = 37 => (L!IsPlace(fmt, p) <=>
                  ~ (p + 1 \in 1 .. Len(fmt) /\ fmt[p + 1] = 37) /\ Offset(fmt, p) % 2 = 0)
<1>1. DOMAIN fmt = 1 .. Len(fmt)
  OBVIOUS
<1>. QED
  BY <1>1 DEF L!IsPlace, L!IsLiteral, L!At, L!Percent, Offset

\* What the walk finds where it is: a character, a %% or a place.
LEMMA AtCharacter ==
    ASSUME NEW fmt \in Seq(Int), NEW p \in 1 .. Len(fmt), fmt[p] # 37
    PROVE  ~ L!IsPlace(fmt, p) /\ L!IsLiteral(fmt, p) /\ Even(fmt, p + 1)
<1>1. p \in Nat /\ Len(fmt) \in Nat
  OBVIOUS
<1>2. ASSUME p + 1 \in 1 .. Len(fmt), fmt[p + 1] = 37 PROVE Offset(fmt, p + 1) = 0
  <2>1. fmt[(p + 1) - 1] # 37
    BY <1>1
  <2>. QED
    BY <1>2, <2>1, OffsetIs
<1>3. Even(fmt, p + 1)
  BY <1>2 DEF Even
<1>. QED
  BY <1>3, PlaceOrLiteral

LEMMA AtTwoPercents ==
    ASSUME NEW fmt \in Seq(Int), NEW p \in 1 .. Len(fmt), fmt[p] = 37, Even(fmt, p),
           p + 1 \in 1 .. Len(fmt), fmt[p + 1] = 37
    PROVE  /\ ~ L!IsPlace(fmt, p) /\ ~ L!IsLiteral(fmt, p)
           /\ ~ L!IsPlace(fmt, p + 1) /\ L!IsLiteral(fmt, p + 1) /\ Even(fmt, p + 2)
<1>1. p \in Nat /\ Len(fmt) \in Nat /\ (p + 1) - 1 = p /\ p + 1 # 1 /\ (p + 2) - 1 = p + 1 /\ p + 2 # 1
  OBVIOUS
<1>2. Offset(fmt, p) \in Nat /\ Offset(fmt, p) % 2 = 0
  BY OffsetIs DEF Even
<1>3. Offset(fmt, p + 1) = Offset(fmt, p) + 1
  <2>. DEFINE z == p + 1
  <2>1. z \in 1 .. Len(fmt) /\ fmt[z] = 37 /\ z # 1 /\ z - 1 = p /\ fmt[z - 1] = 37
    BY <1>1
  <2>. HIDE DEF z
  <2>2. Offset(fmt, z) = Offset(fmt, z - 1) + 1
    BY <2>1, OffsetIs
  <2>. QED
    BY <2>1, <2>2 DEF z
<1>4. ASSUME p + 2 \in 1 .. Len(fmt), fmt[p + 2] = 37 PROVE Offset(fmt, p + 2) = Offset(fmt, p) + 2
  <2>. DEFINE z == p + 2
  <2>1. z \in 1 .. Len(fmt) /\ fmt[z] = 37 /\ z # 1 /\ z - 1 = p + 1 /\ fmt[z - 1] = 37
    BY <1>1, <1>4
  <2>. HIDE DEF z
  <2>2. Offset(fmt, z) = Offset(fmt, z - 1) + 1
    BY <2>1, OffsetIs
  <2>. QED
    BY <1>2, <1>3, <2>1, <2>2 DEF z
<1>. DEFINE a == Offset(fmt, p)
<1>5. (a + 1) % 2 = 1 /\ (a + 2) % 2 = 0
  <2>1. \A b \in Nat : b % 2 = 0 => (b + 1) % 2 = 1 /\ (b + 2) % 2 = 0
    OBVIOUS
  <2>. QED
    BY <1>2, <2>1
<1>6. Even(fmt, p + 2)
  BY <1>4, <1>5 DEF Even
<1>7. ~ L!IsPlace(fmt, p) /\ ~ L!IsLiteral(fmt, p)
  BY <1>2, PlaceOrLiteral
<1>8. ~ L!IsPlace(fmt, p + 1) /\ L!IsLiteral(fmt, p + 1)
  BY <1>3, <1>5, PlaceOrLiteral
<1>. QED
  BY <1>6, <1>7, <1>8

LEMMA AtPlace ==
    ASSUME NEW fmt \in Seq(Int), NEW p \in 1 .. Len(fmt), fmt[p] = 37, Even(fmt, p),
           ~ (p + 1 \in 1 .. Len(fmt) /\ fmt[p + 1] = 37)
    PROVE  L!IsPlace(fmt, p) /\ Even(fmt, p + 1)
  BY PlaceOrLiteral DEF Even

LEMMA LogCardinality == \A S : L!Cardinality(S) = Cardinality(S)
  BY DEF L!Cardinality, Cardinality

\* How many places there are, position by position.
LEMMA PlacesAre ==
    ASSUME NEW fmt \in Seq(Int)
    PROVE  /\ L!PlacesUpTo(fmt, 0) = 0
           /\ \A p \in 0 .. Len(fmt) : L!PlacesUpTo(fmt, p) \in Nat
           /\ \A p \in 1 .. Len(fmt) : L!PlacesUpTo(fmt, p) =
                 L!PlacesUpTo(fmt, p - 1) + (IF L!IsPlace(fmt, p) THEN 1 ELSE 0)
<1>. DEFINE n == Len(fmt)
            P == {i \in 1 .. n : L!IsPlace(fmt, i)}
<1>1. n \in Nat
  OBVIOUS
<1>2. ASSUME NEW p \in 0 .. n PROVE L!PlacesUpTo(fmt, p) = CountTo(P, p)
  <2>1. \A i \in 1 .. p : i \in 1 .. n
    BY <1>1
  <2>2. {i \in 1 .. p : L!IsPlace(fmt, i)} = {i \in 1 .. p : i \in P}
    BY <2>1
  <2>. QED
    BY <2>2, LogCardinality DEF L!PlacesUpTo, CountTo
<1>3. \A p \in 1 .. n : p \in P <=> L!IsPlace(fmt, p)
  OBVIOUS
<1>. HIDE DEF n, P
<1>4. \A p \in 0 .. n : CountTo(P, p) \in Nat
  BY <1>1, CountMore
<1>5. ASSUME NEW p \in 1 .. n
      PROVE  CountTo(P, p) = CountTo(P, p - 1) + (IF p \in P THEN 1 ELSE 0)
  <2>1. p - 1 \in Nat /\ (p - 1) + 1 = p /\ p - 1 \in 0 .. n
    BY <1>1
  <2>. DEFINE q == p - 1
  <2>2. q \in Nat /\ q + 1 = p /\ q \in 0 .. n
    BY <2>1
  <2>. HIDE DEF q
  <2>3. CountTo(P, q + 1) = CountTo(P, q) + (IF q + 1 \in P THEN 1 ELSE 0)
    BY <2>2, CountMore, <1>4
  <2>. QED
    BY <2>2, <2>3 DEF q
<1>6. \A p \in 1 .. n : p - 1 \in 0 .. n /\ p \in 0 .. n
  BY <1>1
<1>7. 0 \in 0 .. n
  BY <1>1
<1>8. L!PlacesUpTo(fmt, 0) = 0
  BY <1>2, <1>7, CountNone
<1>9. \A p \in 0 .. n : L!PlacesUpTo(fmt, p) \in Nat
  BY <1>2, <1>4
<1>10. \A p \in 1 .. n : L!PlacesUpTo(fmt, p) =
                 L!PlacesUpTo(fmt, p - 1) + (IF L!IsPlace(fmt, p) THEN 1 ELSE 0)
  BY <1>2, <1>3, <1>5, <1>6
<1>. QED
  BY <1>8, <1>9, <1>10 DEF n

\* So from a place on that has no argument, none has one.
LEMMA MorePlaces ==
    ASSUME NEW fmt \in Seq(Int), NEW s \in 0 .. Len(fmt), NEW p \in s .. Len(fmt)
    PROVE  L!PlacesUpTo(fmt, s) <= L!PlacesUpTo(fmt, p)
<1>. DEFINE n == Len(fmt)
            J == {k \in 0 .. n : k >= s => L!PlacesUpTo(fmt, s) <= L!PlacesUpTo(fmt, k)}
<1>1. n \in Nat /\ s \in 0 .. n /\ p \in 0 .. n /\ p >= s
  OBVIOUS
<1>2. 0 \in J
  <2>1. 0 >= s => s = 0
    BY <1>1
  <2>2. L!PlacesUpTo(fmt, 0) = 0
    BY PlacesAre
  <2>. QED
    BY <1>1, <2>1, <2>2
<1>3. ASSUME NEW k \in 1 .. n, k - 1 \in J PROVE k \in J
  <2>1. k \in 0 .. n /\ k - 1 \in 0 .. n
    BY <1>1
  <2>2. /\ L!PlacesUpTo(fmt, k) \in Nat /\ L!PlacesUpTo(fmt, k - 1) \in Nat /\ L!PlacesUpTo(fmt, s) \in Nat
        /\ L!PlacesUpTo(fmt, k) >= L!PlacesUpTo(fmt, k - 1)
    <3>1. /\ L!PlacesUpTo(fmt, k) \in Nat /\ L!PlacesUpTo(fmt, k - 1) \in Nat
          /\ L!PlacesUpTo(fmt, s) \in Nat
      BY <1>1, <2>1, PlacesAre
    <3>2. L!PlacesUpTo(fmt, k) =
             L!PlacesUpTo(fmt, k - 1) + (IF L!IsPlace(fmt, k) THEN 1 ELSE 0)
      BY PlacesAre
    <3>. QED
      BY ONLY <3>1, <3>2
  <2>3. CASE k = s
    BY <2>1, <2>2, <2>3
  <2>4. CASE k # s
    <3>1. k >= s => k - 1 >= s
      BY <1>1, <2>1, <2>4
    <3>. QED
      BY <1>3, <2>1, <2>2, <3>1
  <2>. QED
    BY <2>3, <2>4
<1>. HIDE DEF J
<1>4. \A k \in 0 .. n : k \in J
  BY <1>1, <1>2, <1>3, InductTo
<1>. QED
  BY <1>1, <1>4 DEF J

\* A position comes out as what it means as long as there are arguments.
LEMMA MeaningIs ==
    ASSUME NEW fmt \in Seq(Int), NEW args \in Seq(Seq(Int)), NEW p \in 1 .. Len(fmt)
    PROVE  /\ L!PlacesUpTo(fmt, p) > Len(args) => L!Meaning(fmt, args, p) = << >>
           /\ L!PlacesUpTo(fmt, p) <= Len(args) /\ L!IsPlace(fmt, p) =>
                 /\ L!PlacesUpTo(fmt, p) \in 1 .. Len(args)
                 /\ L!Meaning(fmt, args, p) = args[L!PlacesUpTo(fmt, p)]
           /\ L!PlacesUpTo(fmt, p) <= Len(args) /\ ~ L!IsPlace(fmt, p) =>
                 L!Meaning(fmt, args, p) = IF L!IsLiteral(fmt, p) THEN <<fmt[p]>> ELSE << >>
           /\ L!Meaning(fmt, args, p) \in Seq(Int)
<1>. DEFINE c == L!PlacesUpTo(fmt, p)
            pl == L!IsPlace(fmt, p)
            li == L!IsLiteral(fmt, p)
            m == L!Meaning(fmt, args, p)
<1>1. c \in Nat /\ (pl => c >= 1) /\ Len(args) \in Nat /\ fmt[p] \in Int
  <2>1. p \in 0 .. Len(fmt) /\ p - 1 \in 0 .. Len(fmt)
    OBVIOUS
  <2>2. c \in Nat /\ L!PlacesUpTo(fmt, p - 1) \in Nat
    BY <2>1, PlacesAre
  <2>3. c = L!PlacesUpTo(fmt, p - 1) + (IF pl THEN 1 ELSE 0)
    BY PlacesAre
  <2>4. pl => c >= 1
    BY ONLY <2>2, <2>3
  <2>5. Len(args) \in Nat /\ fmt[p] \in Int
    BY ElementOfSeq
  <2>. QED
    BY <2>2, <2>4, <2>5
<1>2. m = CASE c > Len(args) -> << >>
            [] c <= Len(args) /\ pl -> args[c]
            [] c <= Len(args) /\ li -> <<fmt[p]>>
            [] OTHER -> << >>
  BY DEF L!Meaning
<1>3. ~ (pl /\ li)
  <2>1. fmt[p] = 37 => Offset(fmt, p) \in Nat
    BY OffsetIs
  <2>. QED
    BY <2>1, PlaceOrLiteral
<1>4. <<fmt[p]>> \in Seq(Int) /\ << >> \in Seq(Int)
  BY <1>1
<1>5. c \in 1 .. Len(args) => args[c] \in Seq(Int)
  BY ElementOfSeq
<1>. HIDE DEF c, pl, li, m
<1>6. CASE c > Len(args)
  <2>1. ~ (c <= Len(args))
    BY <1>1, <1>6
  <2>2. m = << >>
    BY <1>2, <1>6, <2>1
  <2>. QED
    BY <1>4, <1>6, <2>1, <2>2 DEF c, pl, li, m
<1>7. CASE c <= Len(args)
  <2>1. ~ (c > Len(args))
    BY <1>1, <1>7
  <2>2. CASE pl
    <3>1. m = args[c] /\ c \in 1 .. Len(args)
      BY <1>1, <1>2, <1>3, <1>7, <2>1, <2>2
    <3>. QED
      BY <1>5, <2>1, <2>2, <3>1 DEF c, pl, li, m
  <2>3. CASE ~ pl /\ li
    <3>1. m = <<fmt[p]>>
      BY <1>2, <1>7, <2>1, <2>3
    <3>. QED
      BY <1>4, <2>1, <2>3, <3>1 DEF c, pl, li, m
  <2>4. CASE ~ pl /\ ~ li
    <3>1. m = << >>
      BY <1>2, <2>1, <2>4
    <3>. QED
      BY <1>4, <2>1, <2>4, <3>1 DEF c, pl, li, m
  <2>. QED
    BY <2>2, <2>3, <2>4
<1>. QED
  BY <1>1, <1>6, <1>7

\* The walk, round by round.
WalkStates(fmt, args) ==
  [s : 1 .. Len(fmt) + 1, arg : 1 .. Len(args) + 1, pushed : Seq(Int), missing : BOOLEAN]

LEMMA ConcatInts == \A y \in Seq(Int), z \in Seq(Int) : y \o z \in Seq(Int)
  BY ConcatProperties

LEMMA WalkRoundIs ==
    ASSUME NEW fmt \in Seq(Int), NEW args \in Seq(Seq(Int)), NEW at \in WalkStates(fmt, args)
    PROVE  L!WalkRound(fmt, args, at) \in WalkStates(fmt, args)
<1>. DEFINE next == L!WalkRound(fmt, args, at)
            n == Len(fmt)
            d == Len(args)
<1>1. /\ n \in Nat /\ d \in Nat /\ DOMAIN fmt = 1 .. n /\ at.s \in 1 .. n + 1
      /\ at.arg \in 1 .. d + 1 /\ at.pushed \in Seq(Int) /\ at.missing \in BOOLEAN
  BY DEF WalkStates
<1>2. CASE at.s > n \/ at.missing
  BY <1>2 DEF L!WalkRound
<1>3. CASE ~ (at.s > n \/ at.missing) /\ ~ L!At(fmt, at.s, 37)
  <2>1. next = L!Walked(at.s + 1, at.arg, Append(at.pushed, fmt[at.s]), FALSE)
    BY <1>3 DEF L!WalkRound, L!Percent
  <2>2. at.s + 1 \in 1 .. n + 1 /\ fmt[at.s] \in Int
    <3>1. at.s \in 1 .. n
      BY <1>1, <1>3
    <3>. QED
      BY <1>1, <3>1, ElementOfSeq
  <2>3. Append(at.pushed, fmt[at.s]) \in Seq(Int)
    BY <1>1, <2>2
  <2>. QED
    BY <1>1, <2>1, <2>2, <2>3 DEF WalkStates, L!Walked
<1>4. CASE ~ (at.s > n \/ at.missing) /\ L!At(fmt, at.s, 37) /\ L!At(fmt, at.s + 1, 37)
  <2>1. next = L!Walked(at.s + 2, at.arg, Append(at.pushed, 37), FALSE)
    BY <1>4 DEF L!WalkRound, L!Percent
  <2>2. at.s + 2 \in 1 .. n + 1
    BY <1>1, <1>4 DEF L!At
  <2>3. Append(at.pushed, 37) \in Seq(Int)
    BY <1>1
  <2>. QED
    BY <1>1, <2>1, <2>2, <2>3 DEF WalkStates, L!Walked
<1>5. CASE ~ (at.s > n \/ at.missing) /\ L!At(fmt, at.s, 37) /\ ~ L!At(fmt, at.s + 1, 37) /\ at.arg <= d
  <2>1. next = L!Walked(at.s + 1, at.arg + 1, at.pushed \o args[at.arg], FALSE)
    BY <1>5 DEF L!WalkRound, L!Percent
  <2>2. at.s + 1 \in 1 .. n + 1 /\ at.arg + 1 \in 1 .. d + 1 /\ at.arg \in 1 .. d
    <3>. DEFINE a == at.arg
                b == at.s
    <3>1. /\ n \in Nat /\ d \in Nat /\ b \in 1 .. n + 1 /\ a \in 1 .. d + 1
          /\ ~ (b > n) /\ a <= d
      BY <1>1, <1>5
    <3>. HIDE DEF a, b, n, d
    <3>2. b + 1 \in 1 .. n + 1 /\ a + 1 \in 1 .. d + 1 /\ a \in 1 .. d
      BY ONLY <3>1
    <3>. QED
      BY <3>2 DEF a, b
  <2>3. args[at.arg] \in Seq(Int)
    BY <2>2, ElementOfSeq
  <2>4. at.pushed \o args[at.arg] \in Seq(Int)
    BY <1>1, <2>3, ConcatInts
  <2>. QED
    BY <1>1, <2>1, <2>2, <2>4 DEF WalkStates, L!Walked
<1>6. CASE ~ (at.s > n \/ at.missing) /\ L!At(fmt, at.s, 37) /\ ~ L!At(fmt, at.s + 1, 37) /\ ~ (at.arg <= d)
  <2>1. next = L!Walked(at.s, at.arg, at.pushed, TRUE)
    BY <1>6 DEF L!WalkRound, L!Percent
  <2>. QED
    BY <1>1, <2>1 DEF WalkStates, L!Walked
<1>. QED
  BY <1>2, <1>3, <1>4, <1>5, <1>6

LEMMA WalkingIs ==
    ASSUME NEW fmt \in Seq(Int), NEW args \in Seq(Seq(Int)),
           NEW r, r = L!Walking(fmt, args), NEW n, n = Len(fmt)
    PROVE  /\ n \in Nat /\ r[0] = L!Walked(1, 1, << >>, FALSE)
           /\ \A k \in 0 .. n : r[k] \in WalkStates(fmt, args)
           /\ \A k \in 1 .. n : r[k] = L!WalkRound(fmt, args, r[k - 1])
<1>. DEFINE m == Len(fmt)
            D == WalkStates(fmt, args)
            x == L!Walked(1, 1, << >>, FALSE)
            g == [p \in (1 .. m) \X D |-> L!WalkRound(fmt, args, p[2])]
            Is(f) == f = [k \in 0 .. m |-> IF k = 0 THEN x ELSE L!WalkRound(fmt, args, f[k - 1])]
            u == CHOOSE f : Is(f)
            F == [0 .. m -> D]
            h == LoopOf(m, x, g)
<1>1. m \in Nat /\ x \in D
  BY DEF WalkStates, L!Walked
<1>2. \A k \in 1 .. m : \A y \in D :
         g[<<k, y>>] = L!WalkRound(fmt, args, y) /\ g[<<k, y>>] \in D
  BY WalkRoundIs
<1>3. r = u /\ n = m
  BY DEF L!Walking
<1>4. \A k \in 1 .. m : k - 1 \in 0 .. m
  BY <1>1
<1>. HIDE DEF g, D, x, h, m
<1>5. h \in F /\ h[0] = x /\ \A k \in 1 .. m : h[k] = g[<<k, h[k - 1]>>]
  <2>1. \A k \in 1 .. m : \A y \in D : g[<<k, y>>] \in D
    BY <1>2
  <2>2. IsLoop(h, m, D, x, g)
    BY ONLY <1>1, <2>1, LoopIs DEF h
  <2>. QED
    BY <2>2 DEF IsLoop
<1>6. \A k \in 1 .. m : h[k] = L!WalkRound(fmt, args, h[k - 1])
  BY <1>2, <1>4, <1>5
<1>7. Is(h)
  BY <1>5, <1>6
<1>8. Is(u)
  BY <1>7
<1>. HIDE DEF u
<1>9. u[0] = x /\ \A k \in 1 .. m : u[k] = L!WalkRound(fmt, args, u[k - 1])
  BY <1>1, <1>8
<1>. DEFINE J == {k \in 0 .. m : u[k] \in D}
<1>10. 0 \in J
  BY <1>1, <1>9
<1>11. ASSUME NEW k \in 1 .. m, k - 1 \in J PROVE k \in J
  BY <1>9, <1>11, WalkRoundIs DEF D
<1>. HIDE DEF J
<1>12. \A k \in 0 .. m : k \in J
  BY <1>1, <1>10, <1>11, InductTo
<1>. QED
  BY <1>1, <1>3, <1>9, <1>12 DEF J, D, x

\* What is true of the walk: what is in front of it, it pushed as what it means.
WalkInv(fmt, args, F, at) ==
  /\ Even(fmt, at.s)
  /\ at.pushed = F[at.s - 1]
  /\ ~ at.missing => L!PlacesUpTo(fmt, at.s - 1) = at.arg - 1
  /\ at.missing => at.s <= Len(fmt) /\ L!PlacesUpTo(fmt, at.s) = Len(args) + 1

\* Each round of a walk that is not at its end takes one character or more.
LEMMA WalkRoundKeeps ==
    ASSUME NEW fmt \in Seq(Int), NEW args \in Seq(Seq(Int)), NEW at \in WalkStates(fmt, args),
           NEW F, \A k \in 0 .. Len(fmt) : F[k] \in Seq(Int),
           \A k \in 1 .. Len(fmt) : F[k] = F[k - 1] \o L!Meaning(fmt, args, k),
           NEW next, next = L!WalkRound(fmt, args, at), WalkInv(fmt, args, F, at)
    PROVE  /\ WalkInv(fmt, args, F, next)
           /\ next.missing \/ next.s > Len(fmt) \/ next.s >= at.s + 1
<1>. DEFINE n == Len(fmt)
            d == Len(args)
            c(p) == L!PlacesUpTo(fmt, p)
            m(p) == L!Meaning(fmt, args, p)
            s == at.s
<1>1. /\ n \in Nat /\ d \in Nat /\ DOMAIN fmt = 1 .. n /\ s \in 1 .. n + 1
      /\ at.arg \in 1 .. d + 1 /\ at.pushed \in Seq(Int) /\ at.missing \in BOOLEAN
  BY DEF WalkStates
<1>2. CASE s > n \/ at.missing
  <2>1. next = at
    BY <1>2 DEF L!WalkRound
  <2>. QED
    BY <1>2, <2>1
<1>3. CASE ~ (s > n \/ at.missing)
  <2>1. s \in 1 .. n /\ s - 1 \in 0 .. n /\ s \in 0 .. n /\ (s + 1) - 1 = s
    BY <1>1, <1>3
  <2>2. Even(fmt, s) /\ at.pushed = F[s - 1] /\ c(s - 1) = at.arg - 1
    BY <1>3 DEF WalkInv
  <2>3. c(s) = (at.arg - 1) + (IF L!IsPlace(fmt, s) THEN 1 ELSE 0)
    BY <2>1, <2>2, PlacesAre
  <2>4. F[s] = at.pushed \o m(s)
    BY <2>1, <2>2
  <2>5. fmt[s] \in Int
    BY <2>1, ElementOfSeq
  <2>6. CASE fmt[s] # 37
    <3>1. next = L!Walked(s + 1, at.arg, Append(at.pushed, fmt[s]), FALSE)
      BY <1>3, <2>6 DEF L!WalkRound, L!Percent, L!At
    <3>2. ~ L!IsPlace(fmt, s) /\ L!IsLiteral(fmt, s) /\ Even(fmt, s + 1)
      BY <2>1, <2>6, AtCharacter
    <3>3. c(s) = at.arg - 1 /\ c(s) <= d
      BY <1>1, <2>3, <3>2
    <3>4. m(s) = <<fmt[s]>>
      BY <2>1, <3>2, <3>3, MeaningIs
    <3>5. F[s] = Append(at.pushed, fmt[s])
      BY <1>1, <2>4, <2>5, <3>4
    <3>6. /\ next.s = s + 1 /\ next.arg = at.arg /\ next.pushed = F[s] /\ next.missing = FALSE
      BY <3>1, <3>5 DEF L!Walked
    <3>. QED
      BY <1>1, <2>1, <3>2, <3>3, <3>6 DEF WalkInv
  <2>7. CASE fmt[s] = 37 /\ s + 1 \in 1 .. n /\ fmt[s + 1] = 37
    <3>1. next = L!Walked(s + 2, at.arg, Append(at.pushed, 37), FALSE)
      BY <1>1, <1>3, <2>1, <2>7 DEF L!WalkRound, L!Percent, L!At
    <3>2. /\ ~ L!IsPlace(fmt, s) /\ ~ L!IsLiteral(fmt, s)
          /\ ~ L!IsPlace(fmt, s + 1) /\ L!IsLiteral(fmt, s + 1) /\ Even(fmt, s + 2)
      BY <2>1, <2>2, <2>7, AtTwoPercents
    <3>3. c(s) = at.arg - 1 /\ c(s) <= d
      BY <1>1, <2>3, <3>2
    <3>. DEFINE z == s + 1
    <3>4. z \in 1 .. n /\ z - 1 = s /\ fmt[z] = 37
      BY <2>1, <2>7
    <3>5. ~ L!IsPlace(fmt, z) /\ L!IsLiteral(fmt, z)
      BY <3>2
    <3>. HIDE DEF z
    <3>6. c(z) = at.arg - 1 /\ c(z) <= d
      <4>1. c(z) = c(z - 1) + (IF L!IsPlace(fmt, z) THEN 1 ELSE 0)
        BY <3>4, PlacesAre
      <4>. QED
        BY <1>1, <3>3, <3>4, <3>5, <4>1
    <3>7. m(s) = << >>
      BY <2>1, <3>2, <3>3, MeaningIs
    <3>8. m(z) = <<37>>
      BY <3>4, <3>5, <3>6, MeaningIs
    <3>9. F[z] = F[s] \o m(z)
      BY <3>4
    <3>10. F[z] = Append(at.pushed, 37)
      <4>1. at.pushed \o << >> = at.pushed
        BY <1>1
      <4>2. F[s] = at.pushed
        BY <2>4, <3>7, <4>1
      <4>. QED
        BY <1>1, <3>8, <3>9, <4>2
    <3>11. (s + 2) - 1 = z
      BY <2>1 DEF z
    <3>12. next.s = s + 2 /\ next.arg = at.arg /\ next.pushed = F[z] /\ next.missing = FALSE
      BY <3>1, <3>10 DEF L!Walked
    <3>. QED
      BY <1>1, <2>1, <3>2, <3>6, <3>11, <3>12 DEF WalkInv
  <2>8. CASE fmt[s] = 37 /\ ~ (s + 1 \in 1 .. n /\ fmt[s + 1] = 37)
    <3>1. L!IsPlace(fmt, s) /\ Even(fmt, s + 1)
      BY <2>1, <2>2, <2>8, AtPlace
    <3>2. c(s) = at.arg
      BY <1>1, <2>3, <3>1
    <3>3. CASE at.arg <= d
      <4>1. next = L!Walked(s + 1, at.arg + 1, at.pushed \o args[at.arg], FALSE)
        BY <1>1, <1>3, <2>1, <2>8, <3>3 DEF L!WalkRound, L!Percent, L!At
      <4>2. m(s) = args[at.arg]
        BY <2>1, <3>1, <3>2, <3>3, MeaningIs
      <4>3. /\ next.s = s + 1 /\ next.arg = at.arg + 1 /\ next.pushed = F[s]
            /\ next.missing = FALSE
        <5>. DEFINE y == at.pushed \o args[at.arg]
        <5>1. next = L!Walked(s + 1, at.arg + 1, y, FALSE)
          BY <4>1
        <5>2. y = F[s]
          BY <2>4, <4>2
        <5>. HIDE DEF y
        <5>3. next.s = s + 1 /\ next.arg = at.arg + 1 /\ next.pushed = y /\ next.missing = FALSE
          BY ONLY <5>1 DEF L!Walked
        <5>. QED
          BY <5>2, <5>3
      <4>4. next.s - 1 = s /\ next.arg - 1 = at.arg
        BY <1>1, <4>3
      <4>5. WalkInv(fmt, args, F, next)
        <5>1. Even(fmt, next.s) /\ next.pushed = F[next.s - 1] /\ ~ next.missing
          BY <3>1, <4>3, <4>4
        <5>2. L!PlacesUpTo(fmt, next.s - 1) = next.arg - 1
          BY <3>2, <4>4
        <5>. QED
          BY <5>1, <5>2 DEF WalkInv
      <4>. QED
        BY <1>1, <4>3, <4>5
    <3>4. CASE ~ (at.arg <= d)
      <4>1. next = L!Walked(s, at.arg, at.pushed, TRUE)
        BY <1>1, <1>3, <2>1, <2>8, <3>4 DEF L!WalkRound, L!Percent, L!At
      <4>2. next.s = s /\ next.arg = at.arg /\ next.pushed = F[s - 1] /\ next.missing = TRUE
        BY <2>2, <4>1 DEF L!Walked
      <4>3. at.arg = d + 1
        BY <1>1, <3>4
      <4>. QED
        BY <1>1, <2>1, <2>2, <3>2, <4>2, <4>3 DEF WalkInv
    <3>. QED
      BY <3>3, <3>4
  <2>. QED
    BY <2>6, <2>7, <2>8
<1>. QED
  BY <1>2, <1>3

\* The walk takes one character or more in a round until it is at its end.
LEMMA WalkEnds ==
    ASSUME NEW n \in Nat, NEW r, r[0].s = 1,
           \A k \in 1 .. n : r[k].missing \/ r[k].s > n \/ r[k].s >= r[k - 1].s + 1,
           \A k \in 1 .. n : r[k - 1].missing \/ r[k - 1].s > n => r[k] = r[k - 1],
           \A k \in 0 .. n : r[k].s \in Nat
    PROVE  r[n].missing \/ r[n].s > n
<1>. DEFINE J == {k \in 0 .. n : r[k].missing \/ r[k].s > n \/ r[k].s >= k + 1}
<1>1. 0 \in J
  OBVIOUS
<1>2. ASSUME NEW k \in 1 .. n, k - 1 \in J PROVE k \in J
  <2>1. k \in 0 .. n /\ k - 1 \in 0 .. n /\ r[k].s \in Nat /\ r[k - 1].s \in Nat
    OBVIOUS
  <2>2. CASE r[k - 1].missing \/ r[k - 1].s > n
    BY <2>1, <2>2
  <2>3. CASE ~ (r[k - 1].missing \/ r[k - 1].s > n)
    <3>1. r[k - 1].s >= (k - 1) + 1
      BY <1>2, <2>3
    <3>2. r[k].missing \/ r[k].s > n \/ r[k].s >= r[k - 1].s + 1
      OBVIOUS
    <3>. QED
      BY <2>1, <3>1, <3>2
  <2>. QED
    BY <2>2, <2>3
<1>. HIDE DEF J
<1>3. \A k \in 0 .. n : k \in J
  BY <1>1, <1>2, InductTo
<1>4. n \in J
  BY <1>3
<1>. QED
  BY <1>4 DEF J

\* log() with any format and any arguments (logger.cpp:206): it returns exactly
\* when there are as many arguments as places, and pushes what the format means.
THEOREM LogIs ==
    ASSUME NEW fmt \in Seq(Int), NEW args \in Seq(Seq(Int)), NEW call, call = L!log(fmt, args)
    PROVE  /\ call.outcome = "returned" <=> L!PlacesUpTo(fmt, Len(fmt)) = Len(args)
           /\ call.pushed = FlattenSeq([p \in DOMAIN fmt |-> L!Meaning(fmt, args, p)])
<1>. DEFINE n == Len(fmt)
            d == Len(args)
            r == L!Walking(fmt, args)
            c == [p \in DOMAIN fmt |-> L!Meaning(fmt, args, p)]
            last == r[n]
<1>1. n \in Nat /\ d \in Nat /\ DOMAIN fmt = 1 .. n
  OBVIOUS
<1>2. c \in Seq(Seq(Int)) /\ Len(c) = n /\ \A p \in 1 .. n : c[p] = L!Meaning(fmt, args, p)
  <2>. DEFINE S == Seq(Int)
  <2>1. c \in [1 .. n -> S] /\ \A p \in 1 .. n : c[p] = L!Meaning(fmt, args, p)
    BY <1>1, MeaningIs
  <2>. HIDE DEF c, S, n
  <2>2. c \in Seq(S) /\ Len(c) = n
    BY <1>1, <2>1
  <2>. QED
    BY <2>1, <2>2 DEF S
<1>3. PICK F : Joins(F, c) /\ FlattenSeq(c) = F[Len(c)]
  <2>. HIDE DEF c
  <2>. QED
    BY <1>2, FlattenIs
<1>4. call = L!Outcome(IF ~ last.missing /\ last.arg > d THEN "returned" ELSE "aborted", last.pushed)
  BY DEF L!log
<1>5. /\ r[0] = L!Walked(1, 1, << >>, FALSE)
      /\ \A k \in 0 .. n : r[k] \in WalkStates(fmt, args)
      /\ \A k \in 1 .. n : r[k] = L!WalkRound(fmt, args, r[k - 1])
  BY WalkingIs
<1>6. /\ F[0] = << >> /\ (\A k \in 0 .. n : F[k] \in Seq(Int))
      /\ \A k \in 1 .. n : F[k] = F[k - 1] \o L!Meaning(fmt, args, k)
  BY <1>2, <1>3 DEF Joins
<1>. HIDE DEF r, c
<1>. DEFINE J == {k \in 0 .. n : WalkInv(fmt, args, F, r[k])}
<1>7. 0 \in J
  <2>1. /\ r[0].s = 1 /\ r[0].arg = 1 /\ r[0].pushed = << >> /\ r[0].missing = FALSE
    BY <1>5 DEF L!Walked
  <2>2. Even(fmt, 1)
    BY OffsetIs DEF Even
  <2>3. L!PlacesUpTo(fmt, 0) = 0 /\ 1 - 1 = 0
    BY PlacesAre
  <2>4. WalkInv(fmt, args, F, r[0])
    BY <1>6, <2>1, <2>2, <2>3 DEF WalkInv
  <2>. QED
    BY <1>1, <2>4
<1>8. ASSUME NEW k \in 1 .. n, WalkInv(fmt, args, F, r[k - 1])
      PROVE  /\ WalkInv(fmt, args, F, r[k])
             /\ r[k].missing \/ r[k].s > n \/ r[k].s >= r[k - 1].s + 1
  <2>1. k - 1 \in 0 .. n
    BY <1>1
  <2>2. r[k - 1] \in WalkStates(fmt, args) /\ r[k] = L!WalkRound(fmt, args, r[k - 1])
    BY <1>5, <2>1
  <2>. QED
    BY <1>6, <1>8, <2>2, WalkRoundKeeps
<1>9. ASSUME NEW k \in 1 .. n, k - 1 \in J PROVE k \in J
  BY <1>8, <1>9
<1>. HIDE DEF J
<1>10. \A k \in 0 .. n : k \in J
  BY <1>1, <1>7, <1>9, InductTo
<1>. USE DEF J
<1>11. last.missing \/ last.s > n
  <2>1. \A k \in 1 .. n : r[k].missing \/ r[k].s > n \/ r[k].s >= r[k - 1].s + 1
    <3>. SUFFICES ASSUME NEW k \in 1 .. n
                  PROVE  r[k].missing \/ r[k].s > n \/ r[k].s >= r[k - 1].s + 1
      OBVIOUS
    <3>1. k - 1 \in 0 .. n
      BY <1>1
    <3>. QED
      BY <1>8, <1>10, <3>1
  <2>2. \A k \in 1 .. n : r[k - 1].missing \/ r[k - 1].s > n => r[k] = r[k - 1]
    BY <1>5 DEF L!WalkRound
  <2>3. r[0].s = 1
    BY <1>5 DEF L!Walked
  <2>4. \A k \in 0 .. n : r[k].s \in Nat
    BY <1>1, <1>5 DEF WalkStates
  <2>. HIDE DEF n
  <2>5. r[n].missing \/ r[n].s > n
    BY ONLY <1>1, <2>1, <2>2, <2>3, <2>4, WalkEnds
  <2>. QED
    BY <2>5
<1>12. last \in WalkStates(fmt, args) /\ WalkInv(fmt, args, F, last)
  <2>1. n \in 0 .. n
    BY <1>1
  <2>. QED
    BY <1>5, <1>10, <2>1
<1>. HIDE DEF last
<1>13. /\ last.s \in 1 .. n + 1 /\ last.arg \in 1 .. d + 1 /\ last.missing \in BOOLEAN
  BY <1>12 DEF WalkStates
<1>14. /\ call.outcome = "returned" <=> ~ last.missing /\ last.arg > d
       /\ call.pushed = last.pushed
  BY <1>4 DEF L!Outcome
<1>15. CASE last.missing
  <2>1. last.s \in 1 .. n /\ L!PlacesUpTo(fmt, last.s) = d + 1 /\ last.pushed = F[last.s - 1]
    BY <1>12, <1>13, <1>15 DEF WalkInv
  <2>2. \A p \in last.s .. n : L!PlacesUpTo(fmt, p) > d
    <3>. SUFFICES ASSUME NEW p \in last.s .. n PROVE L!PlacesUpTo(fmt, p) > d
      OBVIOUS
    <3>1. last.s \in 0 .. n /\ p \in 0 .. n
      BY <2>1
    <3>2. L!PlacesUpTo(fmt, last.s) <= L!PlacesUpTo(fmt, p) /\ L!PlacesUpTo(fmt, p) \in Nat
      BY <3>1, MorePlaces, PlacesAre
    <3>. QED
      BY <1>1, <2>1, <3>2
  <2>. DEFINE K == {k \in 0 .. n : k >= last.s => F[k] = F[last.s - 1]}
  <2>3. 0 \in K
    BY <1>1, <2>1
  <2>4. ASSUME NEW k \in 1 .. n, k - 1 \in K PROVE k \in K
    <3>1. SUFFICES ASSUME k >= last.s PROVE F[k] = F[last.s - 1]
      BY <1>1
    <3>2. k \in last.s .. n
      BY <2>1, <3>1
    <3>3. L!PlacesUpTo(fmt, k) > d
      BY <2>2, <3>2
    <3>4. L!Meaning(fmt, args, k) = << >>
      BY <3>3, MeaningIs
    <3>5. F[k] = F[k - 1]
      <4>1. k - 1 \in 0 .. n
        BY <1>1
      <4>2. F[k - 1] \in Seq(Int)
        BY <1>6, <4>1
      <4>3. F[k] = F[k - 1] \o << >>
        BY <1>6, <3>4
      <4>. QED
        BY <4>2, <4>3
    <3>6. k = last.s \/ k - 1 >= last.s
      BY <2>1, <3>1
    <3>. QED
      BY <2>4, <3>5, <3>6
  <2>. HIDE DEF K
  <2>5. \A k \in 0 .. n : k \in K
    BY <1>1, <2>3, <2>4, InductTo
  <2>6. n \in last.s .. n /\ n \in 0 .. n /\ n >= last.s
    BY <1>1, <2>1
  <2>7. F[n] = F[last.s - 1]
    BY <2>5, <2>6 DEF K
  <2>8. L!PlacesUpTo(fmt, n) # d
    <3>1. L!PlacesUpTo(fmt, n) > d /\ L!PlacesUpTo(fmt, n) \in Nat
      BY <2>2, <2>6, PlacesAre
    <3>. QED
      BY <1>1, <3>1
  <2>. QED
    BY <1>2, <1>3, <1>14, <1>15, <2>1, <2>7, <2>8 DEF c
<1>16. CASE ~ last.missing
  <2>1. last.s = n + 1 /\ last.s - 1 = n
    BY <1>1, <1>11, <1>13, <1>16 DEF last
  <2>2. L!PlacesUpTo(fmt, n) = last.arg - 1 /\ last.pushed = F[n]
    BY <1>12, <1>16, <2>1 DEF WalkInv
  <2>3. last.arg > d <=> last.arg - 1 = d
    BY <1>1, <1>13
  <2>. QED
    BY <1>2, <1>3, <1>14, <1>16, <2>2, <2>3 DEF c
<1>. QED
  BY <1>13, <1>15, <1>16

LEMMA FormatsAnswered == ASSUME IsText(text) PROVE AnswersFormat
<1>. SUFFICES ASSUME NEW args \in UNION {[1 .. n -> Arguments] : n \in 0 .. 2},
                     NEW call, call = L!log(text, args)
              PROVE  /\ call.outcome = "returned" <=> L!PlacesUpTo(text, Len(text)) = Len(args)
                     /\ call.pushed = FlattenSeq([p \in DOMAIN text |-> L!Meaning(text, args, p)])
  BY DEF AnswersFormat
<1>1. text \in Seq(Int)
  BY DEF IsText
<1>2. args \in Seq(Seq(Int))
  <2>1. PICK n \in 0 .. 2 : args \in [1 .. n -> Arguments]
    OBVIOUS
  <2>2. Arguments \subseteq Seq(Int)
    BY DEF Arguments, L!Percent
  <2>. DEFINE S == Seq(Int)
  <2>3. n \in Nat /\ args \in [1 .. n -> S]
    BY <2>1, <2>2
  <2>. HIDE DEF S
  <2>4. args \in Seq(S)
    BY <2>3
  <2>. QED
    BY <2>4 DEF S
<1>. QED
  BY <1>1, <1>2, LogIs

-----------------------------------------------------------------------------
\* A text of characters is none of Nuls, and flip's letters are at most 126.
LEMMA TextIs == ASSUME OrderInv PROVE IsText(text) /\ Codes \subseteq Int
<1>. DEFINE n == Len(text)
<1>1. text \in Seq(Codes) /\ Codes \subseteq 1 .. 126
  BY OrderingAssumption DEF OrderInv
<1>2. n \in Nat /\ text = [p \in 1 .. n |-> text[p]] /\ \A p \in 1 .. n : text[p] \in Codes
  BY <1>1, ElementOfSeq
<1>3. \A p \in 1 .. n : text[p] \in Int /\ 1 <= text[p] /\ text[p] <= 126
  <2>1. \A x \in Codes : x \in Int /\ 1 <= x /\ x <= 126
    BY <1>1
  <2>. QED
    BY ONLY <1>2, <2>1
<1>4. text \in Seq(Int)
  <2>. HIDE DEF n
  <2>1. text \in [1 .. n -> Int]
    BY <1>2, <1>3
  <2>. QED
    BY <1>2, <2>1
<1>5. Codes \subseteq Int
  BY <1>1
<1>6. IsText(text)
  BY <1>3, <1>4 DEF IsText
<1>. QED
  BY <1>5, <1>6

\* Of a format of any length: each % is replaced by the next argument, and the
\* call aborts exactly when arguments and places do not match (logger.cpp:206).
THEOREM AnswersFormatHolds == OrderSpec => []AnswersFormat
<1>1. OrderInv => AnswersFormat
  BY TextIs, FormatsAnswered
<1>. QED
  BY <1>1, OrderInvariant, PTL

\* Of a text of any length: what count_word, flip, equals and reverse return, at
\* the first and the last character too (string_adt.cpp).
THEOREM StringsEndHolds == OrderSpec => []StringsAtTheirEnds
<1>1. OrderInv => StringsAtTheirEnds
  BY TextIs, StringsEnd
<1>. QED
  BY <1>1, OrderInvariant, PTL

=============================================================================
