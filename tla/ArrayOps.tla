------------------------------ MODULE ArrayOps ------------------------------
(***************************************************************************)
(* The searches of the class Array, its three calls on two arrays, which   *)
(* leave both alone and append to a new array that has room for the        *)
(* elements of both.  An array is read through Contents; indices are those *)
(* of the code, from 0, and -1 is "not found".  A while loop is what its   *)
(* variables are after k rounds; a round after the last changes nothing.   *)
(***************************************************************************)
EXTENDS Array, FiniteSetsExt

----------------------------------------------------------------------------
is_sorted(s) == \A i \in 1 .. Len(s) - 1 : s[i] <= s[i + 1]

linear_search(s, val) ==
  LET hits == { i \in DOMAIN s : s[i] = val }
  IN  IF hits = {} THEN -1 ELSE (CHOOSE i \in hits : \A j \in hits : i <= j) - 1

(* A mutant: the loop ends when one cell is left, which is never tried.    *)
MutSearchStopsEarly(s, val, loop) ==
  LET mid == (loop.low + loop.high) \div 2
  IN  IF loop.low >= loop.high \/ loop.found # -1 THEN loop
      ELSE IF s[mid + 1] = val THEN [loop EXCEPT !.found = mid]
      ELSE IF val > s[mid + 1] THEN [loop EXCEPT !.low = mid + 1]
      ELSE [loop EXCEPT !.high = mid - 1]

(* A round of binary_search; `found` is the index it has returned.         *)
SearchRound(s, val, loop) ==
  LET mid == (loop.low + loop.high) \div 2
  IN  IF loop.low > loop.high \/ loop.found # -1 THEN loop
      ELSE IF s[mid + 1] = val THEN [loop EXCEPT !.found = mid]
      ELSE IF val > s[mid + 1] THEN [loop EXCEPT !.low = mid + 1]
      ELSE [loop EXCEPT !.high = mid - 1]

Searching(s, val) ==
  LET after[k \in 0 .. Len(s)] ==
        IF k = 0 THEN [low |-> 0, high |-> Len(s) - 1, found |-> -1]
        ELSE SearchRound(s, val, after[k - 1])
  IN  after

binary_search(s, val) == Searching(s, val)[Len(s)].found

----------------------------------------------------------------------------
(* The loops on two arrays: i and j are the elements of each that they     *)
(* have passed, arr3 is the new array.                                     *)

AtStart == [i |-> 0, j |-> 0, arr3 |-> << >>]

Both(s, t, loop) == loop.i < Len(s) /\ loop.j < Len(t)

TakeFirst(s, loop) ==
  [i |-> loop.i + 1, j |-> loop.j, arr3 |-> Append(loop.arr3, s[loop.i + 1])]

TakeSecond(t, loop) ==
  [i |-> loop.i, j |-> loop.j + 1, arr3 |-> Append(loop.arr3, t[loop.j + 1])]

TakeOnce(s, loop) ==
  [i |-> loop.i + 1, j |-> loop.j + 1, arr3 |-> Append(loop.arr3, s[loop.i + 1])]

(* What the loops behind it append: the rest of either array.              *)
WithRests(s, t, loop) ==
  (loop.arr3 \o SubSeq(s, loop.i + 1, Len(s))) \o SubSeq(t, loop.j + 1, Len(t))

(* The smaller element is appended, the second array's if they are equal.  *)
MergeRound(s, t, loop) ==
  IF ~ Both(s, t, loop) THEN loop
  ELSE IF s[loop.i + 1] < t[loop.j + 1] THEN TakeFirst(s, loop)
  ELSE TakeSecond(t, loop)

Merging(s, t) ==
  LET after[k \in 0 .. Len(s) + Len(t)] ==
        IF k = 0 THEN AtStart ELSE MergeRound(s, t, after[k - 1])
  IN  after

merge(s, t) == WithRests(s, t, Merging(s, t)[Len(s) + Len(t)])

(* A mutant: at equal elements only one array advances.                    *)
MutUnionOneAdvances(s, t, loop) ==
  IF ~ Both(s, t, loop) THEN loop
  ELSE IF s[loop.i + 1] <= t[loop.j + 1] THEN TakeFirst(s, loop)
  ELSE TakeSecond(t, loop)

(* Equal elements are appended once and both arrays advance.               *)
UnionRound(s, t, loop) ==
  IF ~ Both(s, t, loop) THEN loop
  ELSE IF s[loop.i + 1] < t[loop.j + 1] THEN TakeFirst(s, loop)
  ELSE IF s[loop.i + 1] > t[loop.j + 1] THEN TakeSecond(t, loop)
  ELSE TakeOnce(s, loop)

Uniting(s, t) ==
  LET after[k \in 0 .. Len(s) + Len(t)] ==
        IF k = 0 THEN AtStart ELSE UnionRound(s, t, after[k - 1])
  IN  after

array_union(s, t) == WithRests(s, t, Uniting(s, t)[Len(s) + Len(t)])

IntersectRound(s, t, loop) ==
  IF ~ Both(s, t, loop) THEN loop
  ELSE IF s[loop.i + 1] < t[loop.j + 1] THEN [loop EXCEPT !.i = loop.i + 1]
  ELSE IF s[loop.i + 1] > t[loop.j + 1] THEN [loop EXCEPT !.j = loop.j + 1]
  ELSE TakeOnce(s, loop)

Intersecting(s, t) ==
  LET after[k \in 0 .. Len(s) + Len(t)] ==
        IF k = 0 THEN AtStart ELSE IntersectRound(s, t, after[k - 1])
  IN  after

array_intersect(s, t) == Intersecting(s, t)[Len(s) + Len(t)].arr3

=============================================================================
