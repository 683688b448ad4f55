-------------------------------- MODULE Heap --------------------------------
(***************************************************************************)
(* src/heap/heap_adt.cpp: create_heap turns an array into a heap by        *)
(* inserting one element after another, heap_sort then deletes the root    *)
(* again and again.  The code fixes the length at 7 and leaves A[0]        *)
(* unused; here an array is a sequence of any length.  A loop is what its  *)
(* variables are after k rounds; a round after the last changes nothing.   *)
(***************************************************************************)
EXTENDS Integers, Sequences

(* The loop of insert: parents smaller than temp move down.                *)
InsertRound(temp, loop) ==
  LET parent == loop.i \div 2
  IN  IF loop.i > 1 /\ temp > loop.A[parent]
      THEN [A |-> [loop.A EXCEPT ![loop.i] = loop.A[parent]], i |-> parent]
      ELSE loop

Rising(A, n) ==
  LET after[k \in 0 .. n] ==
        IF k = 0 THEN [A |-> A, i |-> n] ELSE InsertRound(A[n], after[k - 1])
  IN  after

insert(A, n) ==
  LET loop == Rising(A, n)[n] IN [loop.A EXCEPT ![loop.i] = A[n]]

Swap(A, i, j) == [A EXCEPT ![i] = A[j], ![j] = A[i]]

(* The loop of del.  It runs while the left child is below n - 1: a left   *)
(* child at n - 1, the last of the heap that is left, is not compared with *)
(* its parent.                                                             *)
DelRound(n, loop) ==
  LET left == 2 * loop.i
      j == IF loop.A[left] < loop.A[left + 1] THEN left + 1 ELSE left
  IN  IF left < n - 1 /\ loop.A[j] > loop.A[loop.i]
      THEN [A |-> Swap(loop.A, loop.i, j), i |-> j] ELSE loop

Sinking(A, n) ==
  LET after[k \in 0 .. n] ==
        IF k = 0 THEN [A |-> [A EXCEPT ![1] = A[n]], i |-> 1]
        ELSE DelRound(n, after[k - 1])
  IN  after

(* A mutant: the root is not kept, so the last element is stored twice.    *)
MutDelForgetsRoot(A, n) == Sinking(A, n)[n].A

(* del: the last element goes to the root and sinks; the root goes to n.   *)
del(A, n) == [Sinking(A, n)[n].A EXCEPT ![n] = A[1]]

----------------------------------------------------------------------------
(* create_heap calls insert for 2, 3, ... in turn, and heap_sort del for   *)
(* the length, the length minus one, ..., 2.                               *)
Creating(A) ==
  LET upto[n \in 0 .. Len(A)] == IF n < 2 THEN A ELSE insert(upto[n - 1], n)
  IN  upto

create_heap(A) == Creating(A)[Len(A)]

Sorting(A) ==
  LET after[k \in 0 .. Len(A)] ==
        IF k = 0 THEN A
        ELSE IF Len(A) + 1 - k < 2 THEN after[k - 1]
        ELSE del(after[k - 1], Len(A) + 1 - k)
  IN  after

heap_sort(A) == Sorting(A)[Len(A)]

(* No element is above its parent ("Each node >= all its descendents",     *)
(* heap.txt).                                                              *)
IsHeap(A) == \A k \in 2 .. Len(A) : A[k] <= A[k \div 2]
=============================================================================
