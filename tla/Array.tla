------------------------------- MODULE Array -------------------------------
(***************************************************************************)
(* The class Array of src/array/array_adt.cpp: a block of `size` cells on  *)
(* the heap of which the first curr_length are in use.  Cells are counted  *)
(* from 0, as in the code.  A call is one step; its loop shifts all the    *)
(* cells of a range, which is one function here.                           *)
(***************************************************************************)
EXTENDS Integers, Sequences, SequencesExt

CONSTANTS Arrays,     \* the Array objects
          Size,       \* the capacity each is constructed with
          Val,        \* the elements a caller stores
          Junk        \* what `new int[sz]` leaves in a cell

ASSUME ArrayAssumption ==
  /\ Size \in Nat \ { 0 }
  /\ Val \subseteq Int
  /\ Junk \notin Int

VARIABLES A,          \* A[a][i] is cell i of the block of array a
          curr_length

vars == << A, curr_length >>

Cells == 0 .. Size - 1

----------------------------------------------------------------------------
Init ==
  /\ A = [a \in Arrays |-> [i \in Cells |-> Junk]]
  /\ curr_length = [a \in Arrays |-> 0]

(* The two assignments a call can make.                                    *)
Store(a, cells)   == A' = [A EXCEPT ![a] = cells]
Resize(a, length) == curr_length' = [curr_length EXCEPT ![a] = length]

(* append: nothing happens when the block is full.                         *)
append(a, elem) ==
  /\ curr_length[a] < Size
  /\ Store(a, [i \in Cells |-> IF i = curr_length[a] THEN elem ELSE A[a][i]])
  /\ Resize(a, curr_length[a] + 1)

(* insert: it tests the index and not whether there is room.  When the     *)
(* block is full the last element is written to the cell behind it.        *)
insert(a, idx, elem) ==
  /\ idx \in 0 .. curr_length[a]
  /\ Store(a, [i \in Cells |->
                 IF i = idx THEN elem
                 ELSE IF i \in idx + 1 .. curr_length[a] THEN A[a][i - 1]
                 ELSE A[a][i]])
  /\ Resize(a, curr_length[a] + 1)

(* del: the element after each one moves down and leaves 0 behind; there   *)
(* is none after the last, so its cell keeps its value.                    *)
del(a, idx) ==
  /\ idx \in 0 .. curr_length[a] - 1
  /\ Store(a, [i \in Cells |->
                 IF i \in idx .. curr_length[a] - 2 THEN A[a][i + 1]
                 ELSE IF i = curr_length[a] - 1 /\ idx < i THEN 0
                 ELSE A[a][i]])
  /\ Resize(a, curr_length[a] - 1)

set(a, idx, val) ==
  /\ idx \in 0 .. curr_length[a] - 1
  /\ Store(a, [A[a] EXCEPT ![idx] = val])
  /\ UNCHANGED curr_length

(* A mutant: the copy back is reversed in place of the copy out.           *)
MutReverseInPlace(a) ==
  /\ Store(a, [i \in Cells |->
                 IF i < curr_length[a] /\ 2 * i >= curr_length[a]
                 THEN A[a][curr_length[a] - 1 - i] ELSE A[a][i]])
  /\ UNCHANGED curr_length

(* reverse: copied out backwards, then copied back.                        *)
reverse(a) ==
  /\ Store(a, [i \in Cells |->
                 IF i < curr_length[a] THEN A[a][curr_length[a] - 1 - i] ELSE A[a][i]])
  /\ UNCHANGED curr_length

(* left_shift: the length goes down by one whatever it was.                *)
left_shift(a) ==
  /\ Store(a, [i \in Cells |->
                 IF i < curr_length[a] - 1 THEN A[a][i + 1]
                 ELSE IF i = curr_length[a] - 1 /\ i > 0 THEN 0
                 ELSE A[a][i]])
  /\ Resize(a, curr_length[a] - 1)

(* A caller that, like main, inserts only where there is room and shifts   *)
(* only what is there.                                                     *)
Next ==
  \E a \in Arrays :
    \/ \E v \in Val : append(a, v)
    \/ curr_length[a] < Size /\ \E i \in 0 .. Size, v \in Val : insert(a, i, v)
    \/ \E i \in Cells : del(a, i)
    \/ \E i \in Cells, v \in Val : set(a, i, v)
    \/ reverse(a)
    \/ curr_length[a] > 0 /\ left_shift(a)

Spec == Init /\ [][Next]_vars

----------------------------------------------------------------------------
(* The elements, as display prints them.                                   *)

Contents(a) == [i \in 1 .. curr_length[a] |-> A[a][i - 1]]

----------------------------------------------------------------------------
(* The properties.                                                         *)

(* The length stays within the block, and no call brings a cell that was   *)
(* never written, or the 0 a shift leaves behind, among the elements.      *)
ArrayInv ==
  /\ A \in [Arrays -> [Cells -> Val \cup { 0, Junk }]]
  /\ curr_length \in [Arrays -> 0 .. Size]
  /\ \A a \in Arrays : Contents(a) \in Seq(Val)

(* The loops that shift cells do to the elements what the call promises of *)
(* the sequence: one more at idx, one less at idx, the first one gone, the *)
(* order turned round; no other element is lost or repeated.               *)
CallsByPosition ==
  [][\A a \in Arrays, i \in 0 .. Size :
       /\ \A v \in Val :
            /\ append(a, v) => Contents(a)' = Append(Contents(a), v)
            /\ insert(a, i, v) => Contents(a)' = InsertAt(Contents(a), i + 1, v)
       /\ del(a, i) => Contents(a)' = RemoveAt(Contents(a), i + 1)
       /\ left_shift(a) => Contents(a)' = Tail(Contents(a))
       /\ reverse(a) => Contents(a)' = Reverse(Contents(a))]_vars
=============================================================================
