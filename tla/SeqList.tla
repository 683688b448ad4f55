------------------------------ MODULE SeqList ------------------------------
(***************************************************************************)
(* What the linked lists are to their callers: each list is a sequence of  *)
(* values, and a call changes one of them, or takes the values of a second *)
(* one over, whatever nodes carry them.  merge is the one call that does   *)
(* not do what its comment says, and Merge is exact about what it does.    *)
(***************************************************************************)
EXTENDS Integers, Sequences, SequencesExt

CONSTANTS Lists, Val
VARIABLE seqs                     \* seqs[l] is what list l holds

Init == seqs = [l \in Lists |-> << >>]

Becomes(l, s) == seqs' = [seqs EXCEPT ![l] = s]

(* A list that is built from an array.                                     *)
Fill(l) ==
  /\ seqs[l] = << >> /\ seqs'[l] \in Seq(Val)
  /\ Becomes(l, seqs'[l])

Insert(l, v) == \E i \in 1 .. Len(seqs[l]) + 1 : Becomes(l, InsertAt(seqs[l], i, v))

Delete(l) == \E i \in DOMAIN seqs[l] : Becomes(l, RemoveAt(seqs[l], i))

Turn(l) == Becomes(l, Reverse(seqs[l]))

Clear(l) == Becomes(l, << >>)

(* The two calls that take the values of m over into l.                    *)
Concat(l, m) ==
  seqs' = [seqs EXCEPT ![l] = seqs[l] \o seqs[m], ![m] = << >>]

(* A merge of two sorted lists is sorted.  Each list is taken up to the    *)
(* last value of the other one, m first where they are equal; of what is   *)
(* left then of one of them only the last value is kept, those before it   *)
(* are lost (linkedlist_adt.cpp:248).                                      *)
Merge(l, m) ==
  LET d == seqs[l]
      e == seqs[m]
      r == seqs'[l]
      both == d \o e
      kept == { i \in DOMAIN both :
                  IF i <= Len(d) THEN i = Len(d) \/ both[i] < Last(e)
                                 ELSE i = Len(both) \/ both[i] <= Last(d) }
  IN  /\ d # << >> /\ e # << >>
      /\ seqs' = [seqs EXCEPT ![l] = r, ![m] = << >>]
      /\ \A i, j \in DOMAIN r : i < j => r[i] <= r[j]
      /\ \E f \in Bijection(DOMAIN r, kept) : \A i \in DOMAIN r : r[i] = both[f[i]]

Next ==
  \E l \in Lists :
    \/ \E v \in Val : Insert(l, v)
    \/ Fill(l) \/ Delete(l) \/ Turn(l) \/ Clear(l)
    \/ \E m \in Lists \ { l } : Concat(l, m) \/ Merge(l, m)

Spec == Init /\ [][Next]_seqs
=============================================================================
