------------------------------- MODULE Nodes -------------------------------
(***************************************************************************)
(* The struct Node of linkedlist_adt.cpp, which circular_ll.cpp declares   *)
(* again: a heap of nodes, and the loops that follow their pointers.       *)
(***************************************************************************)
EXTENDS Integers, Sequences, SequencesExt, FiniteSets

CONSTANTS Addr,       \* the addresses `new Node` can return
          Val,        \* the data a caller stores
          nullptr

Pointer == Addr \cup { nullptr }
Heaps   == [Addr -> [data : Int, next : Pointer]]
Blank   == [data |-> 0, next |-> nullptr]

(* A pointer of the heap set to q.                                         *)
Link(heap, a, q) == [heap EXCEPT ![a].next = q]

----------------------------------------------------------------------------
(* What the variables of a loop hold after each of its rounds: x before    *)
(* the first one, and a round makes body[v] of v.  No loop of the two      *)
(* programs that ends has more rounds than there are nodes.                *)
Rounds(body, x) ==
  LET after[k \in 0 .. Cardinality(Addr)] ==
        IF k = 0 THEN x ELSE body[after[k - 1]]
  IN  after

Final(after) == after[Cardinality(Addr)]

(* p = p->next, up to null.                                                *)
Follow(heap, p) == IF p = nullptr THEN nullptr ELSE heap[p].next

Walk(heap, p) == Rounds([a \in Pointer |-> Follow(heap, a)], p)

(* The nodes it meets from p on, up to null or once round a loop.          *)
Path(heap, p) ==
  LET walk == Walk(heap, p)
      Unmet(i) == walk[i - 1] # nullptr /\ \A j \in 1 .. i - 1 : walk[j - 1] # walk[i - 1]
  IN  IF p = nullptr THEN << >>
      ELSE [i \in { i \in 1 .. Cardinality(Addr) : Unmet(i) } |-> walk[i - 1]]

Values(heap, p) ==
  LET path == Path(heap, p) IN [i \in DOMAIN path |-> heap[path[i]].data]
=============================================================================
