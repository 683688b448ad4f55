---------------------------- MODULE CircularList ----------------------------
(***************************************************************************)
(* The class CircularLinkedList of src/linkedlist/circular_ll.cpp: the     *)
(* last node points at the first.  One object, built from an array as main *)
(* does; every other call of the class follows head and so needs a node,   *)
(* which del(1) on a ring of one takes away: it frees the node that head   *)
(* goes on pointing at.                                                    *)
(***************************************************************************)
EXTENDS Nodes

VARIABLES head, node, live

vars == << head, node, live >>

Free  == Addr \ live
New   == CHOOSE a \in Free : TRUE            \* which free address it is makes no difference

----------------------------------------------------------------------------
(* The nodes the do loops of length and display meet: from head on until   *)
(* head, or in a broken ring any other node or null, is met again.         *)
Round == Path(node, head)

length == Len(Round)

Contents == Values(node, head)

----------------------------------------------------------------------------
Init ==
  /\ head = nullptr
  /\ node = [a \in Addr |-> Blank]
  /\ live = {}

(* The constructor from an array that is not empty.                        *)
FromArray(A) ==
  LET a == SetToSeq(Free)
      n == Len(A)
  IN  /\ head = nullptr /\ n \in 1 .. Len(a)
      /\ head' = a[1]
      /\ live' = { a[i] : i \in 1 .. n }
      /\ node' = [b \in Addr |->
                   IF \E i \in 1 .. n : a[i] = b
                   THEN LET i == CHOOSE i \in 1 .. n : a[i] = b
                        IN  [data |-> A[i], next |-> a[IF i = n THEN 1 ELSE i + 1]]
                   ELSE node[b]]

(* insert: behind the node at idx, counted from 1, or in front of head at  *)
(* 0, where the last node has to be found and sent to the new one.         *)
insert(val, idx) ==
  LET prev == Round[IF idx = 0 THEN length ELSE idx]
  IN  /\ head # nullptr /\ idx \in 0 .. length /\ Free # {}
      /\ live' = live \cup { New }
      /\ node' = [node EXCEPT ![New] = [data |-> val, next |-> node[prev].next],
                              ![prev].next = New]
      /\ head' = IF idx = 0 THEN New ELSE head

(* A mutant: head is moved on and its node freed, the last still has it.   *)
MutDelHeadKeepsLink(idx) ==
  LET p == Round[idx]
      prev == Round[IF idx = 1 THEN length ELSE idx - 1]
  IN  /\ head # nullptr /\ idx \in 1 .. length
      /\ live' = live \ { p }
      /\ node' = [[node EXCEPT ![prev].next = IF idx = 1 THEN @ ELSE node[p].next]
                    EXCEPT ![p] = Blank]
      /\ head' = IF idx = 1 THEN node[p].next ELSE head

(* del: the node before p, the last one if p is head, gets p's next; so    *)
(* does head if p is head.  A deleted node is given fixed contents.        *)
del(idx) ==
  LET p == Round[idx]
      prev == Round[IF idx = 1 THEN length ELSE idx - 1]
  IN  /\ head # nullptr /\ idx \in 1 .. length
      /\ live' = live \ { p }
      /\ node' = [[node EXCEPT ![prev].next = node[p].next] EXCEPT ![p] = Blank]
      /\ head' = IF idx = 1 THEN node[p].next ELSE head

Lengths == 1 .. Cardinality(Addr)

Build == \E n \in Lengths : \E A \in [1 .. n -> Val] : FromArray(A)

(* A caller that, like main, never deletes the only node.                  *)
Next ==
  \/ Build
  \/ \E i \in 0 .. Cardinality(Addr), v \in Val : insert(v, i)
  \/ \E i \in Lengths : length > 1 /\ del(i)

Spec == Init /\ [][Next]_vars

----------------------------------------------------------------------------
(* The properties.                                                         *)

(* The nodes from head on are exactly those that were allocated and not    *)
(* deleted, and the last of them points at head: whichever end a call      *)
(* works at, the ring stays closed and nothing is lost.                    *)
RingClosed ==
  head # nullptr =>
    /\ Range(Round) = live
    /\ node[Last(Round)].next = head

(* insert puts its value behind the idx-th element, or in front at 0, and  *)
(* del takes the idx-th out: read from head the others keep their order,   *)
(* also where head itself moves.                                           *)
CallsByPosition ==
  [][\A i \in 0 .. Cardinality(Addr) :
       /\ \A v \in Val :
            insert(v, i) => Values(node', head') = InsertAt(Contents, i + 1, v)
       /\ del(i) => Values(node', head') = RemoveAt(Contents, i)]_vars
=============================================================================
