------------------------------- MODULE Lists -------------------------------
(***************************************************************************)
(* The two linked lists of the repository, each program on its own heap:   *)
(* the objects of LinkedList or the ring of CircularList, and the          *)
(* sequences both stand for.                                               *)
(***************************************************************************)
EXTENDS LinkedList

CONSTANT Ring       \* the CircularLinkedList object

ASSUME RingAssumption == Ring \notin Lists

VARIABLES listClass,  \* the class whose objects are used
          head        \* the member of Ring

allVars == << vars, listClass, head >>

R == INSTANCE CircularList

----------------------------------------------------------------------------
ListsInit ==
  /\ Init
  /\ listClass \in { "LinkedList", "CircularLinkedList" }
  /\ head = nullptr

ListsNext ==
  \/ listClass = "LinkedList" /\ Next /\ UNCHANGED << listClass, head >>
  \/ listClass = "CircularLinkedList" /\ R!Next /\ UNCHANGED << listClass, first, given >>

ListsSpec == ListsInit /\ [][ListsNext]_allVars

----------------------------------------------------------------------------
(* Whatever calls were made, a list in use reaches no deleted node and no  *)
(* node of another one and ends at a null pointer, and the ring is closed: *)
(* its last node points at head, and no node that was allocated is lost.   *)
(* is_loop reports the lists that were bent into a loop and, as it should  *)
(* not, those of one node (linkedlist_adt.cpp:136, 202, 213, 274,          *)
(* circular_ll.cpp:57, 84).                                                *)
NodesLinked == WellLinked /\ LoopsFound /\ R!RingClosed

(* insert and del find the node before the one their index means, in a     *)
(* list that counts from 0 and in a ring where the node before the first   *)
(* is the last (linkedlist_adt.cpp:94, 136, circular_ll.cpp:61, 92).       *)
PositionsKept == CallsByPosition /\ R!CallsByPosition

(* The inductive invariant: the part of NodesLinked that the calls rely    *)
(* on, and that the objects of the other class are never used.             *)
ListsInv ==
  /\ TypeOK
  /\ listClass \in { "LinkedList", "CircularLinkedList" } /\ head \in Pointer
  /\ WellLinked /\ R!RingClosed
  /\ listClass = "LinkedList" => head = nullptr
  /\ listClass = "CircularLinkedList" => given = {} /\ \A l \in Lists : first[l] = nullptr

(* Through their nodes the lists and the ring are sequences that change as *)
(* SeqList says (a list that was taken over counts as empty): no call      *)
(* disturbs a list it was not made on, whichever nodes they share in       *)
(* between, and merge keeps and loses exactly the values SeqList names.    *)
held == [l \in Lists \cup { Ring } |->
          IF l = Ring THEN R!Contents
          ELSE IF l \in given THEN << >> ELSE Contents(l)]

Q == INSTANCE SeqList WITH Lists <- Lists \cup { Ring }, seqs <- held
ImplementsSeqList == Q!Spec
=============================================================================
