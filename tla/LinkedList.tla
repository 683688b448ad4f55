----------------------------- MODULE LinkedList -----------------------------
(***************************************************************************)
(* The class LinkedList of src/linkedlist/linkedlist_adt.cpp, on the heap  *)
(* the nodes live in: two lists can reach the same nodes after concat and  *)
(* merge, a deleted node can still be pointed at, and the last node can be *)
(* made to point back at the first.                                        *)
(*                                                                         *)
(* A call is one step.  The loops that rearrange pointers (reverse, merge, *)
(* is_loop) are written with the pointers of the code; the ones that only  *)
(* walk to a position use Path, the nodes that are met on the way.         *)
(***************************************************************************)
EXTENDS Nodes, FiniteSetsExt

CONSTANT Lists        \* the LinkedList objects

ASSUME ListAssumption ==
  /\ IsFiniteSet(Addr)
  /\ Val \subseteq Int
  /\ nullptr \notin Addr

VARIABLES first,      \* first[l] is the member of object l
          node,       \* node[a] is the Node at address a
          live,       \* the addresses allocated and not deleted
          given       \* the lists whose nodes another list has taken over

vars == << first, node, live, given >>

----------------------------------------------------------------------------
(* Walks.                                                                  *)

next(a) == Follow(node, a)

PathOf(l) == Path(node, first[l])

(* What display prints of a list with no loop, and its length.             *)
Contents(l) == Values(node, first[l])

length(l) == Len(PathOf(l))

is_sorted(s) == \A i \in 1 .. Len(s) - 1 : s[i] <= s[i + 1]

(* A mutant: both pointers of is_loop move at the same speed.              *)
MutLoopOneSpeed(q) == next(q)

(* The fast pointer: one step, and a second one unless it has reached null.*)
Fast(q) == next(next(q))

(* The do loop of is_loop, with its slow pointer and its fast pointer q:    *)
(* they meet before either of them is null.                                *)
is_loop(l) ==
  LET p == Walk(node, first[l])
      q == Rounds([a \in Pointer |-> Fast(a)], first[l])
  IN  \E k \in 1 .. Cardinality(Addr) :
         /\ p[k] = q[k]
         /\ \A j \in 1 .. k - 1 : p[j] # nullptr /\ q[j] # nullptr

----------------------------------------------------------------------------
(* The heap.                                                               *)

Free == Addr \ live

(* Which free address `new Node` returns makes no difference to the lists. *)
New == CHOOSE a \in Free : TRUE

Usable(l) == l \notin given

----------------------------------------------------------------------------
(* The calls.                                                              *)

Init ==
  /\ first = [l \in Lists |-> nullptr]
  /\ node = [a \in Addr |-> Blank]
  /\ live = {}
  /\ given = {}

(* The constructor from an array: a node for each element, in order.  It   *)
(* reads A[0], so the array must not be empty.                             *)
FromArray(l, A) ==
  LET a == SetToSeq(Free)      \* the addresses the nodes get
      n == Len(A)
  IN  /\ Usable(l) /\ first[l] = nullptr /\ n \in 1 .. Len(a)
      /\ live' = live \cup { a[i] : i \in 1 .. n }
      /\ node' = [b \in Addr |->
                   IF \E i \in 1 .. n : a[i] = b
                   THEN LET i == CHOOSE i \in 1 .. n : a[i] = b
                        IN  [data |-> A[i],
                             next |-> IF i = n THEN nullptr ELSE a[i + 1]]
                   ELSE node[b]]
      /\ first' = [first EXCEPT ![l] = a[1]]
      /\ UNCHANGED given

(* A mutant: the walk stops one node too late.                             *)
MutInsertOneLate(l, index, val) ==
  LET path == PathOf(l)
      prev == path[IF index < Len(path) THEN index + 1 ELSE index]
  IN  /\ Usable(l) /\ index \in 0 .. length(l) /\ Free # {}
      /\ live' = live \cup { New }
      /\ IF index = 0
         THEN /\ node' = [node EXCEPT ![New] = [data |-> val, next |-> first[l]]]
              /\ first' = [first EXCEPT ![l] = New]
         ELSE /\ node' = Link([node EXCEPT ![New] = [data |-> val,
                                                     next |-> next(prev)]],
                              prev, New)
              /\ UNCHANGED first
      /\ UNCHANGED given

(* insert: ignored unless index is in 0 .. length().                       *)
insert(l, index, val) ==
  LET prev == PathOf(l)[index]
  IN  /\ Usable(l) /\ index \in 0 .. length(l) /\ Free # {}
      /\ live' = live \cup { New }
      /\ IF index = 0
         THEN /\ node' = [node EXCEPT ![New] = [data |-> val, next |-> first[l]]]
              /\ first' = [first EXCEPT ![l] = New]
         ELSE /\ node' = Link([node EXCEPT ![New] = [data |-> val,
                                                     next |-> next(prev)]],
                              prev, New)
              /\ UNCHANGED first
      /\ UNCHANGED given

(* sorted_insert: after the nodes at the front that are less than val.  It *)
(* reads q->next with q null when there is none: callers must not.         *)
sorted_insert(l, val) ==
  LET path == PathOf(l)
      less == { i \in DOMAIN path : \A j \in 1 .. i : node[path[j]].data < val }
      q == path[Max(less)]
  IN  /\ Usable(l) /\ Free # {} /\ less # {}
      /\ live' = live \cup { New }
      /\ node' = Link([node EXCEPT ![New] = [data |-> val, next |-> next(q)]], q, New)
      /\ UNCHANGED << first, given >>

(* del: ignored unless idx is in 1 .. length().  A deleted Node is given   *)
(* fixed contents: nothing may read them.                                  *)
del(l, idx) ==
  LET path == PathOf(l)
      p == path[idx]
  IN  /\ Usable(l) /\ idx \in 1 .. length(l)
      /\ live' = live \ { p }
      /\ IF idx = 1
         THEN /\ first' = [first EXCEPT ![l] = next(p)]
              /\ node' = [node EXCEPT ![p] = Blank]
         ELSE /\ node' = [Link(node, path[idx - 1], next(p)) EXCEPT ![p] = Blank]
              /\ UNCHANGED first
      /\ UNCHANGED given

(* The sliding pointers of reverse: q is the node just passed, p the rest. *)
Reversed(l) ==
  Final(Rounds([c \in [heap : Heaps, p : Pointer, q : Pointer] |->
                  IF c.p = nullptr THEN c
                  ELSE [heap |-> Link(c.heap, c.p, c.q), p |-> c.heap[c.p].next, q |-> c.p]],
               [heap |-> node, p |-> first[l], q |-> nullptr]))

(* A mutant: first stays on the node that is the last one now.             *)
MutReverseKeepsFirst(l) ==
  /\ Usable(l)
  /\ node' = Reversed(l).heap
  /\ UNCHANGED << first, live, given >>

reverse(l) ==
  /\ Usable(l)
  /\ node' = Reversed(l).heap
  /\ first' = [first EXCEPT ![l] = Reversed(l).q]
  /\ UNCHANGED << live, given >>

(* concat: m keeps pointing at its first node, which is l's now as well.   *)
(* An empty l has no last node to link from: callers must not.             *)
concat(l, m) ==
  /\ Usable(l) /\ Usable(m) /\ l # m /\ first[l] # nullptr
  /\ node' = Link(node, Last(PathOf(l)), first[m])
  /\ given' = given \cup { m }
  /\ UNCHANGED << first, live >>

(* The first loop of merge: the smaller of p and q is linked behind curr,  *)
(* q if they are equal; at the end one of p and q is null.                 *)
Take(c, a) == Link(Link(c.heap, c.curr, a), a, nullptr)

MergeLoop(curr, p, q) ==
  Final(Rounds([c \in [heap : Heaps, curr : Addr, p : Pointer, q : Pointer] |->
                  IF c.p = nullptr \/ c.q = nullptr THEN c
                  ELSE IF c.heap[c.p].data < c.heap[c.q].data
                  THEN [c EXCEPT !.heap = Take(c, c.p), !.curr = c.p, !.p = c.heap[c.p].next]
                  ELSE [c EXCEPT !.heap = Take(c, c.q), !.curr = c.q, !.q = c.heap[c.q].next]],
               [heap |-> node, curr |-> curr, p |-> p, q |-> q]))

(* "clear remaining": every node from p on is linked behind curr in turn,  *)
(* and curr does not move.                                                 *)
Rest(heap, curr, p) ==
  Final(Rounds([c \in [heap : Heaps, p : Pointer] |->
                  IF c.p = nullptr THEN c
                  ELSE [heap |-> Link(c.heap, curr, c.p), p |-> c.heap[c.p].next]],
               [heap |-> heap, p |-> p])).heap

(* merge reads the first node of both lists: neither may be empty.         *)
merge(l, m) ==
  LET p == first[l]
      q == first[m]
      final == IF node[p].data < node[q].data THEN p ELSE q
      main == IF final = p THEN MergeLoop(p, next(p), q)
                           ELSE MergeLoop(q, p, next(q))
  IN  /\ Usable(l) /\ Usable(m) /\ l # m /\ p # nullptr /\ q # nullptr
      /\ is_sorted(Contents(l)) /\ is_sorted(Contents(m))
      /\ node' = Rest(Rest(main.heap, main.curr, main.p), main.curr, main.q)
      /\ first' = [first EXCEPT ![l] = final]
      /\ given' = given \cup { m }
      /\ UNCHANGED live

(* The destructor deletes every node it reaches.                           *)
Destroy(l) ==
  /\ Usable(l) /\ first[l] # nullptr
  /\ live' = live \ Range(PathOf(l))
  /\ node' = [a \in Addr |-> IF a \in Range(PathOf(l)) THEN Blank ELSE node[a]]
  /\ first' = [first EXCEPT ![l] = nullptr]
  /\ UNCHANGED given

(* main bends a list into a loop by hand, and only calls is_loop on it.    *)
CloseLoop(l) ==
  /\ Usable(l) /\ first[l] # nullptr
  /\ node' = Link(node, Last(PathOf(l)), first[l])
  /\ given' = given \cup { l }
  /\ UNCHANGED << first, live >>

(* The calls of a client that, like main, does not use a list again whose  *)
(* nodes another one has taken over.                                       *)
Next ==
  \E l \in Lists :
    \/ \E n \in 1 .. Cardinality(Addr) : \E A \in [1 .. n -> Val] : FromArray(l, A)
    \/ \E i \in 0 .. Cardinality(Addr), v \in Val : insert(l, i, v)
    \/ \E v \in Val : sorted_insert(l, v)
    \/ \E i \in 1 .. Cardinality(Addr) : del(l, i)
    \/ reverse(l)
    \/ \E m \in Lists : concat(l, m) \/ merge(l, m)
    \/ Destroy(l)
    \/ CloseLoop(l)

Spec == Init /\ [][Next]_vars

----------------------------------------------------------------------------
(* The properties.                                                         *)

TypeOK ==
  /\ first \in [Lists -> Pointer]
  /\ node \in Heaps
  /\ live \subseteq Addr
  /\ given \subseteq Lists

(* No list still in use reaches a deleted node or a node of another one,   *)
(* and each ends at a null pointer, although merge and concat link nodes   *)
(* of two objects and the destructor frees whatever it reaches.            *)
WellLinked ==
  \A l \in Lists \ given :
    LET path == PathOf(l)
    IN  /\ Range(path) \subseteq live
        /\ path # << >> => next(Last(path)) = nullptr
        /\ \A m \in Lists \ (given \cup { l }) :
              Range(path) \cap Range(PathOf(m)) = {}

(* What is_loop makes of a list: its two pointers meet if, and only if,    *)
(* the last node points back or there is no second node.  In a list of one *)
(* node that ends both step to null at once, and the test for p == q comes *)
(* before the one for null (linkedlist_adt.cpp:274).                       *)
Looped(l) == next(Last(PathOf(l))) # nullptr

Intact(l) == first[l] # nullptr /\ Range(PathOf(l)) \subseteq live

LoopsFound ==
  \A l \in Lists : Intact(l) => (is_loop(l) <=> Looped(l) \/ length(l) = 1)

(* "Returns true if linkedlist is a loop ... If one of the cars reach      *)
(* null, means there is no circle" (the comment in is_loop): it reports    *)
(* the lists whose last node points back, and no other.                    *)
OnlyLoopsFound == \A l \in Lists : Intact(l) => (is_loop(l) <=> Looped(l))

(* insert puts its value where its index says, counted from 0, and del     *)
(* takes the value at its index out, counted from 1: the walks that look   *)
(* for the node before stop at the right one.  sorted_insert finds a place *)
(* that leaves a sorted list sorted, ties included (linkedlist_adt.cpp:94, *)
(* 120, 136).                                                              *)
CallsByPosition ==
  [][\A l \in Lists :
       /\ \A i \in 0 .. Cardinality(Addr) :
            /\ \A v \in Val :
                 insert(l, i, v) => Contents(l)' = InsertAt(Contents(l), i + 1, v)
            /\ del(l, i) => Contents(l)' = RemoveAt(Contents(l), i)
       /\ \A v \in Val :
            sorted_insert(l, v) /\ is_sorted(Contents(l)) => is_sorted(Contents(l)')]_vars

(* "Add the remaining elements of the other list" (the comment in merge):  *)
(* a merged list is as long as the two it was made of.                     *)
MergeKeepsAll ==
  [][\A l, m \in Lists :
       merge(l, m) => Len(Contents(l)') = Len(Contents(l)) + Len(Contents(m))]_vars
=============================================================================
