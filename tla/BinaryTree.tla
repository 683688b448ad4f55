----------------------------- MODULE BinaryTree -----------------------------
(***************************************************************************)
(* src/trees/binary_tree.cpp: create_tree asks for the values of a tree    *)
(* level by level, with a queue of the nodes whose children it has still   *)
(* to ask for, and the other functions walk the tree.                      *)
(*                                                                         *)
(* A Node* is the path that leads to the node: << >> is root, each 0 goes  *)
(* on to a left child and each 1 to a right child.  A node that was        *)
(* allocated and not linked, because -1 was entered, is left out.          *)
(***************************************************************************)
EXTENDS Integers, SequencesExt, FiniteSetsExt

CONSTANTS Inputs,     \* what is entered for a node, which is never -1
          MaxNodes    \* bound: the nodes that are entered

VARIABLES data,       \* data[p] for each node p there is
          q,          \* create_tree's queue of nodes
          curr,       \* << >> or the node whose right child comes next
          entered     \* what cin has delivered, in order

treeVars == << data, q, curr, entered >>

LeftChild(p)  == Append(p, 0)
RightChild(p) == Append(p, 1)

----------------------------------------------------------------------------
(* create_tree.  `curr` is a sequence of at most one node: the node that   *)
(* was taken from the queue, while its right child is asked for.           *)

TreeInit == data = << >> /\ q = << >> /\ curr = << >> /\ entered = << >>

(* The next number from cin; a caller stops at MaxNodes nodes.             *)
Read(x) ==
  /\ x # -1 => Cardinality(DOMAIN data) < MaxNodes
  /\ entered' = Append(entered, x)

(* The nodes with a new one at p, which has the value x.                   *)
With(p, x) == [r \in DOMAIN data \cup { p } |-> IF r = p THEN x ELSE data[r]]

(* A child of p with the value x, or none if x is -1.                      *)
Link(p, x, waiting) ==
  IF x = -1 THEN q' = waiting /\ UNCHANGED data
  ELSE data' = With(p, x) /\ q' = Append(waiting, p)

EnterRoot(x) ==
  /\ entered = << >> /\ Read(x)
  /\ data' = With(<< >>, x) /\ q' = << << >> >>
  /\ UNCHANGED curr

EnterLeft(x) ==
  /\ q # << >> /\ curr = << >> /\ Read(x)
  /\ Link(LeftChild(Head(q)), x, Tail(q))
  /\ curr' = << Head(q) >>

(* A mutant: a right child goes to the front of the queue.                 *)
MutEnterRightFirst(x) ==
  /\ curr # << >> /\ Read(x)
  /\ IF x = -1 THEN UNCHANGED << data, q >>
     ELSE /\ data' = With(RightChild(curr[1]), x)
          /\ q' = << RightChild(curr[1]) >> \o q
  /\ curr' = << >>

EnterRight(x) ==
  /\ curr # << >> /\ Read(x)
  /\ Link(RightChild(curr[1]), x, q)
  /\ curr' = << >>

(* main walks the tree that is complete and returns.                       *)
Walked == entered # << >> /\ q = << >> /\ curr = << >> /\ UNCHANGED treeVars

TreeNext ==
  \/ \E x \in Inputs : EnterRoot(x)
  \/ \E x \in Inputs \cup { -1 } : EnterLeft(x) \/ EnterRight(x)
  \/ Walked

----------------------------------------------------------------------------
(* The walks: the nodes in the order in which their data is printed.       *)

IsNode(p) == p \in DOMAIN data

(* The nodes and the null pointers, where a walk may go.                   *)
Places ==
  { << >> } \cup UNION { { p, LeftChild(p), RightChild(p) } : p \in DOMAIN data }

pre_orders[p \in Places] ==
  IF IsNode(p) THEN << p >> \o pre_orders[LeftChild(p)] \o pre_orders[RightChild(p)]
  ELSE << >>

post_orders[p \in Places] ==
  IF IsNode(p) THEN post_orders[LeftChild(p)] \o post_orders[RightChild(p)] \o << p >>
  ELSE << >>

in_orders[p \in Places] ==
  IF IsNode(p) THEN in_orders[LeftChild(p)] \o << p >> \o in_orders[RightChild(p)]
  ELSE << >>

pre_order(p)  == pre_orders[p]
post_order(p) == post_orders[p]
in_order(p)   == in_orders[p]

Children(p) ==
  (IF IsNode(LeftChild(p)) THEN << LeftChild(p) >> ELSE << >>)
  \o (IF IsNode(RightChild(p)) THEN << RightChild(p) >> ELSE << >>)

(* The loop of level_order: its queue and what is printed after k rounds.  *)
LevelRounds(root) ==
  LET after[k \in 0 .. Cardinality(DOMAIN data)] ==
        IF k = 0 THEN [queue |-> << root >>, printed |-> << root >>]
        ELSE LET loop == after[k - 1]
                 p == Head(loop.queue)
             IN  IF loop.queue = << >> THEN loop
                 ELSE [queue |-> Tail(loop.queue) \o Children(p),
                       printed |-> loop.printed \o Children(p)]
  IN  after

(* It ends when the queue is empty, which is after as many rounds as there *)
(* are nodes (EnteredInLevels).                                            *)
level_order(root) == LevelRounds(root)[Cardinality(DOMAIN data)].printed

counts[p \in Places] ==
  IF IsNode(p) THEN counts[LeftChild(p)] + counts[RightChild(p)] + 1 ELSE 0

heights[p \in Places] ==
  IF ~ IsNode(p) THEN 0
  ELSE LET x == heights[LeftChild(p)]
           y == heights[RightChild(p)]
       IN  IF x > y THEN x + 1 ELSE y + 1

count(p)  == counts[p]
height(p) == heights[p]

----------------------------------------------------------------------------
(* What the properties are stated with.                                    *)

IsValue(x) == x # -1

(* The values among the answers, in their order.                           *)
ValuesTo(answers) ==
  LET to[i \in 0 .. Len(answers)] ==
        IF i = 0 THEN << >>
        ELSE IF IsValue(answers[i]) THEN Append(to[i - 1], answers[i]) ELSE to[i - 1]
  IN  to

ValuesOf(answers) == ValuesTo(answers)[Len(answers)]

(* The nodes in the order in which they were entered, said without create_ *)
(* tree: after the root the answers come in pairs, the k-th pair being the *)
(* children of the k-th node.                                              *)
Answered(answers, i) == i \in DOMAIN answers /\ IsValue(answers[i])

ChildrenEntered(answers, p, k) ==
  (IF Answered(answers, 2 * k) THEN << LeftChild(p) >> ELSE << >>)
  \o (IF Answered(answers, 2 * k + 1) THEN << RightChild(p) >> ELSE << >>)

NodesTo(answers) ==
  LET to[k \in 0 .. Len(answers)] ==
        IF k = 0 THEN << << >> >>
        ELSE LET nodes == to[k - 1]
             IN  IF k > Len(nodes) THEN nodes
                 ELSE nodes \o ChildrenEntered(answers, nodes[k], k)
  IN  to

NodesOf(answers) == NodesTo(answers)[Len(answers)]

(* How two nodes can lie: p above r, or p further left where they part.    *)
Above(p, r) == IsStrictPrefix(p, r)

LeftOf(p, r) ==
  \E i \in DOMAIN p \cap DOMAIN r :
    SubSeq(p, 1, i - 1) = SubSeq(r, 1, i - 1) /\ p[i] < r[i]

PreBefore(p, r)  == Above(p, r) \/ LeftOf(p, r)
PostBefore(p, r) == Above(r, p) \/ LeftOf(p, r)
InBefore(p, r)   == \/ LeftOf(p, r)
                    \/ Above(r, p) /\ p[Len(r) + 1] = 0
                    \/ Above(p, r) /\ r[Len(p) + 1] = 1

(* A walk that meets every node once, those that come first first.         *)
Visits(walk, Before(_, _)) ==
  /\ Len(walk) = Cardinality(DOMAIN data) /\ Range(walk) = DOMAIN data
  /\ \A i, j \in DOMAIN walk : i < j => Before(walk[i], walk[j])
=============================================================================
