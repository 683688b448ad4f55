------------------------------ MODULE BinTree ------------------------------
(***************************************************************************)
(* Binary trees of integers, as bst_adt.cpp and avl_tree_adt.cpp build     *)
(* them.  A pointer to a Node is the tree below it: the empty sequence for *)
(* nullptr, <<left, data, right>> for a node.  Both programs reach every   *)
(* node through exactly one pointer, so a pointer and the tree it reaches  *)
(* are the same thing; only `delete p` and the leak of an unlinked node    *)
(* are lost by this abstraction.                                           *)
(*                                                                         *)
(* A function of the programs that calls itself on the trees below a node  *)
(* is a function of how many levels its tree may have: what it is for n    *)
(* levels uses what it is for n - 1.                                       *)
(***************************************************************************)
EXTENDS Integers, Sequences, FiniteSets

CONSTANT MaxHeight      \* bound: the levels a tree may have

ASSUME HeightAssumption == MaxHeight \in Nat

Empty == << >>

Node(l, d, r) == << l, d, r >>
Left(t)  == t[1]
Data(t)  == t[2]
Right(t) == t[3]

IsLeaf(t) == t # Empty /\ Left(t) = Empty /\ Right(t) = Empty

Levels == 0 .. MaxHeight

(* The trees of at most n levels, and all of them.                         *)
TreesTo ==
  LET to[n \in Levels] ==
        IF n = 0 THEN { Empty }
        ELSE LET below == to[n - 1] IN { Empty } \cup (below \X Int \X below)
  IN  [n \in Levels |-> to[n]]

Trees == TreesTo[MaxHeight]

----------------------------------------------------------------------------
(* The walks that the two files have in common.                            *)

(* Nodes on the longest path down from t.                                  *)
heights[n \in Levels] == [t \in TreesTo[n] |->
  IF t = Empty THEN 0
  ELSE LET x == heights[n - 1][Left(t)]
           y == heights[n - 1][Right(t)]
       IN  IF x > y THEN 1 + x ELSE 1 + y]

height(t) == heights[MaxHeight][t]

(* The rightmost, and the leftmost, node of a tree that is not empty: the  *)
(* in-order predecessor (successor) of the node above it.                  *)
inorder_pres[n \in Levels] == [t \in TreesTo[n] |->
  IF t = Empty \/ Right(t) = Empty THEN t ELSE inorder_pres[n - 1][Right(t)]]

inorder_pre(t) == inorder_pres[MaxHeight][t]

inorder_succs[n \in Levels] == [t \in TreesTo[n] |->
  IF t = Empty \/ Left(t) = Empty THEN t ELSE inorder_succs[n - 1][Left(t)]]

inorder_succ(t) == inorder_succs[MaxHeight][t]

(* What inorder_display prints.                                            *)
inorder_displays[n \in Levels] == [t \in TreesTo[n] |->
  IF t = Empty THEN << >>
  ELSE inorder_displays[n - 1][Left(t)] \o << Data(t) >> \o inorder_displays[n - 1][Right(t)]]

inorder_display(t) == inorder_displays[MaxHeight][t]

----------------------------------------------------------------------------
(* What the properties are stated with.                                    *)

KeysOf(t) == LET s == inorder_display(t) IN { s[i] : i \in DOMAIN s }

(* Everything on the left of a node is smaller, everything on its right is *)
(* bigger, and nothing occurs twice (bst.txt): the in-order walk is sorted.*)
Sorted(t) ==
  LET s == inorder_display(t)
  IN  \A i, j \in DOMAIN s : i < j => s[i] < s[j]

SubtreesTo[n \in Levels] == [t \in TreesTo[n] |->
  IF t = Empty THEN {}
  ELSE { t } \cup SubtreesTo[n - 1][Left(t)] \cup SubtreesTo[n - 1][Right(t)]]

Subtrees(t) == SubtreesTo[MaxHeight][t]
=============================================================================
