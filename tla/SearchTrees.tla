---------------------------- MODULE SearchTrees ----------------------------
(***************************************************************************)
(* One tree of one of the three programs.  Of a search tree, of class BST  *)
(* or AVLTree, any calls its callers can make: both classes offer insert   *)
(* and del on the same keys and assign what they return to root.  Of a     *)
(* binary tree, any values a user enters.                                  *)
(***************************************************************************)
EXTENDS BST, AVL, SequencesExt, FiniteSetsExt

CONSTANTS BSTKeys, AVLKeys,       \* the values the callers of each class use
          Inputs, MaxNodes        \* those of a binary tree, and its bound

ASSUME KeysAssumption ==
  /\ BSTKeys \subseteq Int /\ IsFiniteSet(BSTKeys)
  /\ AVLKeys \subseteq Int /\ IsFiniteSet(AVLKeys)
  /\ Inputs \subseteq Int \ { -1 } /\ MaxNodes \in Nat

VARIABLES class,                  \* "BST", "AVLTree" or "BinaryTree"
          tree,                   \* what root of a search tree points at
          data, q, curr, entered  \* the variables of BinaryTree

T == INSTANCE BinaryTree

buildVars == << data, q, curr, entered >>

treesVars == << class, tree, buildVars >>

Keys == IF class = "BST" THEN BSTKeys ELSE AVLKeys

Insertion(t, k) == IF class = "BST" THEN BST_insert(t, k) ELSE AVLTree_insert(t, k)
Deletion(t, k)  == IF class = "BST" THEN BST_del(t, k) ELSE AVLTree_del(t, k)

----------------------------------------------------------------------------
TreesInit ==
  /\ class \in { "BST", "AVLTree", "BinaryTree" }
  /\ tree = Empty
  /\ T!TreeInit

IsSearchTree == class \in { "BST", "AVLTree" }

(* A caller stops at trees of MaxHeight levels.                            *)
InsertKey(k) ==
  /\ height(tree) < MaxHeight
  /\ tree' = Insertion(tree, k) /\ UNCHANGED << class, buildVars >>

(* del takes any int, whether or not it is in the tree.                    *)
DeleteKey(k) == tree' = Deletion(tree, k) /\ UNCHANGED << class, buildVars >>

TreesNext ==
  \/ IsSearchTree /\ \E k \in Keys : InsertKey(k) \/ DeleteKey(k)
  \/ class = "BinaryTree" /\ T!TreeNext /\ UNCHANGED << class, tree >>

TreesSpec == TreesInit /\ [][TreesNext]_treesVars

----------------------------------------------------------------------------
(* The properties.                                                         *)

(* Smaller values are on the left of every node, bigger ones on its right, *)
(* and no value occurs twice, after any sequence of insert and del: the    *)
(* replacements of del and the rotations keep the in-order walk sorted     *)
(* (bst_adt.cpp:147, avl_tree_adt.cpp:54).  So the walk of BST::search,    *)
(* which sees one path only, finds exactly the values that are somewhere   *)
(* in the tree (bst_adt.cpp:54).                                           *)
SearchTree ==
  /\ KeysOf(tree) \subseteq Keys /\ Sorted(tree)
  /\ class = "BST" => \A k \in Keys : BST_search(tree, k) # Empty <=> k \in KeysOf(tree)

(* "A tree is balanced if |balance factor| <= 1" (avl_tree.txt): it holds  *)
(* at every node after every insert and del, although insert rotates only  *)
(* where the child leans and del may have to rotate at several levels.     *)
Balanced ==
  class = "AVLTree" => \A t \in Subtrees(tree) : balance_factor(t) \in {-1, 0, 1}

(* No key of t lies between x and k.                                       *)
Nearest(t, x, k) ==
  \A y \in KeysOf(t) : ~ (x < y /\ y < k) /\ ~ (k < y /\ y < x)

(* Whatever tree the calls before have left, the next call does to its     *)
(* keys what its own argument says.  insert puts that value in and loses   *)
(* none; del of a value that is not there takes out nothing or, where its  *)
(* search ends at a leaf, that leaf, which is the smaller or the bigger    *)
(* neighbour of the value (bst_adt.cpp:45, 135, avl_tree_adt.cpp:105, 156; *)
(* AbsentKept is what del's comment makes its callers expect).             *)
OneKeyPerCall ==
  IsSearchTree => \A k \in Keys :
    LET now == KeysOf(tree)
    IN  /\ height(tree) < MaxHeight => KeysOf(Insertion(tree, k)) = now \cup { k }
        /\ k \notin now =>
             \/ KeysOf(Deletion(tree, k)) = now
             \/ \E x \in now : Nearest(tree, x, k) /\ KeysOf(Deletion(tree, k)) = now \ { x }

(* A value that is in the tree is the one del takes out, wherever it is    *)
(* and wherever its replacement comes from.                                *)
PresentIsDeleted ==
  \A k \in KeysOf(tree) : KeysOf(Deletion(tree, k)) = KeysOf(tree) \ { k }

(* "Find the node / If it is a leaf node, just delete it" (the comment of  *)
(* del, bst_adt.cpp:116-117): where there is no such node, nothing is      *)
(* deleted.                                                                *)
AbsentKept ==
  IsSearchTree =>
    \A k \in Keys \ KeysOf(tree) : KeysOf(Deletion(tree, k)) = KeysOf(tree)

(* What was entered is where it belongs: the nodes are those that the      *)
(* answers name pair by pair, with their values, and level_order prints    *)
(* the values in the order in which they were entered.  create_tree stops  *)
(* when it has asked for both children of every node                       *)
(* (binary_tree.cpp:27, 103).                                              *)
EnteredInLevels ==
  LET nodes == T!NodesOf(entered)
  IN  /\ T!level_order(<< >>) = nodes
      /\ T!LevelRounds(<< >>)[Cardinality(DOMAIN data)].queue = << >>
      /\ [i \in DOMAIN nodes |-> data[nodes[i]]] = T!ValuesOf(entered)
      /\ q = << >> /\ curr = << >> => Len(entered) = 2 * Len(nodes) + 1

(* Each walk meets every node once and in its order (pre_order a node      *)
(* before its subtrees, post_order after them, in_order between them);     *)
(* count is the number of nodes and height that of levels, for the root    *)
(* alone 1 (binary_tree.cpp:58, 73, 88, 126, 139).                         *)
WalksInOrder ==
  /\ T!Visits(T!pre_order(<< >>), T!PreBefore)
  /\ T!Visits(T!post_order(<< >>), T!PostBefore)
  /\ T!Visits(T!in_order(<< >>), T!InBefore)
  /\ T!count(<< >>) = Cardinality(DOMAIN data)
  /\ T!height(<< >>) = Max({ Len(p) : p \in DOMAIN data }) + 1

(* The tree is what was entered, at every point of create_tree, whichever  *)
(* function walks it.                                                      *)
WalksAgree == entered # << >> => EnteredInLevels /\ WalksInOrder

(* "height of tree: start at 0" (trees.txt:13, where a tree of height h    *)
(* has at least h + 1 nodes and at most 2^(h+1) - 1, lines 26 and 27): the *)
(* height is the number of edges on the longest path.                      *)
HeightFromZero ==
  entered # << >> => T!height(<< >>) = Max({ Len(p) : p \in DOMAIN data })
=============================================================================
