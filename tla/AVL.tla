-------------------------------- MODULE AVL --------------------------------
(***************************************************************************)
(* The operations of the class AVLTree of src/avl_tree/avl_tree_adt.cpp,   *)
(* insert and del with the name of their class.  SearchTrees makes the     *)
(* calls.  insert and del return the new root of the subtree they are      *)
(* given, and callers assign it to root, as main does; the updates of root *)
(* inside the rotations and del write the same pointer.                    *)
(***************************************************************************)
EXTENDS BinTree

----------------------------------------------------------------------------
(* Heights and rotations.                                                  *)

node_height(t) == height(t)

balance_factor(t) == node_height(Left(t)) - node_height(Right(t))

ll_rotation(p) ==
  LET pl == Left(p)
  IN  Node(Left(pl), Data(pl), Node(Right(pl), Data(p), Right(p)))

(* A mutant: the two subtrees of the node that moves up change places.     *)
MutLrSwapped(p) ==
  LET pl  == Left(p)
      plr == Right(pl)
  IN  Node(Node(Left(pl), Data(pl), Right(plr)), Data(plr),
           Node(Left(plr), Data(p), Right(p)))

lr_rotation(p) ==
  LET pl  == Left(p)
      plr == Right(pl)
  IN  Node(Node(Left(pl), Data(pl), Left(plr)), Data(plr),
           Node(Right(plr), Data(p), Right(p)))

(* A mutant: the subtree between the two nodes is not moved over.          *)
MutRrLosesMiddle(p) ==
  LET pr == Right(p)
  IN  Node(Node(Left(p), Data(p), Empty), Data(pr), Right(pr))

rr_rotation(p) ==
  LET pr == Right(p)
  IN  Node(Node(Left(p), Data(p), Left(pr)), Data(pr), Right(pr))

rl_rotation(p) ==
  LET pr  == Right(p)
      prl == Left(pr)
  IN  Node(Node(Left(p), Data(p), Left(prl)), Data(prl),
           Node(Right(prl), Data(pr), Right(pr)))

(* The rotation insert makes at p, if any, on its way back up.             *)
InsertRotation(p) ==
  LET b == balance_factor(p)
  IN  IF b \in -1 .. 1 THEN p
      ELSE IF b > 1
      THEN LET c == balance_factor(Left(p))
           IN  IF c = 1 THEN ll_rotation(p)
               ELSE IF c = -1 THEN lr_rotation(p) ELSE p
      ELSE LET c == balance_factor(Right(p))
           IN  IF c = 1 THEN rl_rotation(p)
               ELSE IF c = -1 THEN rr_rotation(p) ELSE p

(* A mutant: del rotates in the cases insert knows, not in L0 and R0.      *)
MutDelRotationAsInsert(p) == InsertRotation(p)

(* The rotation del makes: also where the higher child is itself level.    *)
DelRotation(p) ==
  LET b == balance_factor(p)
  IN  IF b \notin {-2, 2} THEN p
      ELSE IF b = 2
      THEN LET c == balance_factor(Left(p))
           IN  IF c \in {0, 1} THEN ll_rotation(p)
               ELSE IF c = -1 THEN lr_rotation(p) ELSE p
      ELSE LET c == balance_factor(Right(p))
           IN  IF c \in {-1, 0} THEN rr_rotation(p)
               ELSE IF c = 1 THEN rl_rotation(p) ELSE p

----------------------------------------------------------------------------
(* The operations.                                                         *)

AVLTree_inserts[n \in Levels] == [p \in TreesTo[n] |-> [key \in Int |->
  IF p = Empty THEN Node(Empty, key, Empty)
  ELSE InsertRotation(
         IF key < Data(p) THEN Node(AVLTree_inserts[n - 1][Left(p)][key], Data(p), Right(p))
         ELSE IF key > Data(p) THEN Node(Left(p), Data(p), AVLTree_inserts[n - 1][Right(p)][key])
         ELSE p)]]

AVLTree_insert(p, key) == AVLTree_inserts[MaxHeight][p][key]

(* As in the BST a leaf is deleted before key is compared with its data,   *)
(* and a node with key takes the value of a neighbour from its higher side.*)
AVLTree_dels[n \in Levels] == [p \in TreesTo[n] |-> [key \in Int |->
  IF p = Empty \/ IsLeaf(p) THEN Empty
  ELSE DelRotation(
         IF key < Data(p) THEN Node(AVLTree_dels[n - 1][Left(p)][key], Data(p), Right(p))
         ELSE IF key > Data(p) THEN Node(Left(p), Data(p), AVLTree_dels[n - 1][Right(p)][key])
         ELSE IF node_height(Left(p)) > node_height(Right(p))
              THEN LET t == inorder_pre(Left(p))
                   IN  Node(AVLTree_dels[n - 1][Left(p)][Data(t)], Data(t), Right(p))
              ELSE LET t == inorder_succ(Right(p))
                   IN  Node(Left(p), Data(t), AVLTree_dels[n - 1][Right(p)][Data(t)]))]]

AVLTree_del(p, key) == AVLTree_dels[MaxHeight][p][key]
=============================================================================
