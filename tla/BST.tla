-------------------------------- MODULE BST --------------------------------
(***************************************************************************)
(* The operations of the class BST of src/bst/bst_adt.cpp, each with the   *)
(* name of its class.  SearchTrees makes the calls.                        *)
(*                                                                         *)
(* insert and search walk down with a pointer in the code; here the walk   *)
(* goes on in the subtree the pointer reaches.  del is recursive in the    *)
(* code too, and what it returns is what its callers assign to root.       *)
(***************************************************************************)
EXTENDS BinTree

(* Down to the null pointer where val belongs; nothing if val is met.      *)
BST_inserts[n \in Levels] == [t \in TreesTo[n] |-> [val \in Int |->
  IF t = Empty THEN Node(Empty, val, Empty)
  ELSE IF val < Data(t) THEN Node(BST_inserts[n - 1][Left(t)][val], Data(t), Right(t))
  ELSE IF val > Data(t) THEN Node(Left(t), Data(t), BST_inserts[n - 1][Right(t)][val])
  ELSE t]]

BST_insert(t, val) == BST_inserts[MaxHeight][t][val]

(* The node search returns, or nullptr.                                    *)
BST_searches[n \in Levels] == [t \in TreesTo[n] |-> [key \in Int |->
  IF t = Empty \/ Data(t) = key THEN t
  ELSE BST_searches[n - 1][IF Data(t) > key THEN Left(t) ELSE Right(t)][key]]]

BST_search(t, key) == BST_searches[MaxHeight][t][key]

(* A mutant: a node with one child is deleted as if it had none.           *)
MutDelsDropChild[n \in Levels] == [t \in TreesTo[n] |-> [val \in Int |->
  IF t = Empty THEN Empty
  ELSE IF Left(t) = Empty \/ IsLeaf(t) THEN Empty
  ELSE IF val < Data(t) THEN Node(MutDelsDropChild[n - 1][Left(t)][val], Data(t), Right(t))
  ELSE IF val > Data(t) THEN Node(Left(t), Data(t), MutDelsDropChild[n - 1][Right(t)][val])
  ELSE LET inpre == inorder_pre(Left(t))
       IN  Node(MutDelsDropChild[n - 1][Left(t)][Data(inpre)], Data(inpre), Right(t))]]

MutDelDropsChild(t, val) == MutDelsDropChild[MaxHeight][t][val]

(* del first deletes a leaf, whatever its data is; only then does it look  *)
(* at val.  A node with val is overwritten with its predecessor if its     *)
(* left subtree is the higher one and with its successor otherwise, and    *)
(* that value is deleted from the subtree it came from.                    *)
BST_dels[n \in Levels] == [t \in TreesTo[n] |-> [val \in Int |->
  IF t = Empty \/ IsLeaf(t) THEN Empty
  ELSE IF val < Data(t) THEN Node(BST_dels[n - 1][Left(t)][val], Data(t), Right(t))
  ELSE IF val > Data(t) THEN Node(Left(t), Data(t), BST_dels[n - 1][Right(t)][val])
  ELSE IF height(Left(t)) > height(Right(t))
       THEN LET inpre == inorder_pre(Left(t))
            IN  Node(BST_dels[n - 1][Left(t)][Data(inpre)], Data(inpre), Right(t))
       ELSE LET insuc == inorder_succ(Right(t))
            IN  Node(Left(t), Data(insuc), BST_dels[n - 1][Right(t)][Data(insuc)])]]

BST_del(t, val) == BST_dels[MaxHeight][t][val]
=============================================================================
