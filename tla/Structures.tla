----------------------------- MODULE Structures -----------------------------
(***************************************************************************)
(* The data structures that one thread uses, one of them per behaviour:    *)
(* the linked lists, the trees or the memory pool.  They share nothing, so *)
(* the variables of the others keep their initial values.                  *)
(***************************************************************************)
EXTENDS Lists, SearchTrees, MemPool

VARIABLE structure  \* what the program uses

structuresVars == << structure, allVars, treesVars, poolVars >>

----------------------------------------------------------------------------
(* Where the lists are not used, their class is the one of the behaviours  *)
(* in which they are, before the first call; so with the trees.            *)
StructuresInit ==
  /\ structure \in { "lists", "trees", "pool" }
  /\ ListsInit /\ TreesInit /\ PoolInit
  /\ structure # "lists" => listClass = "LinkedList"
  /\ structure # "trees" => class = "BST"

StructuresNext ==
  \/ structure = "lists" /\ ListsNext /\ UNCHANGED << structure, treesVars, poolVars >>
  \/ structure = "trees" /\ TreesNext /\ UNCHANGED << structure, allVars, poolVars >>
  \/ structure = "pool" /\ PoolNext /\ UNCHANGED << structure, allVars, treesVars >>

StructuresSpec == StructuresInit /\ [][StructuresNext]_structuresVars
=============================================================================
