\* Four nodes are enough for two lists of two to be merged or joined and for
\* every position of a call on one of them.
\* Seven keys give every shape a replacement can be taken from.  A deletion
\* that rotates at two levels needs an AVL tree of twelve.  Six nodes give a
\* binary tree whose levels are not full in every way there is.
\* Five slots of the pool as in main(), and pointers one place outside it.
CONSTANTS
  Addr = {1, 2, 3, 4}
  Val = {1, 2}
  Lists = {l1, l2}
  Ring = Ring
  nullptr = nullptr
  BSTKeys = {1, 2, 3, 4, 5, 6, 7}
  AVLKeys = {1, 2, 3, 4, 5, 6, 7, 8, 9, 10, 11, 12}
  Inputs = {1, 2}
  MaxNodes = 6
  MaxHeight = 7
  Object = {o1, o2}
  Default = Default
  NumElems = 5
SPECIFICATION StructuresSpec
INVARIANTS
  NodesLinked
  SearchTree
  Balanced
  PresentIsDeleted
  OneKeyPerCall
  WalksAgree
  PoolInv
PROPERTIES
  PositionsKept
  ImplementsSeqList
  ImplementsPool
\* Once both lists were taken over or bent into loops no call is left.
CHECK_DEADLOCK FALSE
