CONSTANTS
  Addr = {1, 2, 3, 4}
  Val = {1, 2}
  Lists = {l1, l2}
  Ring = Ring
  nullptr = nullptr
SPECIFICATION ListsSpec
PROPERTY
  MergeKeepsAll
CHECK_DEADLOCK FALSE
