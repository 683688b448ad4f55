CONSTANTS
  BSTKeys = {1, 2, 3, 4, 5, 6, 7}
  AVLKeys = {1, 2, 3, 4, 5, 6, 7, 8, 9, 10, 11, 12}
  Inputs = {1, 2}
  MaxNodes = 6
  MaxHeight = 7
SPECIFICATION TreesSpec
INVARIANT
  HeightFromZero
