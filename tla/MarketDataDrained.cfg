\* The program's own sizes.
CONSTANTS
    Blank = Blank
    Elem = {1, 2, 3, 4, 5, 6, 7, 8, 9, 10}
    NumElems = 64
    NumUpdates = 10
SPECIFICATION Spec
INVARIANTS
    DrainedWhenDone
