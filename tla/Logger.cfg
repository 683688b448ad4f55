\* Three slots, two of them in use at most, and the indices go around twice.
CONSTANTS
    Blank = Blank
    Elem = {a, b}
    NumElems = 3
    MaxBacklog = 2
    MaxLog = 6
SPECIFICATION FairSpec
INVARIANTS
    IInv
    NoDataRace
    AssertHolds
    ClosedComplete
PROPERTIES
    ImplementsFifo
    DestructorReturns
