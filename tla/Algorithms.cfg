CONSTANTS
    Arrays = {a1, a2}
    Size = 3
    Val = {1, 2, 3}
    Junk = Junk
    Codes = {32, 37, 65, 97}
    MaxLength = 7
    Vertices = 4
    Weights = {1, 2}
    MaxEdges = 6
    N = 3
    Box = 2
    MaxClues = 4
    IntMax = 7
SPECIFICATION BuildSpec
INVARIANTS
    OrderKept
    AnswersFormat
    StringsAtTheirEnds
    GreedyIsBest
    SearchesFindAll
PROPERTY
    CallsByPosition
\* An input that is as big as they get is only computed with.
CHECK_DEADLOCK FALSE
