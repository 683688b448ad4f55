CONSTANTS
    NumCalls = 3
    Pinned = {2, 3}
    Uses <- MainUses
SPECIFICATION LauncherSpec
INVARIANTS
    FuncFindsArguments
