\* lfqueue.cpp: the program's own sizes.
\* multithread.cpp: the three calls of main(), two that pin.
\* condition_variable.cpp: the five dishes of chef().
\* mutex.cpp: main() starts 10 threads of 10000 increments; 3 of 2 meet in
\* every order.
CONSTANTS
    Blank = Blank
    Elem = {1, 2, 3, 4, 5, 6, 7, 8, 9, 10}
    NumElems = 64
    NumUpdates = 10
    NumCalls = 3
    Pinned = {2, 3}
    Uses <- MainUses
    NumDishes = 5
    NumThreads = 3
    Iterations = 2
SPECIFICATION ThreadsSpec
INVARIANTS
    IInv
    LeftoverCounted
    LauncherInv
    NoThreadOutlivesMain
    KitchenInv
    NoLostWakeup
    CounterInv
    ExactCount
PROPERTIES
    ImplementsFifo
    BothReturnIfRun
    MainEndsIfRun
    EveryDishServedIfRun
    ImplementsAtomic
