---------------------------- MODULE AtomicCounter ----------------------------
(***************************************************************************)
(* atomic.cpp: threads that each increment one std::atomic<int> a fixed    *)
(* number of times, and a main() that joins them and prints the sum.       *)
(* MutexCounter is shown to implement it.                                  *)
(***************************************************************************)
EXTENDS Integers

CONSTANTS
    NumThreads,  \* how many workers main() starts
    Iterations   \* how often each increments

Workers == 1 .. NumThreads

VARIABLES
    counter,  \* std::atomic<int> counter
    started,  \* how many workers main() has started
    joined,   \* how many it has joined, in the order of the vector
    left,     \* the iterations each worker still has to do
    printed   \* what main() printed at the end, -1 before

vars == <<counter, started, joined, left, printed>>

Init ==
    /\ counter = 0
    /\ started = 0
    /\ joined = 0
    /\ left = [t \in Workers |-> Iterations]
    /\ printed = -1

\* threads.emplace_back(worker)
Start ==
    /\ started < NumThreads
    /\ started' = started + 1
    /\ UNCHANGED <<counter, joined, left, printed>>

\* ++counter, one atomic read-modify-write.
Increment(t) ==
    /\ t <= started
    /\ left[t] > 0
    /\ counter' = counter + 1
    /\ left' = [left EXCEPT ![t] = @ - 1]
    /\ UNCHANGED <<started, joined, printed>>

\* for (auto& t : threads) t.join()
Join ==
    /\ started = NumThreads
    /\ joined < NumThreads
    /\ left[joined + 1] = 0
    /\ joined' = joined + 1
    /\ UNCHANGED <<counter, started, left, printed>>

Report ==
    /\ joined = NumThreads
    /\ printed = -1
    /\ started = NumThreads
    /\ printed' = counter
    /\ UNCHANGED <<counter, started, joined, left>>

Terminated == printed # -1 /\ UNCHANGED vars

Next == Start \/ (\E t \in Workers : Increment(t)) \/ Join \/ Report \/ Terminated

Spec == Init /\ [][Next]_vars /\ WF_vars(Next)

\* What main() prints has every increment of every worker in it: it is read
\* after the last join only (atomic.cpp:24-25).
ReportsAll == printed # -1 => printed = NumThreads * Iterations

=============================================================================
