---------------------------- MODULE MutexCounter ----------------------------
(***************************************************************************)
(* mutex.cpp: the threads of AtomicCounter, incrementing a plain int       *)
(* through ThreadSafeCounter instead of an atomic one.  ++count_ is a read *)
(* and a write with other threads in between, and the mutex has to make    *)
(* it one step again: the class implements AtomicCounter.                  *)
(***************************************************************************)
EXTENDS Integers, FiniteSets

CONSTANTS NumThreads, Iterations

ASSUME CounterAssumption == NumThreads \in Nat /\ Iterations \in Nat

Workers == 1 .. NumThreads
MainThread == 0    \* main()'s own thread
Nobody == -1

VARIABLES
    count_,   \* int count_
    mtx_,     \* who holds std::mutex mtx_
    started,  \* how many workers main() has started
    joined,   \* how many it has joined
    pc,       \* where each worker is in increment()
    loaded,   \* what each worker has read of count_
    left,     \* the iterations each worker still has to do
    gpc,      \* where main() is in get()
    printed   \* what main() printed at the end, -1 before

counterVars == <<count_, mtx_, started, joined, pc, loaded, left, gpc, printed>>

CounterTypeOK ==
    /\ count_ \in 0 .. NumThreads * Iterations
    /\ mtx_ \in Workers \cup {MainThread, Nobody}
    /\ started \in 0 .. NumThreads
    /\ joined \in 0 .. NumThreads
    /\ pc \in [Workers -> {"lock", "load", "store", "unlock"}]
    /\ loaded \in [Workers -> 0 .. NumThreads * Iterations]
    /\ left \in [Workers -> 0 .. Iterations]
    /\ gpc \in {"threads", "load", "unlock", "done"}
    /\ printed \in -1 .. NumThreads * Iterations

CounterInit ==
    /\ count_ = 0
    /\ mtx_ = Nobody
    /\ started = 0
    /\ joined = 0
    /\ pc = [t \in Workers |-> "lock"]
    /\ loaded = [t \in Workers |-> 0]
    /\ left = [t \in Workers |-> Iterations]
    /\ gpc = "threads"
    /\ printed = -1

-----------------------------------------------------------------------------
(* Mutated forms of the actions below. *)

MutLockNever(t) ==
    /\ t <= started
    /\ pc[t] = "lock" /\ left[t] > 0
    /\ mtx_' = t
    /\ pc' = [pc EXCEPT ![t] = "load"]
    /\ UNCHANGED <<count_, started, joined, loaded, left, gpc, printed>>

MutStoreForEver(t) ==
    /\ pc[t] = "store"
    /\ count_' = loaded[t] + 1
    /\ pc' = [pc EXCEPT ![t] = "unlock"]
    /\ UNCHANGED <<mtx_, started, joined, loaded, left, gpc, printed>>

-----------------------------------------------------------------------------
(* ThreadSafeCounter::increment(), called Iterations times. *)

Lock(t) ==
    /\ t <= started
    /\ pc[t] = "lock" /\ left[t] > 0
    /\ mtx_ = Nobody
    /\ mtx_' = t
    /\ pc' = [pc EXCEPT ![t] = "load"]
    /\ UNCHANGED <<count_, started, joined, loaded, left, gpc, printed>>

Load(t) ==
    /\ pc[t] = "load"
    /\ loaded' = [loaded EXCEPT ![t] = count_]
    /\ pc' = [pc EXCEPT ![t] = "store"]
    /\ UNCHANGED <<count_, mtx_, started, joined, left, gpc, printed>>

Store(t) ==
    /\ pc[t] = "store"
    /\ count_' = loaded[t] + 1
    /\ left' = [left EXCEPT ![t] = @ - 1]
    /\ pc' = [pc EXCEPT ![t] = "unlock"]
    /\ UNCHANGED <<mtx_, started, joined, loaded, gpc, printed>>

\* The lock_guard goes out of scope.
Unlock(t) ==
    /\ pc[t] = "unlock"
    /\ mtx_' = Nobody
    /\ pc' = [pc EXCEPT ![t] = "lock"]
    /\ UNCHANGED <<count_, started, joined, loaded, left, gpc, printed>>

Worker(t) == Lock(t) \/ Load(t) \/ Store(t) \/ Unlock(t)

-----------------------------------------------------------------------------
(* main() *)

Start ==
    /\ started < NumThreads
    /\ started' = started + 1
    /\ UNCHANGED <<count_, mtx_, joined, pc, loaded, left, gpc, printed>>

\* A worker is over when it has let go of the mutex for the last time.
Join ==
    /\ started = NumThreads /\ joined < NumThreads
    /\ left[joined + 1] = 0 /\ pc[joined + 1] = "lock"
    /\ joined' = joined + 1
    /\ UNCHANGED <<count_, mtx_, started, pc, loaded, left, gpc, printed>>

\* get(): lock, read, unlock, and the print.
GetLock ==
    /\ gpc = "threads" /\ started = NumThreads /\ joined = NumThreads
    /\ mtx_ = Nobody
    /\ mtx_' = MainThread
    /\ gpc' = "load"
    /\ UNCHANGED <<count_, started, joined, pc, loaded, left, printed>>

GetLoad ==
    /\ gpc = "load"
    /\ printed' = count_
    /\ gpc' = "unlock"
    /\ UNCHANGED <<count_, mtx_, started, joined, pc, loaded, left>>

GetUnlock ==
    /\ gpc = "unlock"
    /\ mtx_' = Nobody
    /\ gpc' = "done"
    /\ UNCHANGED <<count_, started, joined, pc, loaded, left, printed>>

MainNext == Start \/ Join \/ GetLock \/ GetLoad \/ GetUnlock

-----------------------------------------------------------------------------
CounterEnds == gpc = "done" /\ UNCHANGED counterVars

CounterNext == MainNext \/ (\E t \in Workers : Worker(t)) \/ CounterEnds

\* The scheduler runs every thread.  A worker that finds the mutex taken may be
\* passed over, but only as often as the others still have to lock it.
CounterSpec == /\ CounterInit /\ [][CounterNext]_counterVars
        /\ WF_counterVars(MainNext)
        /\ \A t \in Workers : WF_counterVars(Worker(t))

-----------------------------------------------------------------------------
(* The inductive invariant. *)

\* No two threads are between lock and unlock together.
MutualExclusion ==
    /\ \A t \in Workers : pc[t] # "lock" <=> mtx_ = t
    /\ gpc \in {"load", "unlock"} <=> mtx_ = MainThread

\* The iterations that are done, each once; the count is their number.
Done == {d \in Workers \X (1 .. Iterations) : d[2] <= Iterations - left[d[1]]}

CountIsDone == count_ = Cardinality(Done)

\* What a worker has loaded is still the count when it stores, and it is in
\* one of its iterations.
LoadedIsCount ==
    \A t \in Workers :
        /\ pc[t] = "store" => loaded[t] = count_
        /\ pc[t] \in {"load", "store"} => left[t] > 0
        /\ pc[t] # "lock" => t <= started

\* How far main() is: a worker that was joined is done.
CounterPhases ==
    /\ joined > 0 => started = NumThreads
    /\ \A t \in 1 .. joined : left[t] = 0 /\ pc[t] = "lock"
    /\ gpc # "threads" => started = NumThreads /\ joined = NumThreads
    /\ printed = -1 <=> gpc \in {"threads", "load"}
    /\ printed # -1 => printed = count_

\* mtx_ makes the three parts of ++count_ one step, and no step of a worker
\* is lost or done after main() has joined it (mutex.cpp:16-19, 40).
CounterInv ==
    /\ CounterTypeOK
    /\ MutualExclusion
    /\ CountIsDone
    /\ LoadedIsCount
    /\ CounterPhases

-----------------------------------------------------------------------------
\* ++count_ under the mutex is as good as the atomic ++counter of atomic.cpp:
\* each step of mutex.cpp's threads is one of atomic.cpp's or none, ...
A == INSTANCE AtomicCounter WITH counter <- count_
AtomicSteps == A!Init /\ [][A!Next]_(A!vars)

\* ... and there is always a next one, until the sum is printed.
AtomicProgress == WF_(A!vars)(A!Next)

\* "exactly 100000": no increment is lost, and main() prints the sum only
\* after the last of them (mutex.cpp:31, 42).
ExactCount == A!ReportsAll

=============================================================================
