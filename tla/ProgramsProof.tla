--------------------------- MODULE ProgramsProof ---------------------------
(***************************************************************************)
(* Proofs about four small programs that share no names: ThreadStart,      *)
(* Kitchen and MutexCounter, whose threads share state under a mutex or    *)
(* flags, and the pool of MemPool.                                         *)
(***************************************************************************)
EXTENDS ThreadStart, Kitchen, MutexCounter, MemPool, FiniteSetTheorems,
        WellFoundedInduction, TLAPS

-----------------------------------------------------------------------------
(* ThreadStart, for any number of calls and whichever of them pin.         *)

\* The initial states satisfy the invariant.
LEMMA LauncherInvInit == LauncherInit => LauncherInv
BY CallsAssumption
   DEF LauncherInit, LauncherInv, LauncherTypeOK, FlagsAlive, NullMeansReaped,
       MainPhases, FlagsTell, Made, NotYet, Calls

\* The steps of main() and of createAndStartThread().
LEMMA MainKeepsInv ==
    ASSUME LauncherInv, Main
    PROVE  LauncherInv'
<1>0. NumCalls \in Nat \ {0}
  BY CallsAssumption
<1>. USE <1>0 DEF LauncherInv, LauncherTypeOK, FlagsAlive, NullMeansReaped,
                  MainPhases, FlagsTell, Made, NotYet, Calls
<1>1. ASSUME NEW k \in Calls, StartThread(k) PROVE LauncherInv'
  BY <1>1 DEF StartThread
<1>2. ASSUME NEW k \in Calls, SpinSleeps(k) PROVE LauncherInv'
  BY <1>2 DEF SpinSleeps, launcherVars
<1>3. ASSUME NEW k \in Calls, SpinEnds(k) PROVE LauncherInv'
  <2>1. tpc[k] \in {"func", "finish", "exit"}
    BY <1>3 DEF SpinEnds
  <2>2. LauncherTypeOK'
    BY <1>3 DEF SpinEnds, Returns
  <2>3. FlagsTell' /\ NullMeansReaped'
    BY <1>3 DEF SpinEnds, Returns
  <2>4. FlagsAlive'
    BY <1>3, <2>1 DEF SpinEnds, Returns
  <2>5. MainPhases'
    BY <1>3, <2>1 DEF SpinEnds, Returns
  <2>. QED
    BY <2>2, <2>3, <2>4, <2>5
<1>4. ASSUME NEW k \in Calls, SpinFails(k) PROVE LauncherInv'
  BY <1>4 DEF SpinFails
<1>5. ASSUME NEW k \in Calls, Reap(k) PROVE LauncherInv'
  BY <1>5 DEF Reap, Returns
<1>6. ASSUME NEW k \in Calls, JoinThread(k) PROVE LauncherInv'
  BY <1>6 DEF JoinThread
<1>7. CASE MainReturns
  BY <1>7 DEF MainReturns
<1>. QED
  BY <1>1, <1>2, <1>3, <1>4, <1>5, <1>6, <1>7 DEF Main

\* The steps of a new thread.
LEMMA ThreadKeepsInv ==
    ASSUME LauncherInv, NEW k \in Calls, Thread(k)
    PROVE  LauncherInv'
<1>0. NumCalls \in Nat \ {0}
  BY CallsAssumption
<1>. USE <1>0 DEF LauncherInv, LauncherTypeOK, FlagsAlive, NullMeansReaped,
                  MainPhases, FlagsTell, Made, NotYet, Calls
<1>1. CASE ThreadPin(k)
  <2>1. PICK p \in {"run", "fail"} : tpc' = [tpc EXCEPT ![k] = p]
    BY <1>1 DEF ThreadPin
  <2>2. /\ tpc[k] = "pin"
        /\ UNCHANGED <<mpc, current, alive, running, failed, uses, handle>>
    BY <1>1 DEF ThreadPin
  <2>3. LauncherTypeOK' /\ FlagsAlive'
    BY <2>1, <2>2
  <2>4. NullMeansReaped' /\ FlagsTell'
    BY <2>1, <2>2
  <2>5. MainPhases'
    BY <2>1, <2>2
  <2>. QED
    BY <2>3, <2>4, <2>5
<1>2. CASE ThreadFail(k)
  BY <1>2 DEF ThreadFail
<1>3. CASE ThreadLeave(k)
  BY <1>3 DEF ThreadLeave
<1>4. CASE ThreadRun(k)
  BY <1>4 DEF ThreadRun
<1>5. CASE ThreadFunc(k)
  BY <1>5 DEF ThreadFunc
<1>6. CASE ThreadReturns(k)
  BY <1>6 DEF ThreadReturns
<1>7. CASE ThreadFinish(k)
  BY <1>7 DEF ThreadFinish
<1>. QED
  BY <1>1, <1>2, <1>3, <1>4, <1>5, <1>6, <1>7 DEF Thread

\* Every step keeps it.
LEMMA LauncherInvStep == LauncherInv /\ [LauncherNext]_launcherVars => LauncherInv'
<1>1. CASE UNCHANGED launcherVars
  BY <1>1 DEF launcherVars, LauncherInv, LauncherTypeOK, FlagsAlive,
              NullMeansReaped, MainPhases, FlagsTell, Made, NotYet
<1>. QED
  BY <1>1, MainKeepsInv, ThreadKeepsInv DEF LauncherNext, LauncherEnds

\* main() and the threads agree about who is still running and what may still
\* be touched, whichever threads fail.
THEOREM LauncherInvariant == LauncherSpec => []LauncherInv
BY LauncherInvInit, LauncherInvStep, PTL DEF LauncherSpec

\* No thread outlives main(), and no handle is left.
THEOREM ThreadsAreJoined == LauncherSpec => []NoThreadOutlivesMain
<1>1. LauncherInv => NoThreadOutlivesMain
  BY DEF LauncherInv, LauncherTypeOK, MainPhases, NullMeansReaped, Made,
         NoThreadOutlivesMain
<1>. QED
  BY <1>1, LauncherInvariant, PTL

-----------------------------------------------------------------------------
(* Kitchen, for every number of dishes.                                    *)

\* The initial states satisfy the invariant.
LEMMA KitchenInvInit == KitchenInit => KitchenInv
BY DishesAssumption
   DEF KitchenInit, KitchenInv, KitchenTypeOK, PassIsGuarded, DishOfList,
       ServedInOrder, NoLostWakeup, Dishes

\* Sequences: serving the first dish moves the border between what was served
\* and the pass, cooking one adds it at the end.
LEMMA MoveBorder ==
    ASSUME NEW S, NEW s \in Seq(S), NEW p \in Seq(S), p # <<>>
    PROVE  Append(s, Head(p)) \o Tail(p) = s \o p
OBVIOUS

\* Cooking a dish adds it at the end.
LEMMA AddAtEnd ==
    ASSUME NEW S, NEW s \in Seq(S), NEW p \in Seq(S), NEW d \in S
    PROVE  s \o Append(p, d) = Append(s \o p, d)
OBVIOUS

\* The dishes up to the next one.
LEMMA CountTo ==
    ASSUME NEW n \in Nat
    PROVE  Append([k \in 1 .. n |-> k], n + 1) = [k \in 1 .. n + 1 |-> k]
OBVIOUS

\* chef()'s steps.
LEMMA ChefKeepsInv == KitchenInv /\ Chef => KitchenInv'
<1>. SUFFICES ASSUME KitchenInv, Chef PROVE KitchenInv'
  OBVIOUS
<1>. USE DishesAssumption
     DEF KitchenInv, KitchenTypeOK, PassIsGuarded, DishOfList, NoLostWakeup, Dishes
<1>1. CASE ChefLock
  BY <1>1 DEF ChefLock, ServedInOrder
<1>2. CASE ChefPush
  <2>1. dish \in Dishes /\ dish - 1 \in Nat
    BY <1>2 DEF ChefPush
  <2>2. pass' \in Seq(Dishes) /\ pass' # <<>>
    BY <1>2, <2>1 DEF ChefPush
  <2>3. served \o pass = [k \in 1 .. dish - 1 |-> k]
    BY <1>2 DEF ChefPush, ServedInOrder
  <2>4. served' \o pass' = Append(served \o pass, dish)
    BY <1>2, <2>1, AddAtEnd DEF ChefPush
  <2>5. Append([k \in 1 .. dish - 1 |-> k], dish) = [k \in 1 .. dish |-> k]
    BY <2>1, CountTo
  <2>6. ServedInOrder'
    BY <1>2, <2>1, <2>2, <2>3, <2>4, <2>5 DEF ChefPush, ServedInOrder
  <2>. QED
    BY <1>2, <2>1, <2>2, <2>6 DEF ChefPush
<1>3. CASE ChefUnlock
  BY <1>3 DEF ChefUnlock, ServedInOrder
<1>4. CASE ChefNotify
  BY <1>4 DEF ChefNotify, ServedInOrder
<1>5. CASE ChefSleep
  BY <1>5 DEF ChefSleep, ServedInOrder
<1>. QED
  BY <1>1, <1>2, <1>3, <1>4, <1>5 DEF Chef

\* waiter()'s steps, and a wakeup for no reason.
LEMMA WaiterKeepsInv == KitchenInv /\ (Waiter \/ SpuriousWakeup) => KitchenInv'
<1>. SUFFICES ASSUME KitchenInv, Waiter \/ SpuriousWakeup PROVE KitchenInv'
  OBVIOUS
<1>. USE DEF KitchenInv, KitchenTypeOK, PassIsGuarded, DishOfList, NoLostWakeup
<1>1. CASE WaiterLock
  BY <1>1 DEF WaiterLock, ServedInOrder
<1>2. CASE WaiterTest
  BY <1>2 DEF WaiterTest, ServedInOrder
<1>3. CASE SpuriousWakeup
  BY <1>3 DEF SpuriousWakeup, ServedInOrder
<1>4. CASE WaiterServe
  <2>1. pass # <<>>
    BY <1>4 DEF WaiterServe, ServedInOrder
  <2>2. served' \in Seq(Dishes) /\ pass' \in Seq(Dishes)
    BY <1>4, <2>1 DEF WaiterServe
  <2>3. served' \o pass' = served \o pass
    BY <1>4, <2>1, MoveBorder DEF WaiterServe
  <2>4. ServedInOrder'
    BY <1>4, <2>3 DEF WaiterServe, ServedInOrder
  <2>. QED
    BY <1>4, <2>2, <2>4 DEF WaiterServe
<1>5. CASE WaiterUnlock
  BY <1>5 DEF WaiterUnlock, ServedInOrder
<1>. QED
  BY <1>1, <1>2, <1>3, <1>4, <1>5 DEF Waiter

\* Every step keeps it.
LEMMA KitchenInvStep == KitchenInv /\ [KitchenNext]_kitchenVars => KitchenInv'
<1>. SUFFICES ASSUME KitchenInv, [KitchenNext]_kitchenVars PROVE KitchenInv'
  OBVIOUS
<1>1. CASE UNCHANGED kitchenVars
  BY <1>1 DEF kitchenVars, KitchenInv, KitchenTypeOK, PassIsGuarded, DishOfList,
              ServedInOrder, NoLostWakeup
<1>2. CASE KitchenNext
  BY <1>1, <1>2, ChefKeepsInv, WaiterKeepsInv DEF KitchenNext, KitchenEnds
<1>. QED
  BY <1>1, <1>2

\* The two threads exclude each other at the pass, nothing is served twice or
\* out of order, and no wakeup is lost (condition_variable.cpp:16-39).
THEOREM KitchenInvariant == KitchenSpec => []KitchenInv
BY KitchenInvInit, KitchenInvStep, PTL DEF KitchenSpec

\* While a dish is on the pass and the waiter sleeps, the chef is about to
\* notify it: a notification before the sleep is not needed after it.
THEOREM WakeupNotLost == KitchenSpec => []NoLostWakeup
<1>1. KitchenInv => NoLostWakeup
  BY DEF KitchenInv
<1>. QED
  BY <1>1, KitchenInvariant, PTL

-----------------------------------------------------------------------------
(* MutexCounter, for every number of threads and iterations.  The count is *)
(* tied to the iterations done as the cardinality of their set: an         *)
(* increment adds one element to it.                                       *)

Iters == Workers \X (1 .. Iterations)

\* The parameters are numbers.
LEMMA Constants == NumThreads \in Nat /\ Iterations \in Nat
BY CounterAssumption

\* There are NumThreads * Iterations iterations to do.
LEMMA ItersCount ==
    IsFiniteSet(Iters) /\ Cardinality(Iters) = NumThreads * Iterations
<1>1. IsFiniteSet(Workers) /\ Cardinality(Workers) = NumThreads
  BY Constants, FS_Interval DEF Workers
<1>2. IsFiniteSet(1 .. Iterations) /\ Cardinality(1 .. Iterations) = Iterations
  BY Constants, FS_Interval
<1>. QED
  BY <1>1, <1>2, FS_Product DEF Iters

\* Those that are done are some of them.
LEMMA DoneCount ==
    /\ IsFiniteSet(Done)
    /\ Cardinality(Done) \in 0 .. NumThreads * Iterations
<1>1. Done \in SUBSET Iters
  BY DEF Done, Iters
<1>2. IsFiniteSet(Done) /\ Cardinality(Done) <= Cardinality(Iters)
  BY <1>1, ItersCount, FS_Subset
<1>3. Cardinality(Done) \in Nat /\ NumThreads * Iterations \in Nat
  BY <1>2, Constants, FS_CardinalityType
<1>. QED
  BY <1>2, <1>3, ItersCount

\* With nothing left, all of them are.
LEMMA AllDone ==
    ASSUME \A t \in Workers : left[t] = 0
    PROVE  Cardinality(Done) = NumThreads * Iterations
<1>1. Done = Iters
  BY Constants DEF Done, Iters
<1>. QED
  BY <1>1, ItersCount

-----------------------------------------------------------------------------
\* The initial states satisfy the invariant.
LEMMA CounterInvInit == CounterInit => CounterInv
<1>. SUFFICES ASSUME CounterInit PROVE CounterInv
  OBVIOUS
<1>1. NumThreads * Iterations \in Nat
  BY Constants
<1>2. CounterTypeOK
  BY <1>1, Constants DEF CounterInit, CounterTypeOK
<1>3. Done = {}
  BY Constants DEF CounterInit, Done
<1>4. CountIsDone
  BY <1>3, FS_EmptySet DEF CounterInit, CountIsDone
<1>5. MutualExclusion /\ LoadedIsCount /\ CounterPhases
  BY Constants
     DEF CounterInit, MutualExclusion, LoadedIsCount, CounterPhases, Workers,
         MainThread, Nobody
<1>. QED
  BY <1>2, <1>4, <1>5 DEF CounterInv

\* ++count_ does one more iteration: nobody else has stored since the load.
LEMMA StoreKeepsInv ==
    ASSUME CounterInv, NEW t \in Workers, Store(t)
    PROVE  CounterInv'
<1>. USE DEF CounterInv, CounterTypeOK
<1>1. left[t] \in 1 .. Iterations /\ loaded[t] = count_ /\ mtx_ = t
  BY Constants DEF Store, LoadedIsCount, MutualExclusion
<1>2. left' = [left EXCEPT ![t] = @ - 1]
  BY DEF Store
<1>3. left'[t] = left[t] - 1 /\ \A u \in Workers \ {t} : left'[u] = left[u]
  BY <1>2
<1>. DEFINE n == Iterations - left[t] + 1
<1>4. n \in 1 .. Iterations
  BY <1>1, Constants
<1>5. <<t, n>> \notin Done
  BY <1>1, Constants DEF Done
<1>6. Done' = Done \cup {<<t, n>>}
  <2>1. \A d \in Iters : d \in Done' <=> d \in Done \/ d = <<t, n>>
    <3>1. SUFFICES ASSUME NEW u \in Workers, NEW k \in 1 .. Iterations
                   PROVE  <<u, k>> \in Done' <=> <<u, k>> \in Done \/ <<u, k>> = <<t, n>>
      BY DEF Iters
    <3>2. CASE u = t
      BY <1>1, <1>3, <3>2, Constants DEF Done
    <3>3. CASE u # t
      BY <1>3, <3>3 DEF Done
    <3>. QED
      BY <3>2, <3>3
  <2>. QED
    BY <1>4, <2>1 DEF Done, Iters
<1>7. Cardinality(Done') = Cardinality(Done) + 1
  BY <1>5, <1>6, DoneCount, FS_AddElement
<1>8. count_' = count_ + 1
  BY <1>1 DEF Store
<1>9. CountIsDone'
  BY <1>7, <1>8 DEF CountIsDone
<1>10. count_' \in 0 .. NumThreads * Iterations
  <2>1. Done' \in SUBSET Iters
    BY DEF Done, Iters
  <2>2. Cardinality(Done') <= NumThreads * Iterations
    BY <2>1, ItersCount, FS_Subset
  <2>3. Cardinality(Done) \in Nat /\ NumThreads * Iterations \in Nat
    BY DoneCount, Constants
  <2>. QED
    BY <1>7, <1>9, <2>2, <2>3 DEF CountIsDone
<1>11. CounterTypeOK'
  BY <1>1, <1>2, <1>10, Constants DEF Store
<1>12. MutualExclusion' /\ CounterPhases'
  BY <1>1, <1>3, Constants DEF Store, MutualExclusion, CounterPhases, Workers,
                               MainThread, Nobody
<1>13. LoadedIsCount'
  BY <1>1, <1>3 DEF Store, MutualExclusion, LoadedIsCount
<1>. QED
  BY <1>9, <1>11, <1>12, <1>13

\* Every step keeps it.
LEMMA CounterInvStep == CounterInv /\ [CounterNext]_counterVars => CounterInv'
<1>. SUFFICES ASSUME CounterInv, [CounterNext]_counterVars PROVE CounterInv'
  OBVIOUS
<1>. USE Constants DEF CounterInv
<1>a. ASSUME UNCHANGED <<count_, left>> PROVE CountIsDone'
  BY <1>a DEF CountIsDone, Done
<1>1. ASSUME NEW t \in Workers, Lock(t) PROVE CounterInv'
  BY <1>1, <1>a DEF Lock, CounterTypeOK, MutualExclusion, LoadedIsCount,
                    CounterPhases,
                    Workers, MainThread, Nobody
<1>2. ASSUME NEW t \in Workers, Load(t) PROVE CounterInv'
  BY <1>2, <1>a DEF Load, CounterTypeOK, MutualExclusion, LoadedIsCount,
                    CounterPhases,
                    Workers, MainThread, Nobody
<1>3. ASSUME NEW t \in Workers, Store(t) PROVE CounterInv'
  BY <1>3, StoreKeepsInv
<1>4. ASSUME NEW t \in Workers, Unlock(t) PROVE CounterInv'
  BY <1>4, <1>a DEF Unlock, CounterTypeOK, MutualExclusion, LoadedIsCount,
                    CounterPhases,
                    Workers, MainThread, Nobody
<1>5. CASE Start
  BY <1>5, <1>a DEF Start, CounterTypeOK, MutualExclusion, LoadedIsCount,
                    CounterPhases,
                    Workers, MainThread, Nobody
<1>6. CASE Join
  BY <1>6, <1>a DEF Join, CounterTypeOK, MutualExclusion, LoadedIsCount,
                    CounterPhases,
                    Workers, MainThread, Nobody
<1>7. CASE GetLock
  BY <1>7, <1>a DEF GetLock, CounterTypeOK, MutualExclusion, LoadedIsCount,
                    CounterPhases,
                    Workers, MainThread, Nobody
<1>8. CASE GetLoad
  BY <1>8, <1>a DEF GetLoad, CounterTypeOK, MutualExclusion, LoadedIsCount,
                    CounterPhases,
                    Workers, MainThread, Nobody
<1>9. CASE GetUnlock
  BY <1>9, <1>a DEF GetUnlock, CounterTypeOK, MutualExclusion, LoadedIsCount,
                    CounterPhases,
                    Workers, MainThread, Nobody
<1>10. CASE UNCHANGED counterVars
  BY <1>10, <1>a DEF counterVars, CounterTypeOK, MutualExclusion, LoadedIsCount,
                     CounterPhases
<1>. QED
  BY <1>1, <1>2, <1>3, <1>4, <1>5, <1>6, <1>7, <1>8, <1>9, <1>10
     DEF CounterNext, MainNext, Worker, CounterEnds

\* No two threads are between lock and unlock together, and count_ is the
\* number of iterations done, whatever the interleaving.
THEOREM CounterInvariant == CounterSpec => []CounterInv
BY CounterInvInit, CounterInvStep, PTL DEF CounterSpec

\* main() prints the sum of all increments.
THEOREM CountIsExact == CounterSpec => []ExactCount
<1>1. CounterInv => ExactCount
  <2>1. SUFFICES ASSUME CounterInv, printed # -1 PROVE printed = NumThreads * Iterations
    BY DEF ExactCount, A!ReportsAll
  <2>2. joined = NumThreads /\ printed = count_
    BY <2>1 DEF CounterInv, CounterTypeOK, CounterPhases
  <2>3. \A t \in Workers : left[t] = 0
    BY <2>1, <2>2 DEF CounterInv, CounterPhases, Workers
  <2>. QED
    BY <2>1, <2>2, <2>3, AllDone DEF CounterInv, CountIsDone
<1>. QED
  BY <1>1, CounterInvariant, PTL

-----------------------------------------------------------------------------
(* The refinement. *)

\* The refinement maps the initial states ...
LEMMA AtomicInit == CounterInit => A!Init
BY DEF CounterInit, A!Init, Workers, A!Workers

\* ... and every step to a step of the atomic counter or none.
LEMMA AtomicStep ==
    ASSUME CounterInv, [CounterNext]_counterVars
    PROVE  [A!Next]_(A!vars)
<1>. USE DEF A!vars
<1>1. ASSUME NEW t \in Workers, Store(t) PROVE [A!Next]_(A!vars)
  <2>1. t <= started /\ left[t] > 0 /\ loaded[t] = count_
    BY <1>1 DEF Store, CounterInv, LoadedIsCount
  <2>2. A!Increment(t)
    BY <1>1, <2>1 DEF Store, A!Increment
  <2>. QED
    BY <2>2 DEF A!Next, Workers, A!Workers
<1>2. ASSUME NEW t \in Workers, Lock(t) \/ Load(t) \/ Unlock(t) PROVE [A!Next]_(A!vars)
  BY <1>2 DEF Lock, Load, Unlock
<1>3. CASE Start
  BY <1>3 DEF Start, A!Next, A!Start
<1>4. CASE Join
  BY <1>4 DEF Join, A!Next, A!Join
<1>5. CASE GetLoad
  <2>1. joined = NumThreads /\ started = NumThreads /\ printed = -1
    BY <1>5 DEF GetLoad, CounterInv, CounterPhases
  <2>. QED
    BY <1>5, <2>1 DEF GetLoad, A!Next, A!Report
<1>6. CASE GetLock \/ GetUnlock
  BY <1>6 DEF GetLock, GetUnlock
<1>7. CASE UNCHANGED counterVars
  BY <1>7 DEF counterVars
<1>. QED
  BY <1>1, <1>2, <1>3, <1>4, <1>5, <1>6, <1>7 DEF CounterNext, MainNext, Worker,
                                                  CounterEnds

\* The mutex makes ++count_ one step again: every step of ThreadSafeCounter is
\* one of the atomic counter or none.
THEOREM MutexImplementsAtomic == CounterSpec => AtomicSteps
BY CounterInvInit, CounterInvStep, AtomicInit, AtomicStep, PTL DEF CounterSpec, AtomicSteps

-----------------------------------------------------------------------------
(* MemPool, for every pool size and every set of objects.                  *)

\* There are finitely many slots, NumElems of them.
LEMMA SlotsFinite == IsFiniteSet(Slots) /\ Cardinality(Slots) = NumElems
<1>1. NumElems \in Nat /\ NumElems > 0
  BY NumElemsAssumption
<1>. QED
  BY <1>1, FS_Interval DEF Slots

\* Every slot is reached from every other one.
LEMMA StepReaches ==
    ASSUME NEW i \in Slots, NEW s \in Slots
    PROVE  \E d \in 0 .. NumElems - 1 : Step(i, d) = s
<1>1. NumElems \in Nat /\ NumElems > 0
  BY NumElemsAssumption
<1>2. CASE s >= i
  <2>1. s - i \in 0 .. NumElems - 1 /\ Step(i, s - i) = s
    BY <1>1, <1>2 DEF Slots, Step
  <2>. QED
    BY <2>1
<1>3. CASE s < i
  <2>1. NumElems + s - i \in 0 .. NumElems - 1 /\ Step(i, NumElems + s - i) = s
    BY <1>1, <1>3 DEF Slots, Step
  <2>. QED
    BY <2>1
<1>. QED
  BY <1>1, <1>2, <1>3 DEF Slots

\* A nonempty set of numbers has a least element.
LEMMA LeastElement ==
    ASSUME NEW T \in SUBSET Nat, T # {}
    PROVE  \E d \in T : \A e \in T : ~(e < d)
<1>1. PICK d \in T : \A e \in T : ~(<<e, d>> \in OpToRel(<, Nat))
  BY WFMin, NatLessThanWellFounded
<1>. QED
  BY <1>1 DEF OpToRel

\* The scan of updateNextFreeIndex() ends at a free slot when there is one.
LEMMA ScanFindsFree ==
    ASSUME NEW store, NEW from \in Slots,
           \E s \in Slots : store[s].is_free_
    PROVE  /\ NextFree(store, from) \in Slots
           /\ store[NextFree(store, from)].is_free_
<1>1. NumElems \in Nat /\ NumElems > 0
  BY NumElemsAssumption
<1>. DEFINE T == {d \in 0 .. NumElems - 1 : store[Step(from, d)].is_free_}
<1>2. T # {}
  BY StepReaches
<1>3. PICK d \in T : \A e \in T : ~(e < d)
  <2>1. T \in SUBSET Nat
    BY <1>1
  <2>. HIDE DEF T
  <2>. QED
    BY <1>2, <2>1, LeastElement
<1>4. d \in 0 .. NumElems - 1 /\ ScanEnds(store, from, d)
  BY <1>1, <1>3 DEF ScanEnds
<1>5. PICK c \in 0 .. NumElems - 1 :
          ScanEnds(store, from, c) /\ NextFree(store, from) = Step(from, c)
  BY <1>4 DEF NextFree
<1>6. Step(from, c) \in Slots
  BY <1>1, <1>5 DEF Step, Slots
<1>. QED
  BY <1>5, <1>6 DEF ScanEnds

-----------------------------------------------------------------------------
\* The free slots are among finitely many.
LEMMA FreeFinite ==
    /\ IsFiniteSet(FreeSlots)
    /\ Cardinality(FreeSlots) \in 0 .. NumElems
<1>1. FreeSlots \subseteq Slots
  BY DEF FreeSlots
<1>2. NumElems \in Nat
  BY NumElemsAssumption
<1>. QED
  BY <1>1, <1>2, SlotsFinite, FS_Subset, FS_CardinalityType

\* The invariant holds at the start.
LEMMA PoolInvInit == PoolInit => PoolInv
<1>. SUFFICES ASSUME PoolInit PROVE PoolInv
  OBVIOUS
<1>1. NumElems \in Nat /\ NumElems > 0
  BY NumElemsAssumption
<1>2. FreeSlots = Slots
  BY DEF PoolInit, FreeSlots
<1>3. PoolTypeOK
  <2>1. [object_ |-> Default, is_free_ |-> TRUE] \in ObjectBlock
    BY DEF ObjectBlock
  <2>2. store_ \in [Slots -> ObjectBlock]
    BY <2>1 DEF PoolInit
  <2>3. next_free_index_ \in Slots /\ num_free_ \in 0 .. NumElems
    BY <1>1 DEF PoolInit, Slots
  <2>4. aborted \in BOOLEAN /\ ret \in Slots \cup {noBlock}
    BY DEF PoolInit
  <2>. QED
    BY <2>2, <2>3, <2>4 DEF PoolTypeOK
<1>. QED
  BY <1>1, <1>2, <1>3, SlotsFinite DEF PoolInv, CountsFree, IndexIsFree, PoolInit, Slots

\* An allocation takes the slot at next_free_index_ and finds another free one
\* if there is any.
LEMMA AllocateKeepsInv ==
    ASSUME PoolInv, NEW o \in Object, Allocate(o), num_free_ > 0
    PROVE  /\ PoolInv'
           /\ next_free_index_ \in FreeSlots
           /\ FreeSlots' = FreeSlots \ {next_free_index_}
           /\ store_' = [store_ EXCEPT ![next_free_index_] =
                             [object_ |-> o, is_free_ |-> FALSE]]
           /\ ret' = next_free_index_
           /\ UNCHANGED aborted
<1>1. NumElems \in Nat /\ NumElems > 0 /\ num_free_ \in 0 .. NumElems
  BY NumElemsAssumption DEF PoolInv, PoolTypeOK
<1>2. next_free_index_ \in FreeSlots /\ next_free_index_ \in Slots
  BY DEF PoolInv, IndexIsFree, PoolTypeOK
<1>3. /\ store_' = [store_ EXCEPT ![next_free_index_] =
                        [object_ |-> o, is_free_ |-> FALSE]]
      /\ num_free_' = num_free_ - 1
      /\ ret' = next_free_index_
      /\ UpdateNextFreeIndex
  BY <1>2 DEF Allocate, FreeSlots
<1>4. store_' \in [Slots -> ObjectBlock]
  BY <1>2, <1>3 DEF PoolInv, PoolTypeOK, ObjectBlock
<1>5. FreeSlots' = FreeSlots \ {next_free_index_}
  BY <1>2, <1>3 DEF FreeSlots, PoolInv, PoolTypeOK, ObjectBlock
<1>6. CountsFree'
  BY <1>1, <1>2, <1>3, <1>5, FreeFinite, FS_RemoveElement DEF PoolInv, CountsFree
<1>7. CASE num_free_' = 0
  BY <1>1, <1>2, <1>3, <1>4, <1>5, <1>6, <1>7
     DEF PoolInv, PoolTypeOK, IndexIsFree, UpdateNextFreeIndex
<1>8. CASE num_free_' # 0
  <2>1. FreeSlots' # {}
    BY <1>6, <1>8, FS_EmptySet DEF CountsFree
  <2>2. \E s \in Slots : store_'[s].is_free_
    BY <2>1 DEF FreeSlots
  <2>3. next_free_index_' = NextFree(store_', next_free_index_) /\ UNCHANGED aborted
    BY <1>3, <1>8, <2>2 DEF UpdateNextFreeIndex
  <2>4. next_free_index_' \in Slots /\ next_free_index_' \in FreeSlots'
    BY <1>2, <2>2, <2>3, ScanFindsFree DEF FreeSlots
  <2>. QED
    BY <1>1, <1>2, <1>3, <1>4, <1>5, <1>6, <2>3, <2>4 DEF PoolInv, PoolTypeOK, IndexIsFree
<1>. QED
  BY <1>7, <1>8

\* A deallocation frees its slot and no other.
LEMMA DeallocateKeepsInv ==
    ASSUME PoolInv, NEW p \in Slots, Deallocate(p), p \notin FreeSlots
    PROVE  /\ PoolInv'
           /\ FreeSlots' = FreeSlots \cup {p}
           /\ store_' = [store_ EXCEPT ![p].is_free_ = TRUE]
           /\ UNCHANGED <<ret, aborted>>
<1>1. NumElems \in Nat /\ NumElems > 0 /\ num_free_ \in 0 .. NumElems
  BY NumElemsAssumption DEF PoolInv, PoolTypeOK
<1>2. /\ store_' = [store_ EXCEPT ![p].is_free_ = TRUE]
      /\ num_free_' = num_free_ + 1
      /\ next_free_index_' = IF num_free_' = 1 THEN p ELSE next_free_index_
      /\ UNCHANGED <<ret, aborted>>
  BY DEF Deallocate, FreeSlots
<1>3. store_' \in [Slots -> ObjectBlock]
  BY <1>2 DEF PoolInv, PoolTypeOK, ObjectBlock
<1>4. FreeSlots' = FreeSlots \cup {p}
  BY <1>2 DEF FreeSlots, PoolInv, PoolTypeOK, ObjectBlock
<1>5. CountsFree'
  BY <1>1, <1>2, <1>4, FreeFinite, FS_AddElement DEF PoolInv, CountsFree
<1>6. num_free_' \in 0 .. NumElems
  <2>1. FreeSlots' \subseteq Slots
    BY <1>4 DEF FreeSlots
  <2>2. Cardinality(FreeSlots') \in 0 .. NumElems
    BY <1>1, <2>1, SlotsFinite, FS_Subset, FS_CardinalityType
  <2>. QED
    BY <1>5, <2>2 DEF CountsFree
<1>7. IndexIsFree' /\ next_free_index_' \in Slots
  BY <1>1, <1>2, <1>4 DEF PoolInv, PoolTypeOK, IndexIsFree
<1>. QED
  BY <1>2, <1>3, <1>4, <1>5, <1>6, <1>7 DEF PoolInv, PoolTypeOK

\* Every step keeps the invariant.
LEMMA PoolInvStep == PoolInv /\ [PoolNext]_poolVars => PoolInv'
<1>. SUFFICES ASSUME PoolInv, [PoolNext]_poolVars PROVE PoolInv'
  OBVIOUS
<1>1. CASE UNCHANGED <<store_, next_free_index_, num_free_, ret>> /\ aborted' \in BOOLEAN
  BY <1>1 DEF PoolInv, PoolTypeOK, CountsFree, IndexIsFree, FreeSlots
<1>2. ASSUME NEW o \in Object, Allocate(o) PROVE PoolInv'
  <2>1. CASE num_free_ > 0
    BY <1>2, <2>1, AllocateKeepsInv
  <2>2. CASE ~(num_free_ > 0)
    BY <1>1, <1>2, <2>2 DEF Allocate, Abort
  <2>. QED
    BY <2>1, <2>2
<1>3. ASSUME NEW p \in Pointers, Deallocate(p) PROVE PoolInv'
  <2>1. CASE p \in Slots /\ p \notin FreeSlots
    BY <1>3, <2>1, DeallocateKeepsInv
  <2>2. CASE ~(p \in Slots /\ p \notin FreeSlots)
    BY <1>1, <1>3, <2>2 DEF Deallocate, Abort, FreeSlots
  <2>. QED
    BY <2>1, <2>2
<1>4. CASE UNCHANGED poolVars
  BY <1>1, <1>4 DEF poolVars, PoolInv, PoolTypeOK
<1>. QED
  BY <1>2, <1>3, <1>4 DEF PoolNext, PoolEnds

\* The counter and the index are right after every sequence of calls, so no
\* allocation from a pool with room aborts.
THEOREM PoolInvariant == PoolSpec => []PoolInv
BY PoolInvInit, PoolInvStep, PTL DEF PoolSpec

-----------------------------------------------------------------------------
(* The pool implements what its users expect of it.                        *)

\* The refinement maps the initial states ...
LEMMA RefineInit == PoolInit => P!Init
BY DEF PoolInit, P!Init, FreeSlots

\* ... an allocation ...
LEMMA RefineAllocate ==
    ASSUME PoolInv, NEW o \in Object, Allocate(o)
    PROVE  P!Allocate(o)
<1>1. CASE num_free_ > 0
  <2>1. /\ next_free_index_ \in FreeSlots
        /\ FreeSlots' = FreeSlots \ {next_free_index_}
        /\ store_' = [store_ EXCEPT ![next_free_index_] =
                          [object_ |-> o, is_free_ |-> FALSE]]
        /\ ret' = next_free_index_
        /\ UNCHANGED aborted
    BY <1>1, AllocateKeepsInv
  <2>2. Slots \ FreeSlots # Slots /\ next_free_index_ \in Slots \ (Slots \ FreeSlots)
    BY <2>1 DEF FreeSlots
  <2>3. Slots \ FreeSlots' = (Slots \ FreeSlots) \cup {next_free_index_}
    BY <2>1, <2>2
  <2>4. [s \in Slots \ FreeSlots |-> store_[s].object_]'
          = [t \in (Slots \ FreeSlots) \cup {next_free_index_} |->
                IF t = next_free_index_ THEN o ELSE store_[t].object_]
    BY <2>1, <2>2, <2>3 DEF PoolInv, PoolTypeOK
  <2>. QED
    BY <2>1, <2>2, <2>4 DEF Allocate, P!Allocate
<1>2. CASE ~(num_free_ > 0)
  <2>1. FreeSlots = {}
    BY <1>2, FreeFinite, FS_EmptySet DEF PoolInv, PoolTypeOK, CountsFree
  <2>2. UNCHANGED <<store_, ret>> /\ aborted' = TRUE /\ ~aborted
    BY <1>2 DEF Allocate, Abort
  <2>. QED
    BY <2>1, <2>2 DEF Allocate, P!Allocate, FreeSlots
<1>. QED
  BY <1>1, <1>2

\* ... and a deallocation to those of the pool's specification.
LEMMA RefineDeallocate ==
    ASSUME PoolInv, NEW p \in Pointers, Deallocate(p)
    PROVE  P!Deallocate(p)
<1>1. CASE p \in Slots /\ p \notin FreeSlots
  <2>1. /\ FreeSlots' = FreeSlots \cup {p}
        /\ store_' = [store_ EXCEPT ![p].is_free_ = TRUE]
        /\ UNCHANGED <<ret, aborted>>
    BY <1>1, DeallocateKeepsInv
  <2>2. [s \in Slots \ FreeSlots |-> store_[s].object_]'
          = [t \in (Slots \ FreeSlots) \ {p} |-> store_[t].object_]
    <3>1. Slots \ FreeSlots' = (Slots \ FreeSlots) \ {p}
      BY <2>1
    <3>2. \A t \in (Slots \ FreeSlots) \ {p} : store_'[t].object_ = store_[t].object_
      BY <2>1 DEF PoolInv, PoolTypeOK
    <3>. QED
      BY <3>1, <3>2
  <2>. QED
    BY <1>1, <2>1, <2>2 DEF Deallocate, P!Deallocate
<1>2. CASE ~(p \in Slots /\ p \notin FreeSlots)
  <2>1. UNCHANGED <<store_, ret>> /\ aborted' = TRUE /\ ~aborted
    BY <1>2 DEF Deallocate, Abort, FreeSlots
  <2>. QED
    BY <1>2, <2>1 DEF Deallocate, P!Deallocate, FreeSlots
<1>. QED
  BY <1>1, <1>2

\* No slot is handed out twice, no held object is disturbed, and the ASSERTs
\* fail exactly on the calls that break the pool's rules.
THEOREM MemPoolImplementsPool == PoolSpec => ImplementsPool
<1>1. PoolInv /\ [PoolNext]_poolVars => [P!Next]_(P!vars)
  <2>. SUFFICES ASSUME PoolInv, [PoolNext]_poolVars PROVE [P!Next]_(P!vars)
    OBVIOUS
  <2>1. CASE UNCHANGED poolVars
    BY <2>1 DEF poolVars, P!vars, FreeSlots
  <2>2. ASSUME NEW o \in Object, Allocate(o) PROVE P!Next
    BY <2>2, RefineAllocate DEF P!Next
  <2>3. ASSUME NEW p \in Pointers, Deallocate(p) PROVE P!Next
    BY <2>3, RefineDeallocate DEF P!Next
  <2>. QED
    BY <2>1, <2>2, <2>3 DEF PoolNext, PoolEnds
<1>. QED
  BY <1>1, RefineInit, PoolInvInit, PoolInvStep, PTL DEF PoolSpec, P!Spec, ImplementsPool

=============================================================================
