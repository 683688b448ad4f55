------------------------------ MODULE Threads ------------------------------
(***************************************************************************)
(* The threaded programs that end by themselves, one of them per           *)
(* behaviour: lfqueue.cpp, multithread.cpp, condition_variable.cpp or      *)
(* mutex.cpp.  They share nothing, so the variables of the others keep     *)
(* their initial values, where what is said of them holds at once.         *)
(***************************************************************************)
EXTENDS MarketData, MCThreadStart, Kitchen, MutexCounter

VARIABLE program  \* the one that runs

threadsVars == <<program, vars, launcherVars, kitchenVars, counterVars>>

(* What a step of one program leaves alone.                                *)
outsideMarket == <<program, launcherVars, kitchenVars, counterVars>>
outsideLauncher == <<program, vars, kitchenVars, counterVars>>
outsideKitchen == <<program, vars, launcherVars, counterVars>>
outsideCounter == <<program, vars, launcherVars, kitchenVars>>

-----------------------------------------------------------------------------
ThreadsInit ==
    /\ program \in {"lfqueue", "multithread", "condition_variable", "mutex"}
    /\ Init /\ LauncherInit /\ KitchenInit /\ CounterInit

InMarket(step) == program = "lfqueue" /\ step /\ UNCHANGED outsideMarket
InLauncher(step) == program = "multithread" /\ step /\ UNCHANGED outsideLauncher
InKitchen(step) == program = "condition_variable" /\ step /\ UNCHANGED outsideKitchen
InCounter(step) == program = "mutex" /\ step /\ UNCHANGED outsideCounter

ThreadsNext == InMarket(Next) \/ InLauncher(LauncherNext)
                   \/ InKitchen(KitchenNext) \/ InCounter(CounterNext)

(* Each program's own fairness: that of FairSpec, LauncherSpec,            *)
(* KitchenSpec and CounterSpec.                                            *)
ThreadsFairness ==
    /\ WF_threadsVars(InMarket(ProducerNext)) /\ WF_threadsVars(InMarket(ConsumerNext))
    /\ WF_threadsVars(InLauncher(Main))
    /\ \A k \in Calls : WF_threadsVars(InLauncher(Thread(k)))
    /\ WF_threadsVars(InKitchen(Chef)) /\ SF_threadsVars(InKitchen(ChefLock))
    /\ WF_threadsVars(InKitchen(Waiter))
    /\ WF_threadsVars(InCounter(MainNext))
    /\ \A t \in Workers : WF_threadsVars(InCounter(Worker(t)))

ThreadsSpec == ThreadsInit /\ [][ThreadsNext]_threadsVars /\ ThreadsFairness

-----------------------------------------------------------------------------
(* The liveness properties of the programs, each of the one that runs.     *)

\* lfqueue.cpp: both threads come to their end, with no abort.
BothReturnIfRun == program = "lfqueue" => BothReturn

\* multithread.cpp: main() comes to its end, whichever threads fail.
MainEndsIfRun == program = "multithread" => MainEnds

\* condition_variable.cpp: every dish is served, without a spurious wakeup.
EveryDishServedIfRun == program = "condition_variable" => EveryDishServed

\* mutex.cpp: ++count_ under the mutex is as good as atomic.cpp's ++counter.
ImplementsAtomic == AtomicSteps /\ (program = "mutex" => AtomicProgress)

=============================================================================
