---------------------------- MODULE ThreadStart ----------------------------
(***************************************************************************)
(* createAndStartThread() of multithread.cpp and the main() that calls it: *)
(* main starts the threads one after the other, waits in each call until   *)
(* the new thread has said that it runs or failed, and joins at the end.   *)
(*                                                                         *)
(* The new thread's body refers to the caller's name, core_id, func and    *)
(* args, and to the two flags, by reference.  They live until the full     *)
(* expression of the call ends in main().                                  *)
(***************************************************************************)
EXTENDS Integers, FiniteSets

CONSTANTS
    NumCalls,  \* how many threads main() starts
    Pinned,    \* the calls with core_id >= 0
    Uses       \* Uses[k]: how often call k's func reads one of its arguments

Calls == 1 .. NumCalls

ASSUME CallsAssumption ==
    /\ NumCalls \in Nat \ {0}
    /\ Pinned \subseteq Calls
    /\ Uses \in [Calls -> Nat]

VARIABLES
    mpc,      \* where main() is
    current,  \* the call it is in
    alive,    \* alive[k]: the flags, the parameters and main's temporaries exist
    running, failed,
    tpc,      \* where thread k is
    uses,     \* argument reads func has left to do
    handle    \* handle[k]: what main() holds

launcherVars == <<mpc, current, alive, running, failed, tpc, uses, handle>>

LauncherTypeOK ==
    /\ mpc \in {"start", "spin", "reap", "join", "done"}
    /\ current \in Calls
    /\ alive \in [Calls -> BOOLEAN]
    /\ running \in [Calls -> BOOLEAN]
    /\ failed \in [Calls -> BOOLEAN]
    /\ tpc \in [Calls -> {"none", "pin", "fail", "leave", "run", "func",
                       "finish", "exit"}]
    /\ uses \in [Calls -> Nat]
    /\ handle \in [Calls -> {"none", "thread", "nullptr", "deleted"}]

LauncherInit ==
    /\ mpc = "start"
    /\ current = 1
    /\ alive = [k \in Calls |-> FALSE]
    /\ running = [k \in Calls |-> FALSE]
    /\ failed = [k \in Calls |-> FALSE]
    /\ tpc = [k \in Calls |-> "none"]
    /\ uses = Uses
    /\ handle = [k \in Calls |-> "none"]

-----------------------------------------------------------------------------
\* The end of call k's full expression in main(): the next call, or the joins.
Returns(k, t) ==
    /\ handle' = [handle EXCEPT ![k] = t]
    /\ alive' = [alive EXCEPT ![k] = FALSE]
    /\ IF k = NumCalls THEN mpc' = "join" /\ UNCHANGED current
                       ELSE mpc' = "start" /\ current' = k + 1

(* Mutated forms of the actions below. *)

MutSpinNot(k) ==
    /\ mpc = "spin" /\ k = current
    /\ Returns(k, "thread")
    /\ UNCHANGED <<running, failed, tpc, uses>>

MutThreadFailSilent(k) ==
    /\ tpc[k] = "fail"
    /\ tpc' = [tpc EXCEPT ![k] = "exit"]
    /\ UNCHANGED <<mpc, current, alive, running, failed, uses, handle>>

MutJoinNoWait(k) ==
    /\ mpc = "join"
    /\ handle[k] = "thread"
    /\ \A j \in 1 .. k - 1 : handle[j] # "thread"
    /\ handle' = [handle EXCEPT ![k] = "deleted"]
    /\ UNCHANGED <<mpc, current, alive, running, failed, tpc, uses>>

-----------------------------------------------------------------------------
(* main() and the part of createAndStartThread() it executes. *)

\* The flags are built and the thread is launched.
StartThread(k) ==
    /\ mpc = "start" /\ k = current
    /\ mpc' = "spin"
    /\ alive' = [alive EXCEPT ![k] = TRUE]
    /\ tpc' = [tpc EXCEPT ![k] = "pin"]
    /\ UNCHANGED <<current, running, failed, uses, handle>>

\* while (!running && !failed): another 100 ms of sleep, ...
SpinSleeps(k) ==
    /\ mpc = "spin" /\ k = current
    /\ ~running[k] /\ ~failed[k]
    /\ UNCHANGED launcherVars

\* ... or the loop ends and the handle is returned, ...
SpinEnds(k) ==
    /\ mpc = "spin" /\ k = current
    /\ running[k] /\ ~failed[k]
    /\ Returns(k, "thread")
    /\ UNCHANGED <<running, failed, tpc, uses>>

\* ... or the thread failed and has to be cleaned up ...
SpinFails(k) ==
    /\ mpc = "spin" /\ k = current
    /\ failed[k]
    /\ mpc' = "reap"
    /\ UNCHANGED <<current, alive, running, failed, tpc, uses, handle>>

\* ... which joins and deletes it before nullptr is returned.
Reap(k) ==
    /\ mpc = "reap" /\ k = current
    /\ tpc[k] = "exit"
    /\ Returns(k, "nullptr")
    /\ UNCHANGED <<running, failed, tpc, uses>>

\* if (t) { t->join(); delete t; }, in the order of the calls.
JoinThread(k) ==
    /\ mpc = "join"
    /\ handle[k] = "thread" /\ tpc[k] = "exit"
    /\ \A j \in 1 .. k - 1 : handle[j] # "thread"
    /\ handle' = [handle EXCEPT ![k] = "deleted"]
    /\ UNCHANGED <<mpc, current, alive, running, failed, tpc, uses>>

MainReturns ==
    /\ mpc = "join"
    /\ \A k \in Calls : handle[k] # "thread"
    /\ mpc' = "done"
    /\ UNCHANGED <<current, alive, running, failed, tpc, uses, handle>>

-----------------------------------------------------------------------------
(* thread_body. *)

\* setThreadCore(): the OS may refuse any core; core_id < 0 asks for none.
ThreadPin(k) ==
    /\ tpc[k] = "pin"
    /\ \/ tpc' = [tpc EXCEPT ![k] = "run"]
       \/ k \in Pinned /\ tpc' = [tpc EXCEPT ![k] = "fail"]
    /\ UNCHANGED <<mpc, current, alive, running, failed, uses, handle>>

\* failed = true ...
ThreadFail(k) ==
    /\ tpc[k] = "fail"
    /\ failed' = [failed EXCEPT ![k] = TRUE]
    /\ tpc' = [tpc EXCEPT ![k] = "leave"]
    /\ UNCHANGED <<mpc, current, alive, running, uses, handle>>

\* ... and return: main() may have seen the flag before the thread is gone.
ThreadLeave(k) ==
    /\ tpc[k] = "leave"
    /\ tpc' = [tpc EXCEPT ![k] = "exit"]
    /\ UNCHANGED <<mpc, current, alive, running, failed, uses, handle>>

\* running = true
ThreadRun(k) ==
    /\ tpc[k] = "run"
    /\ running' = [running EXCEPT ![k] = TRUE]
    /\ tpc' = [tpc EXCEPT ![k] = "func"]
    /\ UNCHANGED <<mpc, current, alive, failed, uses, handle>>

\* func(args...) reads an argument once more ...
ThreadFunc(k) ==
    /\ tpc[k] = "func" /\ uses[k] > 0
    /\ uses' = [uses EXCEPT ![k] = @ - 1]
    /\ UNCHANGED <<mpc, current, alive, running, failed, tpc, handle>>

\* ... or returns; "Finished" is printed with the name.
ThreadReturns(k) ==
    /\ tpc[k] = "func" /\ uses[k] = 0
    /\ tpc' = [tpc EXCEPT ![k] = "finish"]
    /\ UNCHANGED <<mpc, current, alive, running, failed, uses, handle>>

ThreadFinish(k) ==
    /\ tpc[k] = "finish"
    /\ tpc' = [tpc EXCEPT ![k] = "exit"]
    /\ UNCHANGED <<mpc, current, alive, running, failed, uses, handle>>

-----------------------------------------------------------------------------
Main == \/ \E k \in Calls : \/ StartThread(k)
                            \/ SpinSleeps(k) \/ SpinEnds(k) \/ SpinFails(k)
                            \/ Reap(k) \/ JoinThread(k)
        \/ MainReturns

Thread(k) == \/ ThreadPin(k) \/ ThreadFail(k) \/ ThreadLeave(k) \/ ThreadRun(k)
             \/ ThreadFunc(k) \/ ThreadReturns(k) \/ ThreadFinish(k)

LauncherEnds == mpc = "done" /\ UNCHANGED launcherVars

LauncherNext == Main \/ (\E k \in Calls : Thread(k)) \/ LauncherEnds

\* Every thread is an OS thread of its own.
LauncherSpec ==
    /\ LauncherInit /\ [][LauncherNext]_launcherVars
    /\ WF_launcherVars(Main)
    /\ \A k \in Calls : WF_launcherVars(Thread(k))

-----------------------------------------------------------------------------
\* Until a thread has answered through its flags, what it touches exists: the
\* core, the name and the flags themselves (multithread.cpp:38-44, 55).
FlagsAlive ==
    \A k \in Calls : tpc[k] \in {"pin", "fail", "run"} => alive[k]

\* A null handle means that the thread failed and is gone: nothing is left to
\* join or to leak (multithread.cpp:28, 113).
NullMeansReaped ==
    \A k \in Calls : handle[k] = "nullptr" => failed[k] /\ tpc[k] = "exit"

\* The calls main() has made, and those it has not come to.
Made(k) == k < current \/ mpc \in {"join", "done"}
NotYet(k) == k > current \/ (k = current /\ mpc = "start")

\* How far main() is with each call: inside it the flags live and nothing has
\* been returned, after it the handle says how it went.
MainPhases ==
    /\ mpc \in {"join", "done"} => current = NumCalls
    /\ mpc = "reap" => failed[current]
    /\ mpc = "done" => \A k \in Calls : handle[k] # "thread"
    /\ \A k \in Calls :
        /\ NotYet(k) <=> tpc[k] = "none"
        /\ Made(k) <=> handle[k] # "none"
        /\ alive[k] <=> k = current /\ mpc \in {"spin", "reap"}
        /\ handle[k] = "deleted" => mpc \in {"join", "done"} /\ tpc[k] = "exit"

\* The flags tell how far the thread is, and it raises exactly one of them.
FlagsTell ==
    \A k \in Calls :
        /\ running[k] <=> tpc[k] \in {"func", "finish", "exit"} /\ ~failed[k]
        /\ tpc[k] = "leave" => failed[k]
        /\ failed[k] => tpc[k] \in {"leave", "exit"}

\* main() and the threads agree about who is still running and what may still
\* be touched, whichever threads fail (multithread.cpp:30-72).
LauncherInv ==
    /\ LauncherTypeOK
    /\ FlagsAlive
    /\ NullMeansReaped
    /\ MainPhases
    /\ FlagsTell

\* No thread outlives main(), and no handle is left (multithread.cpp:110).
NoThreadOutlivesMain ==
    mpc = "done" => \A k \in Calls : /\ tpc[k] = "exit"
                                     /\ handle[k] \in {"deleted", "nullptr"}

\* main() comes to its end whichever threads fail.
MainEnds == <>(mpc = "done")

\* What main()'s comments say of the calls, "Runs addNumbers(10, 32) on the new
\* thread" and "Runs countSlowly("counter", 1, 4) on the new thread"
\* (multithread.cpp:92, 96): func finds its arguments, and the thread the name
\* it prints when it has finished (47, 48).
FuncFindsArguments ==
    \A k \in Calls : (tpc[k] = "func" /\ uses[k] > 0) \/ tpc[k] = "finish" => alive[k]

=============================================================================
