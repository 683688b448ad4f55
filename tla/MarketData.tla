----------------------------- MODULE MarketData -----------------------------
(***************************************************************************)
(* The program of lfqueue.cpp: main() pushes NumUpdates market updates     *)
(* onto an LFQueue, consumer() drains it on a thread of its own, and       *)
(* main() joins that thread.                                               *)
(*                                                                         *)
(* An update is its id.  A sleep promises nothing but that time passes, so *)
(* any interleaving of the two threads may happen; that includes the one   *)
(* the nominal times give (consumer() waits 2s and then reads five updates *)
(* a second, main() pushes two a second).                                  *)
(***************************************************************************)
EXTENDS LFQueue

CONSTANT NumUpdates

ASSUME UpdatesAssumption == NumUpdates \in Nat \ {0} /\ Elem = 1 .. NumUpdates

VARIABLES
    mainPc,      \* where main() is
    i,           \* its loop counter
    consumerPc,  \* where consumer() is
    update,      \* consumer()'s pointer into store_
    read         \* history: the ids consumer() has printed

vars == <<store_, next_write_index_, next_read_index_, num_elements_,
          mainPc, i, consumerPc, update, read>>

TypeOK ==
    /\ QueueTypeOK
    /\ mainPc \in {"write", "advance", "count", "join", "done", "aborted"}
    /\ i \in 1 .. NumUpdates + 1
    /\ consumerPc \in {"sleep", "while", "fetch", "use", "advance", "count", "exit", "aborted"}
    /\ update \in Slots \cup {nullptr}
    /\ read \in Seq(Elem \cup {Blank})

Init ==
    /\ QueueInit
    /\ mainPc = "write"
    /\ i = 1
    /\ consumerPc = "sleep"
    /\ update = nullptr
    /\ read = <<>>

\* The for's condition after a push; the first time it holds.
LoopOrJoin(n) == IF n <= NumUpdates THEN "write" ELSE "join"

-----------------------------------------------------------------------------
(* A mutated form of an action below. *)

MutConsumerNoWait ==
    /\ consumerPc = "while"
    /\ consumerPc' = "fetch"
    /\ UNCHANGED <<queueVars, mainPc, i, update, read>>

-----------------------------------------------------------------------------
(* main() *)

\* *queue.getNextToWriteTo() = update
ProducerWrite ==
    /\ mainPc = "write"
    /\ WriteSlot(i)
    /\ mainPc' = "advance"
    /\ UNCHANGED <<i, consumerPc, update, read>>

\* queue.updateWriteIndex(), in its two statements.
ProducerAdvance ==
    /\ mainPc = "advance"
    /\ AdvanceWrite
    /\ mainPc' = "count"
    /\ UNCHANGED <<i, consumerPc, update, read>>

ProducerCount ==
    /\ mainPc = "count"
    /\ CountWrite
    /\ i' = i + 1
    /\ mainPc' = LoopOrJoin(i')
    /\ UNCHANGED <<consumerPc, update, read>>

\* consumer_thread.join() returns once consumer() has.
JoinConsumer ==
    /\ mainPc = "join"
    /\ consumerPc = "exit"
    /\ mainPc' = "done"
    /\ UNCHANGED <<queueVars, i, consumerPc, update, read>>

ProducerNext == ProducerWrite \/ ProducerAdvance \/ ProducerCount \/ JoinConsumer

-----------------------------------------------------------------------------
(* consumer() *)

\* The first sleep ends.
ConsumerStart ==
    /\ consumerPc = "sleep"
    /\ consumerPc' = "while"
    /\ UNCHANGED <<queueVars, mainPc, i, update, read>>

\* while (queue->size())
ConsumerWhile ==
    /\ consumerPc = "while"
    /\ consumerPc' = IF size # 0 THEN "fetch" ELSE "exit"
    /\ UNCHANGED <<queueVars, mainPc, i, update, read>>

\* getNextToRead(), and continue on a null pointer.
ConsumerFetch ==
    /\ consumerPc = "fetch"
    /\ update' = getNextToRead
    /\ consumerPc' = IF update' = nullptr THEN "while" ELSE "use"
    /\ UNCHANGED <<queueVars, mainPc, i, read>>

\* The update is printed.
ConsumerUse ==
    /\ consumerPc = "use"
    /\ read' = Append(read, store_[update])
    /\ consumerPc' = "advance"
    /\ UNCHANGED <<queueVars, mainPc, i, update>>

\* queue->updateReadIndex(), in its statements; abort() ends both threads.
ConsumerAdvance ==
    /\ consumerPc = "advance"
    /\ AdvanceRead
    /\ consumerPc' = "count"
    /\ UNCHANGED <<mainPc, i, update, read>>

ConsumerCount ==
    /\ consumerPc = "count"
    /\ \/ ReadAssert /\ CountRead /\ consumerPc' = "while" /\ UNCHANGED mainPc
       \/ ~ReadAssert /\ UNCHANGED queueVars /\ consumerPc' = "aborted" /\ mainPc' = "aborted"
    /\ UNCHANGED <<i, update, read>>

ConsumerNext == \/ ConsumerStart \/ ConsumerWhile \/ ConsumerFetch
                \/ ConsumerUse \/ ConsumerAdvance \/ ConsumerCount

-----------------------------------------------------------------------------
Terminated == mainPc \in {"done", "aborted"} /\ UNCHANGED vars

Next == ProducerNext \/ ConsumerNext \/ Terminated

Spec == Init /\ [][Next]_vars

\* Neither thread waits on a lock: the scheduler runs both.
FairSpec == Spec /\ WF_vars(ProducerNext) /\ WF_vars(ConsumerNext)

-----------------------------------------------------------------------------
\* The updates main() has made visible to consumer().
Committed == IF mainPc = "count" THEN i ELSE i - 1

-----------------------------------------------------------------------------
(* The inductive invariant, for a ring with a slot for every update and    *)
(* one more.                                                               *)

\* The slots consumer() has given back.
Released == Len(read) - (IF consumerPc = "advance" THEN 1 ELSE 0)

\* The indices never come round, so they are the numbers of updates themselves.
\* num_elements_ lags behind them by what either thread is in the middle of.
Counted ==
    /\ Committed < NumElems
    /\ next_write_index_ = Committed
    /\ next_read_index_ = Released
    /\ num_elements_ = Committed - Released
                         - (IF mainPc = "count" THEN 1 ELSE 0)
                         + (IF consumerPc = "count" THEN 1 ELSE 0)

\* Every update lies in its slot, and those printed are the first ones.
InOrder ==
    /\ \A k \in 1 .. Committed : store_[k - 1] = k
    /\ mainPc = "advance" => store_[i - 1] = i
    /\ Released <= Committed
    /\ \A k \in 1 .. Len(read) : read[k] = k

\* What consumer() has tested and fetched stays true while it uses it.
Fetched ==
    /\ consumerPc \in {"fetch", "use", "advance", "count"} => num_elements_ > 0
    /\ consumerPc \in {"use", "advance"} => update = next_read_index_ /\ Released < Committed
    /\ consumerPc = "advance" => Len(read) > 0

\* Where the threads are.
Phases ==
    /\ mainPc # "aborted" /\ consumerPc # "aborted"
    /\ mainPc \in {"write", "advance", "count"} <=> i <= NumUpdates
    /\ mainPc = "done" => consumerPc = "exit"

\* The two threads are never inside one slot together (lfqueue.cpp:20-21).
NoDataRace == mainPc = "write" /\ consumerPc = "use" => update # next_write_index_

\* The two threads use lfqueue.cpp's queue as it is meant to be used: what one
\* has seen of it stays true under the other's steps (lfqueue.cpp:21-58).
IInv ==
    /\ TypeOK
    /\ Counted
    /\ InOrder
    /\ Fetched
    /\ Phases
    /\ NoDataRace

-----------------------------------------------------------------------------
\* An update counts as unread from its commit to its release, and no longer:
\* what size() shows at the end is what consumer() left behind, which need not
\* be nothing (see DrainedWhenDone).
LeftoverCounted == mainPc = "done" => Len(read) + num_elements_ = NumUpdates

\* "Block main until the consumer thread has fully drained the queue"
\* (lfqueue.cpp:141; consumer() prints "queue drained", line 106): nothing is
\* left when main() goes on.
DrainedWhenDone == mainPc = "done" => num_elements_ = 0

\* consumer() prints the updates in the order and with the contents main()
\* gave them, each once: the queue is a FIFO channel that nobody closes.
F == INSTANCE Fifo WITH Value <- Elem, sent <- [k \in 1 .. Committed |-> k],
                        received <- read, closed <- FALSE
ImplementsFifo == F!Spec

\* Both threads come to their end, with no abort.
BothReturn == <>(mainPc = "done")

=============================================================================
