------------------------------- MODULE Logger -------------------------------
(***************************************************************************)
(* class Logger of logger.cpp: the main thread pushes LogElements onto an  *)
(* LFQueue, the logger thread drains it into the file, and the destructor  *)
(* waits for the drain before it stops and joins the thread.               *)
(*                                                                         *)
(* One LogElement is one value of Elem; what its text looks like in the    *)
(* file is left out, so file_ is the sequence of the elements written.     *)
(* How log() cuts a format string into elements is LogFormat's subject:    *)
(* here main pushes any element at any time.                               *)
(*                                                                         *)
(* The queue never checks that it has room.  MaxBacklog is what the model  *)
(* assumes of the callers instead: a push starts only while size() is      *)
(* below it.  IInv needs MaxBacklog < NumElems; that the ASSERT holds is   *)
(* proved for the other callers too (LoggerProof).  MaxLog only bounds the *)
(* histories for TLC.                                                      *)
(***************************************************************************)
EXTENDS LFQueue

CONSTANTS
    MaxBacklog,  \* the callers keep fewer unread elements than this
    MaxLog       \* how many elements one behaviour pushes

ASSUME BoundsAssumption == MaxBacklog \in Nat /\ MaxLog \in Nat

VARIABLES
    running_,  \* std::atomic<bool>, true until the destructor clears it
    file_,     \* the elements written to the open ofstream
    mpc,       \* where the main thread is
    lpc,       \* where the logger thread is
    elem,      \* pushValue()'s argument
    next,      \* flushQueue()'s pointer to the slot to read
    pushed     \* history: every element made visible to the logger thread

vars == <<store_, next_write_index_, next_read_index_, num_elements_,
          running_, file_, mpc, lpc, elem, next, pushed>>

MainPC == {"construct", "ready", "write", "advance", "count",
           "drain", "stop", "join", "closed", "aborted"}
LoggerPC == {"none", "loop", "fetch", "size", "write", "advance", "count",
             "exit", "aborted"}

TypeOK ==
    /\ QueueTypeOK
    /\ running_ \in BOOLEAN
    /\ file_ \in Seq(Elem \cup {Blank})
    /\ mpc \in MainPC
    /\ lpc \in LoggerPC
    /\ elem \in Elem \cup {Blank}
    /\ mpc \in {"write", "advance"} => elem \in Elem
    /\ next \in Slots \cup {nullptr}
    /\ pushed \in Seq(Elem)

Init ==
    /\ QueueInit
    /\ running_ = TRUE
    /\ file_ = <<>>
    /\ mpc = "construct"
    /\ lpc = "none"
    /\ elem = Blank
    /\ next = nullptr
    /\ pushed = <<>>

\* std::abort(), from the ASSERT of either thread, ends both.
Abort == mpc' = "aborted" /\ lpc' = "aborted"

Main(from, to) == mpc = from /\ mpc' = to /\ UNCHANGED lpc
Thread(from, to) == lpc = from /\ lpc' = to /\ UNCHANGED mpc

-----------------------------------------------------------------------------
(* Mutated forms of the actions below. *)

MutDrainNoWait ==
    /\ Main("drain", "stop")
    /\ UNCHANGED <<queueVars, running_, file_, elem, next, pushed>>

MutStopNever ==
    /\ Main("stop", "join")
    /\ UNCHANGED <<queueVars, running_, file_, elem, next, pushed>>

MutFlushNullUntested ==
    /\ lpc = "size"
    /\ IF size # 0 THEN Thread("size", "write") ELSE Thread("size", "loop")
    /\ UNCHANGED <<queueVars, running_, file_, elem, next, pushed>>

MutFlushSizeUntested ==
    /\ lpc = "size"
    /\ IF next # nullptr THEN Thread("size", "write") ELSE Thread("size", "loop")
    /\ UNCHANGED <<queueVars, running_, file_, elem, next, pushed>>

-----------------------------------------------------------------------------
(* The main thread. *)

\* Logger(file_name): the file may fail to open, which aborts; otherwise the
\* logger thread starts.
Construct ==
    /\ mpc = "construct"
    /\ \/ mpc' = "ready" /\ lpc' = "loop"
       \/ Abort
    /\ UNCHANGED <<queueVars, running_, file_, elem, next, pushed>>

\* A call of pushValue(), in any of its overloads.
BeginPush ==
    /\ Main("ready", "write")
    /\ size < MaxBacklog
    /\ Len(pushed) < MaxLog
    /\ elem' \in Elem
    /\ UNCHANGED <<queueVars, running_, file_, next, pushed>>

\* *queue_.getNextToWriteTo() = elem
PushWrite ==
    /\ Main("write", "advance")
    /\ WriteSlot(elem)
    /\ UNCHANGED <<running_, file_, elem, next, pushed>>

\* updateWriteIndex(): the logger thread can see the element ...
PushAdvance ==
    /\ Main("advance", "count")
    /\ AdvanceWrite
    /\ pushed' = Append(pushed, elem)
    /\ UNCHANGED <<running_, file_, elem, next>>

\* ... and then it is counted.
PushCount ==
    /\ Main("count", "ready")
    /\ CountWrite
    /\ UNCHANGED <<running_, file_, elem, next, pushed>>

\* ~Logger() begins.
Destroy ==
    /\ Main("ready", "drain")
    /\ UNCHANGED <<queueVars, running_, file_, elem, next, pushed>>

\* while (queue_.size()) sleep: leaves once the queue counts nothing.
Drain ==
    /\ Main("drain", "stop")
    /\ size = 0
    /\ UNCHANGED <<queueVars, running_, file_, elem, next, pushed>>

\* running_ = false
Stop ==
    /\ Main("stop", "join")
    /\ running_' = FALSE
    /\ UNCHANGED <<queueVars, file_, elem, next, pushed>>

\* logger_thread_->join() returns once the thread has; file_.close().
Join ==
    /\ Main("join", "closed")
    /\ lpc = "exit"
    /\ UNCHANGED <<queueVars, running_, file_, elem, next, pushed>>

MainNext == \/ Construct \/ BeginPush \/ PushWrite \/ PushAdvance \/ PushCount
            \/ Destroy \/ Drain \/ Stop \/ Join

-----------------------------------------------------------------------------
(* The logger thread: flushQueue(). *)

\* while (running_)
FlushLoop ==
    /\ lpc = "loop"
    /\ IF running_ THEN Thread("loop", "fetch") ELSE Thread("loop", "exit")
    /\ UNCHANGED <<queueVars, running_, file_, elem, next, pushed>>

\* next = queue_.getNextToRead()
FlushFetch ==
    /\ Thread("fetch", "size")
    /\ next' = getNextToRead
    /\ UNCHANGED <<queueVars, running_, file_, elem, pushed>>

\* The for's condition: size() is loaded after next was fetched.
FlushSize ==
    /\ lpc = "size"
    /\ IF size # 0 /\ next # nullptr
       THEN Thread("size", "write") ELSE Thread("size", "loop")
    /\ UNCHANGED <<queueVars, running_, file_, elem, next, pushed>>

\* file_ << next->u_
FlushWrite ==
    /\ Thread("write", "advance")
    /\ file_' = Append(file_, store_[next])
    /\ UNCHANGED <<queueVars, running_, elem, next, pushed>>

\* updateReadIndex(): the slot is released ...
FlushAdvance ==
    /\ Thread("advance", "count")
    /\ AdvanceRead
    /\ UNCHANGED <<running_, file_, elem, next, pushed>>

\* ... and counted down, unless the ASSERT aborts.
FlushCount ==
    /\ lpc = "count"
    /\ \/ ReadAssert /\ Thread("count", "fetch") /\ CountRead
       \/ ~ReadAssert /\ Abort /\ UNCHANGED queueVars
    /\ UNCHANGED <<running_, file_, elem, next, pushed>>

ThreadNext == \/ FlushLoop \/ FlushFetch \/ FlushSize
              \/ FlushWrite \/ FlushAdvance \/ FlushCount

-----------------------------------------------------------------------------
\* The process is over: nothing else may stop it.
Terminated == mpc \in {"closed", "aborted"} /\ UNCHANGED vars

Next == MainNext \/ ThreadNext \/ Terminated

Spec == Init /\ [][Next]_vars

\* Neither thread waits for anything but the other: the scheduler runs both.
FairSpec == Spec /\ WF_vars(MainNext) /\ WF_vars(ThreadNext)

-----------------------------------------------------------------------------
(* Safety. *)

\* An element is read while nobody writes its slot: the two threads never
\* touch one slot together, the race LFQueue's lack of a lock rests on
\* (lfqueue.cpp:20-21).
NoDataRace == mpc = "write" /\ lpc = "write" => next # next_write_index_

\* updateReadIndex()'s ASSERT never fires, whatever the producer does between
\* the size() test and the decrement.
AssertHolds == lpc = "count" => ReadAssert

\* The file never shows anything but what was logged, in order.
FileInOrder ==
    /\ Len(file_) <= Len(pushed)
    /\ \A k \in 1 .. Len(file_) : file_[k] = pushed[k]

\* The destructor closes the file only when all that was logged is in it
\* (logger.cpp:188).
ClosedComplete == mpc = "closed" => file_ = pushed

-----------------------------------------------------------------------------
(* The inductive invariant. *)

\* How many elements the producer has made visible, and the consumer released.
Written == Len(pushed)
Released == Len(file_) - (IF lpc = "advance" THEN 1 ELSE 0)

\* The indices tell the backlog exactly, because it never fills the ring.
IndicesAgree ==
    Distance(next_read_index_, next_write_index_) = Written - Released

\* num_elements_ lags behind the indices by what either thread is in the
\* middle of.
CountAgrees ==
    num_elements_ = Written - Released
                    - (IF mpc = "count" THEN 1 ELSE 0)
                    + (IF lpc = "count" THEN 1 ELSE 0)

\* The callers' promise: a slot stays free, a second one while an element is
\* on its way into its slot.
RoomLeft ==
    /\ num_elements_ <= MaxBacklog
    /\ mpc \in {"write", "advance", "count"} => num_elements_ < MaxBacklog

\* Every visible element lies in its slot until it is released.
SlotsHoldBacklog ==
    \A k \in 0 .. Written - Released - 1 :
        store_[Ahead(next_read_index_, k)] = pushed[Released + k + 1]

\* The element on its way.
PushInFlight == mpc = "advance" => store_[next_write_index_] = elem

\* What flushQueue() has fetched and tested stays true while it uses it.
FlushInFlight ==
    /\ lpc \in {"size", "write", "advance"} /\ next # nullptr =>
           next = next_read_index_ /\ Released < Written
    /\ lpc = "advance" => Len(file_) > 0

\* What the for's condition tested stays true until the element is counted
\* down.  This needs no promise of the callers.
FlushTested ==
    /\ lpc \in {"write", "advance"} => next # nullptr
    /\ lpc \in {"write", "advance", "count"} => num_elements_ > 0

\* Where the threads are together.
Phases ==
    /\ mpc = "construct" <=> lpc = "none"
    /\ mpc = "aborted" <=> lpc = "aborted"
    /\ mpc \in {"stop", "join", "closed"} => num_elements_ = 0
    /\ mpc = "closed" => lpc = "exit"
    /\ running_ = FALSE => mpc \in {"join", "closed"}
    /\ lpc = "exit" => running_ = FALSE

IInv ==
    /\ TypeOK
    /\ FlushTested
    /\ IndicesAgree
    /\ CountAgrees
    /\ RoomLeft
    /\ SlotsHoldBacklog
    /\ PushInFlight
    /\ FlushInFlight
    /\ Phases
    /\ FileInOrder

-----------------------------------------------------------------------------
(* Implementation of the abstract queue, and progress. *)

\* The logger is a FIFO channel to the file, closed by the destructor.
F == INSTANCE Fifo WITH Value <- Elem, sent <- pushed, received <- file_,
                        closed <- mpc = "closed"

\* Every step of the two threads is a step of the channel or none, and an
\* element that was pushed does reach the file (flushQueue(), logger.cpp:105).
ImplementsFifo == F!LiveSpec

\* ~Logger() returns: the drain ends, the thread sees running_ and is joined
\* (logger.cpp:186).
DestructorReturns == (mpc = "drain") ~> (mpc = "closed")

=============================================================================
