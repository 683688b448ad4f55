------------------------------- MODULE LFQueue -------------------------------
(***************************************************************************)
(* class LFQueue<T>: the single-producer single-consumer ring buffer of    *)
(* lfqueue.cpp, which logger.cpp repeats word for word.  The module gives  *)
(* the object's state and its atomic steps.  It has no specification of    *)
(* its own: the class decides nothing, the threads that call it do         *)
(* (MarketData: consumer() and main(); Logger: flushQueue() and            *)
(* pushValue()).                                                           *)
(*                                                                         *)
(* Every operation on the three atomics uses the default seq_cst order, so *)
(* interleaving their steps is what the C++ memory model allows.  store_   *)
(* is not atomic: a client must never have a write and a read of one slot  *)
(* in progress together.  Where only one thread writes an atomic, its load *)
(* and the store that follows are one step.                                *)
(***************************************************************************)
EXTENDS Integers, Sequences

CONSTANTS
    Elem,      \* the values a producer may put into a slot
    Blank,     \* T(), what the constructor fills every slot with
    NumElems   \* store_.size(), the constructor's num_elems

\* With no slots at all, the % of updateWriteIndex() divides by zero.
ASSUME NumElemsAssumption == NumElems \in Nat \ {0}

\* T() is told apart from everything a producer writes, so that a read of a
\* slot nobody wrote shows.
ASSUME BlankAssumption == Blank \notin Elem

VARIABLES store_, next_write_index_, next_read_index_, num_elements_

queueVars == <<store_, next_write_index_, next_read_index_, num_elements_>>

Slots == 0 .. NumElems - 1

\* A T* into store_ is the slot's index; the null pointer is none of them.
nullptr == -1

QueueTypeOK ==
    /\ store_ \in [Slots -> Elem \cup {Blank}]
    /\ next_write_index_ \in Slots
    /\ next_read_index_ \in Slots
    /\ num_elements_ \in Nat

QueueInit ==
    /\ store_ = [s \in Slots |-> Blank]
    /\ next_write_index_ = 0
    /\ next_read_index_ = 0
    /\ num_elements_ = 0

-----------------------------------------------------------------------------
(* Mutated forms of the operators below. *)

MutWriteNextSlot(elem) ==
    /\ store_' = [store_ EXCEPT ![(next_write_index_ + 1) % NumElems] = elem]
    /\ UNCHANGED <<next_write_index_, next_read_index_, num_elements_>>
MutCountWriteTwice ==
    /\ num_elements_' = num_elements_ + 2
    /\ UNCHANGED <<store_, next_write_index_, next_read_index_>>
MutNextToReadIsWrite ==
    IF next_read_index_ = next_write_index_ THEN nullptr ELSE next_write_index_
MutCountReadTwice ==
    /\ num_elements_' = num_elements_ - 2
    /\ UNCHANGED <<store_, next_write_index_, next_read_index_>>

-----------------------------------------------------------------------------
(* Producer side. *)

\* The index arithmetic shared by both updates.
Inc(i) == (i + 1) % NumElems

\* *getNextToWriteTo() = elem: one non-atomic write of the slot.
WriteSlot(elem) ==
    /\ store_' = [store_ EXCEPT ![next_write_index_] = elem]
    /\ UNCHANGED <<next_write_index_, next_read_index_, num_elements_>>

\* updateWriteIndex(), first statement: the element becomes visible ...
AdvanceWrite ==
    /\ next_write_index_' = Inc(next_write_index_)
    /\ UNCHANGED <<store_, next_read_index_, num_elements_>>

\* ... second statement: and only then is it counted.
CountWrite ==
    /\ num_elements_' = num_elements_ + 1
    /\ UNCHANGED <<store_, next_write_index_, next_read_index_>>

-----------------------------------------------------------------------------
(* Consumer side. *)

\* getNextToRead(): nullptr when the two indices meet.
getNextToRead ==
    IF next_read_index_ = next_write_index_ THEN nullptr ELSE next_read_index_

\* updateReadIndex(), first statement: the slot goes back to the producer.
AdvanceRead ==
    /\ next_read_index_' = Inc(next_read_index_)
    /\ UNCHANGED <<store_, next_write_index_, num_elements_>>

\* updateReadIndex(), its ASSERT: abort() when there is nothing to count down.
ReadAssert == num_elements_ # 0

\* updateReadIndex(), last statement.  Only the consumer counts down, so what
\* the ASSERT saw still holds and both are one step.
CountRead ==
    /\ num_elements_' = num_elements_ - 1
    /\ UNCHANGED <<store_, next_write_index_, next_read_index_>>

size == num_elements_

-----------------------------------------------------------------------------
(* The ring as the clients' invariants see it. *)

\* How far slot w is ahead of slot r.
Distance(r, w) == IF w >= r THEN w - r ELSE NumElems + w - r

\* The slot k places ahead of slot r.
Ahead(r, k) == IF r + k >= NumElems THEN r + k - NumElems ELSE r + k

=============================================================================
