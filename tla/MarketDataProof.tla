--------------------------- MODULE MarketDataProof ---------------------------
(***************************************************************************)
(* Proofs about MarketData, for every number of updates that leaves a slot *)
(* of the ring free, as main()'s ten updates do.                           *)
(***************************************************************************)
EXTENDS MarketData, TLAPS

\* Neither index comes round: the slot after one that is not the last.
LEMMA NextSlot ==
    ASSUME NEW s \in Nat, s + 1 < NumElems
    PROVE  Inc(s) = s + 1
<1>1. s + 1 \in 0 .. NumElems - 1 /\ NumElems \in Nat
  BY NumElemsAssumption
<1>. QED
  BY <1>1 DEF Inc

\* The initial states satisfy the invariant.
LEMMA InvInit ==
    ASSUME NumUpdates < NumElems
    PROVE  Init => IInv
<1>1. NumElems \in Nat /\ NumElems > 0 /\ NumUpdates \in Nat /\ NumUpdates > 0
  BY NumElemsAssumption, UpdatesAssumption
<1>. SUFFICES ASSUME Init PROVE IInv
  OBVIOUS
<1>2. TypeOK
  BY <1>1 DEF Init, QueueInit, TypeOK, QueueTypeOK, Slots, nullptr
<1>3. Committed = 0 /\ Released = 0
  BY DEF Init, Committed, Released
<1>4. Counted /\ Fetched /\ Phases /\ NoDataRace
  BY <1>1, <1>3 DEF Init, QueueInit, Counted, Fetched, Phases, NoDataRace
<1>5. InOrder
  BY <1>3 DEF Init, InOrder
<1>. QED
  BY <1>2, <1>4, <1>5 DEF IInv

\* main()'s steps.
LEMMA MainKeepsInv ==
    ASSUME NumUpdates < NumElems, IInv, ProducerNext
    PROVE  IInv'
<1>0. /\ NumElems \in Nat /\ NumElems > 0 /\ NumUpdates \in Nat /\ NumUpdates > 0
      /\ Elem = 1 .. NumUpdates
  BY NumElemsAssumption, UpdatesAssumption
<1>t. TypeOK /\ Counted /\ InOrder /\ Fetched /\ Phases
  BY DEF IInv
<1>. USE <1>t DEF TypeOK, QueueTypeOK, Counted, Fetched, Phases, NoDataRace,
             Committed, Released, Slots, nullptr, queueVars
<1>1. CASE ProducerWrite
  <2>1. i \in Elem /\ next_write_index_ = i - 1
    BY <1>0, <1>1 DEF ProducerWrite
  <2>2. store_' = [store_ EXCEPT ![i - 1] = i]
    BY <1>1, <2>1 DEF ProducerWrite, WriteSlot
  <2>3. i - 1 \in Slots
    BY <2>1
  <2>4. InOrder'
    BY <1>0, <1>1, <2>1, <2>2, <2>3 DEF ProducerWrite, WriteSlot, InOrder
  <2>. QED
    BY <1>0, <1>1, <2>1, <2>2, <2>4 DEF IInv, ProducerWrite, WriteSlot
<1>2. CASE ProducerAdvance
  <2>1. next_write_index_ = i - 1 /\ i < NumElems
    BY <1>0, <1>2 DEF ProducerAdvance
  <2>2. next_write_index_' = i
    BY <1>0, <1>2, <2>1, NextSlot DEF ProducerAdvance, AdvanceWrite
  <2>3. InOrder'
    <3>1. Committed = i - 1 /\ Committed' = i /\ i \in Nat /\ store_' = store_
      BY <1>0, <1>2 DEF ProducerAdvance, AdvanceWrite
    <3>2. (\A k \in 1 .. i - 1 : store_[k - 1] = k) /\ store_[i - 1] = i
      BY <1>2, <3>1 DEF ProducerAdvance, InOrder
    <3>3. \A k \in 1 .. i : k \in 1 .. i - 1 \/ k = i
      BY <3>1
    <3>. QED
      BY <1>2, <3>1, <3>2, <3>3 DEF ProducerAdvance, InOrder
  <2>. QED
    BY <1>0, <1>2, <2>1, <2>2, <2>3 DEF IInv, ProducerAdvance, AdvanceWrite
<1>3. CASE ProducerCount
  <2>1. mainPc = "count" /\ i' = i + 1 /\ mainPc' \in {"write", "join"}
    BY <1>0, <1>3 DEF ProducerCount, LoopOrJoin
  <2>2. Committed' = Committed /\ Released' = Released
    BY <1>0, <1>3, <2>1 DEF ProducerCount
  <2>3. InOrder'
    BY <1>3, <2>1, <2>2 DEF ProducerCount, CountWrite, InOrder
  <2>4. Counted'
    BY <1>0, <1>3, <2>1, <2>2 DEF ProducerCount, CountWrite
  <2>5. TypeOK' /\ Fetched' /\ Phases' /\ NoDataRace'
    BY <1>0, <1>3 DEF ProducerCount, CountWrite, LoopOrJoin
  <2>. QED
    BY <2>3, <2>4, <2>5 DEF IInv
<1>4. CASE JoinConsumer
  BY <1>0, <1>4 DEF IInv, JoinConsumer, InOrder
<1>. QED
  BY <1>1, <1>2, <1>3, <1>4 DEF ProducerNext

\* consumer()'s steps.
LEMMA ConsumerKeepsInv ==
    ASSUME NumUpdates < NumElems, IInv, ConsumerNext
    PROVE  IInv'
<1>0. /\ NumElems \in Nat /\ NumElems > 0 /\ NumUpdates \in Nat /\ NumUpdates > 0
      /\ Elem = 1 .. NumUpdates
  BY NumElemsAssumption, UpdatesAssumption
<1>t. TypeOK /\ Counted /\ InOrder /\ Fetched /\ Phases
  BY DEF IInv
<1>. USE <1>t DEF TypeOK, QueueTypeOK, Counted, Fetched, Phases, NoDataRace,
             Committed, Released, Slots, nullptr, queueVars
<1>1. CASE ConsumerStart \/ ConsumerWhile
  <2>1. InOrder'
    BY <1>1 DEF ConsumerStart, ConsumerWhile, InOrder
  <2>2. Counted'
    BY <1>1 DEF ConsumerStart, ConsumerWhile
  <2>3. Fetched'
    BY <1>1 DEF ConsumerStart, ConsumerWhile, size
  <2>4. TypeOK' /\ Phases' /\ NoDataRace'
    BY <1>1 DEF ConsumerStart, ConsumerWhile
  <2>. QED
    BY <2>1, <2>2, <2>3, <2>4 DEF IInv
<1>2. CASE ConsumerFetch
  <2>1. next_read_index_ = Len(read) /\ num_elements_ > 0
    BY <1>2 DEF ConsumerFetch
  <2>2. CASE next_read_index_ = next_write_index_
    BY <1>0, <1>2, <2>1, <2>2 DEF IInv, ConsumerFetch, getNextToRead, InOrder
  <2>3. CASE next_read_index_ # next_write_index_
    BY <1>0, <1>2, <2>1, <2>3 DEF IInv, ConsumerFetch, getNextToRead, InOrder
  <2>. QED
    BY <2>2, <2>3
<1>3. CASE ConsumerUse
  <2>1. update = Len(read) /\ Len(read) < Committed
    BY <1>3 DEF ConsumerUse
  <2>2. store_[update] = Len(read) + 1
    BY <1>0, <2>1 DEF InOrder
  <2>3. read' = Append(read, Len(read) + 1)
    BY <1>3, <2>2 DEF ConsumerUse
  <2>4. read' \in Seq(Elem \cup {Blank}) /\ Len(read') = Len(read) + 1
    BY <1>3 DEF ConsumerUse
  <2>5. \A k \in 1 .. Len(read') : read'[k] = k
    BY <2>3, <2>4 DEF InOrder
  <2>6. InOrder'
    <3>1. /\ Committed' = Committed /\ Released' = Len(read)
          /\ store_' = store_ /\ mainPc' = mainPc /\ i' = i
      BY <1>3, <2>4 DEF ConsumerUse
    <3>. QED
      BY <2>1, <2>5, <3>1 DEF InOrder
  <2>7. Counted'
    BY <1>3, <2>1, <2>4 DEF ConsumerUse
  <2>8. Fetched'
    BY <1>3, <2>1, <2>4 DEF ConsumerUse
  <2>9. TypeOK' /\ Phases' /\ NoDataRace'
    BY <1>3, <2>4 DEF ConsumerUse
  <2>. QED
    BY <2>6, <2>7, <2>8, <2>9 DEF IInv
<1>4. CASE ConsumerAdvance
  <2>1. next_read_index_ = Len(read) - 1 /\ Len(read) <= Committed
    BY <1>4 DEF ConsumerAdvance
  <2>2. next_read_index_' = Len(read)
    BY <1>0, <1>4, <2>1, NextSlot DEF ConsumerAdvance, AdvanceRead
  <2>. QED
    BY <1>0, <1>4, <2>1, <2>2 DEF IInv, ConsumerAdvance, AdvanceRead, InOrder
<1>5. CASE ConsumerCount
  <2>1. num_elements_ > 0
    BY <1>5 DEF ConsumerCount
  <2>2. /\ CountRead /\ consumerPc' = "while"
        /\ UNCHANGED <<mainPc, i, update, read>>
    BY <1>5, <2>1 DEF ConsumerCount, ReadAssert
  <2>3. Committed' = Committed /\ Released' = Released
    BY <1>5, <2>2 DEF ConsumerCount
  <2>4. InOrder'
    BY <2>2, <2>3 DEF CountRead, InOrder
  <2>5. Counted'
    BY <1>0, <1>5, <2>2, <2>3 DEF ConsumerCount, CountRead
  <2>6. TypeOK' /\ Fetched' /\ Phases' /\ NoDataRace'
    BY <1>0, <1>5, <2>1, <2>2 DEF ConsumerCount, CountRead
  <2>. QED
    BY <2>4, <2>5, <2>6 DEF IInv
<1>. QED
  BY <1>1, <1>2, <1>3, <1>4, <1>5 DEF ConsumerNext

\* Every step keeps it.
LEMMA InvStep ==
    ASSUME NumUpdates < NumElems, IInv, [Next]_vars
    PROVE  IInv'
<1>1. CASE UNCHANGED vars
  BY <1>1 DEF vars, IInv, TypeOK, QueueTypeOK, Counted, InOrder, Fetched, Phases,
              NoDataRace, Committed, Released
<1>. QED
  BY <1>1, MainKeepsInv, ConsumerKeepsInv DEF Next, Terminated

\* What each thread has seen of the queue stays true under the other's steps.
THEOREM MarketDataInvariant ==
    ASSUME NumUpdates < NumElems
    PROVE  Spec => []IInv
<1>1. Init => IInv
  BY InvInit
<1>2. IInv /\ [Next]_vars => IInv'
  BY InvStep
<1>. QED
  BY <1>1, <1>2, PTL DEF Spec

\* Every update is read once or left over, and the count says how many are.
THEOREM LeftoverIsCounted ==
    ASSUME NumUpdates < NumElems
    PROVE  Spec => []LeftoverCounted
<1>1. IInv => LeftoverCounted
  BY UpdatesAssumption
     DEF IInv, TypeOK, QueueTypeOK, Counted, Phases, Committed, Released, LeftoverCounted
<1>. QED
  BY <1>1, MarketDataInvariant, PTL

-----------------------------------------------------------------------------
(* The refinement. *)

\* The refinement maps the initial states ...
LEMMA FifoInit == Init => F!Init
BY DEF Init, QueueInit, F!Init, Committed

\* The updates up to the next one.
LEMMA CountTo ==
    ASSUME NEW n \in Nat \ {0}
    PROVE  [k \in 1 .. n |-> k] = Append([k \in 1 .. n - 1 |-> k], n)
OBVIOUS

\* ... and every step to a step of the channel or none.
LEMMA FifoStep ==
    ASSUME NumUpdates < NumElems, IInv, [Next]_vars
    PROVE  [F!Next]_(F!vars)
<1>0. /\ NumElems \in Nat /\ NumElems > 0 /\ NumUpdates \in Nat /\ NumUpdates > 0
      /\ Elem = 1 .. NumUpdates
  BY NumElemsAssumption, UpdatesAssumption
<1>. USE DEF F!vars, Committed, queueVars
<1>1. CASE ProducerAdvance
  <2>1. i \in Elem /\ Committed = i - 1 /\ Committed' = i
    BY <1>0, <1>1 DEF ProducerAdvance, IInv, TypeOK, Phases
  <2>2. [k \in 1 .. i |-> k] = Append([k \in 1 .. i - 1 |-> k], i)
    BY <1>0, <2>1, CountTo
  <2>3. PICK v \in Elem : v = i
    BY <2>1
  <2>4. F!Send(v)
    BY <1>1, <2>1, <2>2, <2>3 DEF ProducerAdvance, F!Send
  <2>. QED
    BY <2>4 DEF F!Next
<1>2. CASE ConsumerUse
  <2>1. update = Len(read) /\ Len(read) < Committed
    BY <1>2 DEF ConsumerUse, IInv, Counted, Fetched, Released
  <2>2. Committed \in Nat /\ Len(read) \in Nat
    BY <1>0 DEF IInv, TypeOK
  <2>3. store_[update] = Len(read) + 1
    BY <2>1, <2>2 DEF IInv, InOrder
  <2>4. Len([k \in 1 .. Committed |-> k]) = Committed
    BY <2>2
  <2>5. F!Receive
    BY <1>2, <2>1, <2>2, <2>3, <2>4 DEF ConsumerUse, F!Receive
  <2>. QED
    BY <2>5 DEF F!Next
<1>3. CASE ProducerCount
  BY <1>0, <1>3 DEF ProducerCount, LoopOrJoin, IInv, TypeOK
<1>4. CASE ProducerWrite \/ JoinConsumer
  BY <1>4 DEF ProducerWrite, JoinConsumer
<1>5. CASE ConsumerStart \/ ConsumerWhile \/ ConsumerFetch \/ ConsumerAdvance
  BY <1>5 DEF ConsumerStart, ConsumerWhile, ConsumerFetch, ConsumerAdvance
<1>6. CASE ConsumerCount
  BY <1>6 DEF ConsumerCount, ReadAssert, IInv, Fetched
<1>7. CASE UNCHANGED vars
  BY <1>7 DEF vars
<1>. QED
  BY <1>1, <1>2, <1>3, <1>4, <1>5, <1>6, <1>7
     DEF Next, ProducerNext, ConsumerNext, Terminated

\* The queue of lfqueue.cpp is a FIFO channel for its main() and consumer().
THEOREM MarketDataImplementsFifo ==
    ASSUME NumUpdates < NumElems
    PROVE  Spec => ImplementsFifo
<1>1. Init => F!Init
  BY FifoInit
<1>2. IInv /\ [Next]_vars => [F!Next]_(F!vars)
  BY FifoStep
<1>3. Spec => []IInv
  BY MarketDataInvariant
<1>. QED
  BY <1>1, <1>2, <1>3, PTL DEF Spec, ImplementsFifo, F!Spec

=============================================================================
