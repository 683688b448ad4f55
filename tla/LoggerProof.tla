---------------------------- MODULE LoggerProof ----------------------------
(***************************************************************************)
(* Proofs about Logger, for every queue size, element set and log length.  *)
(***************************************************************************)
EXTENDS Logger, TLAPS

-----------------------------------------------------------------------------
(* The index arithmetic of updateWriteIndex() and updateReadIndex(), freed *)
(* of the modulus the arithmetic provers are slow with.                    *)

\* The increment modulo the capacity wraps at the last slot and nowhere else.
LEMMA IncIs ==
    ASSUME NEW i \in Slots
    PROVE  Inc(i) = IF i + 1 = NumElems THEN 0 ELSE i + 1
<1>1. NumElems \in Nat /\ NumElems > 0
  BY NumElemsAssumption
<1>2. CASE i + 1 = NumElems
  BY <1>1, <1>2 DEF Slots, Inc
<1>3. CASE i + 1 # NumElems
  <2>1. i + 1 \in 0 .. NumElems - 1
    BY <1>1, <1>3 DEF Slots
  <2>2. (i + 1) % NumElems = i + 1
    BY <1>1, <2>1
  <2>. QED
    BY <1>3, <2>2 DEF Inc
<1>. QED
  BY <1>2, <1>3

\* An index stays inside store_.
LEMMA IncInSlots ==
    ASSUME NEW i \in Slots
    PROVE  Inc(i) \in Slots
<1>1. NumElems \in Nat /\ NumElems > 0
  BY NumElemsAssumption
<1>. QED
  BY <1>1, IncIs DEF Slots

\* Moving the write index into a ring that keeps a slot free.
LEMMA DistanceWrite ==
    ASSUME NEW r \in Slots, NEW w \in Slots, Distance(r, w) < NumElems - 1
    PROVE  Distance(r, Inc(w)) = Distance(r, w) + 1
<1>1. NumElems \in Nat /\ NumElems > 0
  BY NumElemsAssumption
<1>. QED
  BY <1>1, IncIs DEF Distance, Slots

\* Moving the read index of a ring that is not empty.
LEMMA DistanceRead ==
    ASSUME NEW r \in Slots, NEW w \in Slots, Distance(r, w) > 0
    PROVE  Distance(Inc(r), w) = Distance(r, w) - 1
<1>1. NumElems \in Nat /\ NumElems > 0
  BY NumElemsAssumption
<1>. QED
  BY <1>1, IncIs DEF Distance, Slots

\* The distance is a number below the ring's size, zero where the indices meet.
LEMMA DistanceRange ==
    ASSUME NEW r \in Slots, NEW w \in Slots
    PROVE  /\ Distance(r, w) \in 0 .. NumElems - 1
           /\ Distance(r, w) = 0 <=> r = w
<1>1. NumElems \in Nat /\ NumElems > 0
  BY NumElemsAssumption
<1>. QED
  BY <1>1 DEF Distance, Slots

\* The places before the write index are other slots than the one it points to,
\* which is the place after the last of them.
LEMMA AheadIs ==
    ASSUME NEW r \in Slots, NEW w \in Slots, NEW k \in 0 .. NumElems - 1
    PROVE  /\ Ahead(r, k) \in Slots
           /\ Ahead(r, k) = w <=> k = Distance(r, w)
<1>1. NumElems \in Nat /\ NumElems > 0
  BY NumElemsAssumption
<1>. QED
  BY <1>1 DEF Ahead, Distance, Slots

\* Releasing a slot shifts every place by one.
LEMMA AheadShift ==
    ASSUME NEW r \in Slots, NEW k \in 0 .. NumElems - 2
    PROVE  Ahead(Inc(r), k) = Ahead(r, k + 1)
<1>1. NumElems \in Nat /\ NumElems > 0
  BY NumElemsAssumption
<1>. QED
  BY <1>1, IncIs DEF Ahead, Slots

-----------------------------------------------------------------------------
(* What holds however far the callers get ahead: types, and the ASSERT of  *)
(* updateReadIndex().                                                      *)

\* What each thread knows by itself holds at the start ...
LEMMA LocalInit == Init => TypeOK /\ FlushTested
<1>1. NumElems \in Nat /\ NumElems > 0
  BY NumElemsAssumption
<1>. QED
  BY <1>1 DEF Init, QueueInit, TypeOK, QueueTypeOK, FlushTested, Slots, nullptr,
              MainPC, LoggerPC

\* ... and every step keeps it.
LEMMA LocalStep == TypeOK /\ FlushTested /\ [Next]_vars => TypeOK' /\ FlushTested'
<1>. SUFFICES ASSUME TypeOK, FlushTested, [Next]_vars
              PROVE  TypeOK' /\ FlushTested'
  OBVIOUS
<1>. USE DEF TypeOK, QueueTypeOK, MainPC, LoggerPC, FlushTested, Main, Thread,
             queueVars
<1>1. CASE Construct
  BY <1>1 DEF Construct, Abort
<1>2. CASE BeginPush
  BY <1>2 DEF BeginPush
<1>3. CASE PushWrite
  BY <1>3 DEF PushWrite, WriteSlot
<1>4. CASE PushAdvance
  <2>1. next_write_index_' \in Slots
    BY <1>4, IncInSlots DEF PushAdvance, AdvanceWrite
  <2>. QED
    BY <1>4, <2>1 DEF PushAdvance, AdvanceWrite
<1>5. CASE PushCount
  BY <1>5 DEF PushCount, CountWrite
<1>6. CASE Destroy \/ Drain \/ Stop \/ Join
  BY <1>6 DEF Destroy, Drain, Stop, Join
<1>7. CASE FlushLoop
  BY <1>7 DEF FlushLoop
<1>8. CASE FlushFetch
  BY <1>8 DEF FlushFetch, getNextToRead
<1>9. CASE FlushSize
  BY <1>9 DEF FlushSize, size
<1>10. CASE FlushWrite
  BY <1>10 DEF FlushWrite
<1>11. CASE FlushAdvance
  BY <1>11, IncInSlots DEF FlushAdvance, AdvanceRead
<1>12. CASE FlushCount
  BY <1>12 DEF FlushCount, ReadAssert, CountRead, Abort
<1>13. CASE UNCHANGED vars
  BY <1>13 DEF vars
<1>. QED
  BY <1>1, <1>2, <1>3, <1>4, <1>5, <1>6, <1>7, <1>8, <1>9, <1>10, <1>11, <1>12,
     <1>13 DEF Next, MainNext, ThreadNext, Terminated

\* The types, for any callers.
THEOREM TypeCorrect == Spec => []TypeOK
<1>1. Spec => [](TypeOK /\ FlushTested)
  BY LocalInit, LocalStep, PTL DEF Spec
<1>. QED
  BY <1>1, PTL

\* The ASSERT of updateReadIndex() cannot fire, even when the callers overrun
\* the ring: only the logger thread counts down, and it has just seen size().
THEOREM AssertNeverFires == Spec => []AssertHolds
<1>1. Spec => [](TypeOK /\ FlushTested)
  BY LocalInit, LocalStep, PTL DEF Spec
<1>2. FlushTested /\ TypeOK => AssertHolds
  BY DEF FlushTested, AssertHolds, ReadAssert, TypeOK, QueueTypeOK
<1>. QED
  BY <1>1, <1>2, PTL

-----------------------------------------------------------------------------
(* What holds while the callers keep their promise.  Each lemma takes one  *)
(* thread's step through the parts of IInv it can disturb.                 *)

\* The invariant of the queue holds at the start ...
LEMMA InvInit == Init => IInv
<1>1. NumElems \in Nat /\ NumElems > 0
  BY NumElemsAssumption
<1>. QED
  BY <1>1, LocalInit, BoundsAssumption
     DEF Init, QueueInit, IInv, IndicesAgree, CountAgrees, RoomLeft,
         SlotsHoldBacklog, PushInFlight, FlushInFlight, Phases, FileInOrder,
         Written, Released, Distance, nullptr

\* The shape of the ring while IInv holds.
LEMMA Backlog ==
    ASSUME MaxBacklog < NumElems, IInv
    PROVE  /\ next_read_index_ \in Slots
           /\ next_write_index_ \in Slots
           /\ Written \in Nat
           /\ Released \in Nat
           /\ Written - Released \in 0 .. NumElems - 1
           /\ mpc \in {"write", "advance"} => Written - Released < NumElems - 1
<1>1. NumElems \in Nat /\ NumElems > 0 /\ MaxBacklog \in Nat
  BY NumElemsAssumption, BoundsAssumption
<1>2. next_read_index_ \in Slots /\ next_write_index_ \in Slots
  BY DEF IInv, TypeOK, QueueTypeOK
<1>3. Written \in Nat /\ Released \in Nat
  BY DEF IInv, TypeOK, FlushInFlight, Written, Released
<1>4. Written - Released \in 0 .. NumElems - 1
  BY <1>2, DistanceRange DEF IInv, IndicesAgree
<1>5. mpc \in {"write", "advance"} => Written - Released < NumElems - 1
  BY <1>1, <1>3 DEF IInv, CountAgrees, RoomLeft, TypeOK, QueueTypeOK
<1>. QED
  BY <1>2, <1>3, <1>4, <1>5

\* ... and, while the backlog stays below the capacity, every step keeps it.
LEMMA InvStep ==
    ASSUME MaxBacklog < NumElems, IInv, [Next]_vars
    PROVE  IInv'
<1>. USE DEF Main, Thread
<1>0. NumElems \in Nat /\ NumElems > 0 /\ MaxBacklog \in Nat
  BY NumElemsAssumption, BoundsAssumption
<1>a. TypeOK /\ FlushTested /\ TypeOK' /\ FlushTested'
  BY LocalStep DEF IInv
<1>b. /\ next_read_index_ \in Slots
      /\ next_write_index_ \in Slots
      /\ Written \in Nat
      /\ Released \in Nat
      /\ Written - Released \in 0 .. NumElems - 1
      /\ mpc \in {"write", "advance"} => Written - Released < NumElems - 1
  BY Backlog
<1>c. num_elements_ \in Nat /\ pushed \in Seq(Elem) /\ file_ \in Seq(Elem \cup {Blank})
  BY <1>a DEF TypeOK, QueueTypeOK
<1>1. CASE Construct
  BY <1>0, <1>1, <1>a, <1>b, <1>c
     DEF Construct, Abort, IInv, IndicesAgree, CountAgrees, RoomLeft,
         SlotsHoldBacklog, PushInFlight, FlushInFlight, Phases, FileInOrder,
         Written, Released, queueVars
<1>2. CASE BeginPush
  BY <1>0, <1>2, <1>a, <1>b, <1>c
     DEF BeginPush, size, IInv, IndicesAgree, CountAgrees, RoomLeft,
         SlotsHoldBacklog, PushInFlight, FlushInFlight, Phases, FileInOrder,
         Written, Released, queueVars
<1>3. CASE PushWrite
  <2>1. Written' = Written /\ Released' = Released
    BY <1>3 DEF PushWrite, WriteSlot, Written, Released, queueVars
  <2>2. SlotsHoldBacklog'
    <3>1. SUFFICES ASSUME NEW k \in 0 .. Written - Released - 1
                   PROVE  store_'[Ahead(next_read_index_, k)] = pushed[Released + k + 1]
      BY <1>3, <2>1 DEF SlotsHoldBacklog, PushWrite, WriteSlot
    <3>2. k # Distance(next_read_index_, next_write_index_) /\ k \in 0 .. NumElems - 1
      BY <1>0, <1>b DEF IInv, IndicesAgree
    <3>3. Ahead(next_read_index_, k) # next_write_index_
      BY <1>b, <3>2, AheadIs
    <3>4. store_'[Ahead(next_read_index_, k)] = store_[Ahead(next_read_index_, k)]
      BY <1>3, <1>a, <1>b, <3>2, <3>3, AheadIs DEF PushWrite, WriteSlot, TypeOK, QueueTypeOK
    <3>. QED
      BY <3>4 DEF IInv, SlotsHoldBacklog
  <2>3. PushInFlight'
    BY <1>3, <1>a, <1>b DEF PushWrite, WriteSlot, PushInFlight, TypeOK, QueueTypeOK
  <2>. QED
    BY <1>3, <1>a, <2>2, <2>3
     DEF PushWrite, WriteSlot, IInv, IndicesAgree, CountAgrees, RoomLeft,
         FlushInFlight, Phases, FileInOrder, Written, Released
<1>4. CASE PushAdvance
  <2>1. /\ Written' = Written + 1
        /\ Released' = Released
        /\ pushed' = Append(pushed, elem)
        /\ elem \in Elem
        /\ next_write_index_' = Inc(next_write_index_)
        /\ UNCHANGED <<store_, next_read_index_, num_elements_, file_, lpc, next, running_>>
    BY <1>4, <1>a, <1>c DEF PushAdvance, AdvanceWrite, Written, Released, TypeOK
  <2>2. Distance(next_read_index_, next_write_index_) = Written - Released
    BY DEF IInv, IndicesAgree
  <2>3. IndicesAgree'
    BY <1>0, <1>4, <1>b, <2>1, <2>2, DistanceWrite DEF PushAdvance, IndicesAgree
  <2>4. CountAgrees'
    BY <1>4, <1>b, <1>c, <2>1 DEF PushAdvance, IInv, CountAgrees
  <2>5. SlotsHoldBacklog'
    <3>0. Written' - Released' - 1 = Written - Released
      BY <1>b, <2>1
    <3>1. SUFFICES ASSUME NEW k \in 0 .. Written - Released
                   PROVE  store_[Ahead(next_read_index_, k)] = pushed'[Released + k + 1]
      BY <2>1, <3>0 DEF SlotsHoldBacklog
    <3>2. CASE k = Written - Released
      <4>1. Ahead(next_read_index_, k) = next_write_index_
        BY <1>0, <1>b, <2>2, <3>2, AheadIs
      <4>2. Released + k + 1 = Len(pushed) + 1
        BY <1>b, <3>2 DEF Written
      <4>. QED
        BY <1>4, <1>c, <2>1, <4>1, <4>2 DEF PushAdvance, IInv, PushInFlight
    <3>3. CASE k # Written - Released
      <4>1. k \in 0 .. Written - Released - 1
        BY <1>b, <3>3
      <4>2. Released + k + 1 \in 1 .. Len(pushed)
        BY <1>b, <4>1 DEF Written
      <4>. QED
        BY <1>c, <2>1, <4>1, <4>2 DEF IInv, SlotsHoldBacklog
    <3>. QED
      BY <3>2, <3>3
  <2>6. FileInOrder'
    BY <1>c, <2>1 DEF IInv, FileInOrder
  <2>7. FlushInFlight'
    BY <1>b, <2>1 DEF IInv, FlushInFlight
  <2>. QED
    BY <1>4, <1>a, <2>1, <2>3, <2>4, <2>5, <2>6, <2>7
       DEF PushAdvance, IInv, RoomLeft, PushInFlight, Phases
<1>5. CASE PushCount
  <2>1. /\ Written' = Written
        /\ Released' = Released
        /\ num_elements_' = num_elements_ + 1
        /\ UNCHANGED <<store_, next_write_index_, next_read_index_, running_, file_,
                       elem, next, pushed, lpc>>
    BY <1>5 DEF PushCount, CountWrite, Written, Released
  <2>2. SlotsHoldBacklog' /\ FileInOrder'
    BY <2>1 DEF IInv, SlotsHoldBacklog, FileInOrder
  <2>3. IndicesAgree' /\ FlushInFlight'
    BY <2>1 DEF IInv, IndicesAgree, FlushInFlight
  <2>4. CountAgrees'
    BY <1>5, <1>b, <1>c, <2>1 DEF PushCount, IInv, CountAgrees
  <2>. QED
    BY <1>0, <1>5, <1>a, <1>c, <2>1, <2>2, <2>3, <2>4
       DEF PushCount, IInv, RoomLeft, PushInFlight, Phases
<1>6. CASE Destroy \/ Drain \/ Stop \/ Join
  <2>1. /\ Written' = Written
        /\ Released' = Released
        /\ UNCHANGED <<store_, next_write_index_, next_read_index_, num_elements_,
                       file_, elem, next, pushed, lpc>>
    BY <1>6 DEF Destroy, Drain, Stop, Join, queueVars, Written, Released
  <2>2. SlotsHoldBacklog' /\ FileInOrder'
    BY <2>1 DEF IInv, SlotsHoldBacklog, FileInOrder
  <2>3. IndicesAgree' /\ FlushInFlight'
    BY <2>1 DEF IInv, IndicesAgree, FlushInFlight
  <2>4. CountAgrees' /\ RoomLeft' /\ PushInFlight'
    BY <1>6, <2>1 DEF Destroy, Drain, Stop, Join, IInv, CountAgrees, RoomLeft, PushInFlight
  <2>5. Phases'
    BY <1>6, <2>1 DEF Destroy, Drain, Stop, Join, size, IInv, Phases
  <2>. QED
    BY <1>a, <2>2, <2>3, <2>4, <2>5 DEF IInv
<1>7. CASE FlushLoop
  <2>1. /\ Written' = Written
        /\ Released' = Released
        /\ UNCHANGED <<store_, next_write_index_, next_read_index_, num_elements_,
                       file_, elem, next, pushed, mpc, running_>>
    BY <1>7 DEF FlushLoop, queueVars, Written, Released
  <2>2. SlotsHoldBacklog' /\ FileInOrder'
    BY <2>1 DEF IInv, SlotsHoldBacklog, FileInOrder
  <2>3. IndicesAgree' /\ RoomLeft' /\ PushInFlight'
    BY <2>1 DEF IInv, IndicesAgree, RoomLeft, PushInFlight
  <2>4. CountAgrees' /\ FlushInFlight'
    BY <1>7, <2>1 DEF FlushLoop, IInv, CountAgrees, FlushInFlight
  <2>5. Phases'
    BY <1>7, <1>a, <2>1 DEF FlushLoop, IInv, Phases, TypeOK
  <2>. QED
    BY <1>a, <2>2, <2>3, <2>4, <2>5 DEF IInv
<1>8. CASE FlushFetch
  <2>1. getNextToRead # nullptr =>
            getNextToRead = next_read_index_ /\ Released < Written
    BY <1>b, DistanceRange DEF getNextToRead, IInv, IndicesAgree
  <2>2. FlushInFlight'
    BY <1>8, <2>1 DEF FlushFetch, FlushInFlight, queueVars, Released, Written
  <2>. QED
    BY <1>8, <1>a, <2>2
       DEF FlushFetch, IInv, IndicesAgree, CountAgrees, RoomLeft,
           SlotsHoldBacklog, PushInFlight, Phases, FileInOrder, Written, Released,
           queueVars
<1>9. CASE FlushSize
  BY <1>0, <1>9, <1>a, <1>b, <1>c
     DEF FlushSize, size, IInv, IndicesAgree, CountAgrees, RoomLeft,
         SlotsHoldBacklog, PushInFlight, FlushInFlight, Phases, FileInOrder,
         Written, Released, queueVars
<1>10. CASE FlushWrite
  <2>1. /\ Written' = Written
        /\ Released' = Released
        /\ Released = Len(file_)
        /\ file_' = Append(file_, store_[next])
        /\ UNCHANGED <<store_, next_write_index_, next_read_index_, num_elements_,
                       running_, elem, next, pushed, mpc>>
    BY <1>10, <1>a, <1>c
       DEF FlushWrite, Written, Released, TypeOK, QueueTypeOK, queueVars
  <2>2. next = next_read_index_ /\ Released < Written
    BY <1>10, <1>a DEF FlushWrite, IInv, FlushInFlight, FlushTested
  <2>3. store_[next] = pushed[Len(file_) + 1]
    <3>1. 0 \in 0 .. Written - Released - 1
      BY <1>b, <2>2
    <3>2. Ahead(next_read_index_, 0) = next_read_index_
      BY <1>0, <1>b DEF Ahead, Slots
    <3>. QED
      BY <1>b, <2>1, <2>2, <3>1, <3>2 DEF IInv, SlotsHoldBacklog
  <2>4. FileInOrder'
    BY <1>b, <1>c, <2>1, <2>2, <2>3 DEF IInv, FileInOrder, Written
  <2>5. FlushInFlight'
    BY <1>b, <1>c, <2>1, <2>2 DEF IInv, FlushInFlight
  <2>. QED
    BY <1>10, <1>a, <2>1, <2>4, <2>5
       DEF FlushWrite, IInv, IndicesAgree, CountAgrees, RoomLeft,
           SlotsHoldBacklog, PushInFlight, Phases
<1>11. CASE FlushAdvance
  <2>1. /\ Written' = Written
        /\ Released' = Released + 1
        /\ Released < Written
        /\ next_read_index_' = Inc(next_read_index_)
        /\ UNCHANGED <<store_, next_write_index_, num_elements_, running_, file_,
                       elem, next, pushed, mpc>>
    BY <1>11, <1>a, <1>c
       DEF FlushAdvance, AdvanceRead, Written, Released, IInv, FlushInFlight, FlushTested
  <2>2. IndicesAgree'
    BY <1>b, <2>1, DistanceRead DEF IInv, IndicesAgree
  <2>3. CountAgrees'
    BY <1>11, <1>b, <1>c, <2>1 DEF FlushAdvance, IInv, CountAgrees
  <2>4. SlotsHoldBacklog'
    <3>1. SUFFICES ASSUME NEW k \in 0 .. Written - Released - 2
                   PROVE  store_[Ahead(Inc(next_read_index_), k)]
                              = pushed[Released + 1 + k + 1]
      BY <1>b, <2>1 DEF SlotsHoldBacklog
    <3>2. Ahead(Inc(next_read_index_), k) = Ahead(next_read_index_, k + 1)
      BY <1>0, <1>b, AheadShift
    <3>3. k + 1 \in 0 .. Written - Released - 1
      BY <1>b
    <3>4. store_[Ahead(next_read_index_, k + 1)] = pushed[Released + (k + 1) + 1]
      BY <3>3 DEF IInv, SlotsHoldBacklog
    <3>5. Released + (k + 1) + 1 = Released + 1 + k + 1
      BY <1>b
    <3>. QED
      BY <3>2, <3>4, <3>5
  <2>. QED
    BY <1>11, <1>a, <2>1, <2>2, <2>3, <2>4
       DEF FlushAdvance, IInv, RoomLeft, PushInFlight, FlushInFlight, Phases,
           FileInOrder
<1>12. CASE FlushCount
  <2>1. /\ Written' = Written
        /\ Released' = Released
        /\ num_elements_ > 0
        /\ num_elements_' = num_elements_ - 1
        /\ lpc = "count" /\ lpc' = "fetch"
        /\ UNCHANGED <<store_, next_write_index_, next_read_index_, running_, file_,
                       elem, next, pushed, mpc>>
    BY <1>12, <1>a, <1>c
       DEF FlushCount, ReadAssert, CountRead, FlushTested, Written, Released
  <2>2. SlotsHoldBacklog' /\ FileInOrder'
    BY <2>1 DEF IInv, SlotsHoldBacklog, FileInOrder
  <2>3. IndicesAgree' /\ FlushInFlight' /\ PushInFlight'
    BY <2>1 DEF IInv, IndicesAgree, FlushInFlight, PushInFlight
  <2>4. CountAgrees'
    BY <1>b, <1>c, <2>1 DEF IInv, CountAgrees
  <2>5. RoomLeft' /\ Phases'
    BY <1>0, <1>c, <2>1 DEF IInv, RoomLeft, Phases
  <2>. QED
    BY <1>a, <2>2, <2>3, <2>4, <2>5 DEF IInv
<1>13. CASE UNCHANGED vars
  BY <1>13, <1>a
     DEF vars, IInv, IndicesAgree, CountAgrees, RoomLeft,
         SlotsHoldBacklog, PushInFlight, FlushInFlight, Phases, FileInOrder,
         Written, Released
<1>. QED
  BY <1>1, <1>2, <1>3, <1>4, <1>5, <1>6, <1>7, <1>8, <1>9, <1>10, <1>11, <1>12,
     <1>13 DEF Next, MainNext, ThreadNext, Terminated

\* While a slot stays free, the indices, the counter, the slots and the file
\* agree on what was pushed and what was written, at every step of both threads.
THEOREM QueueInvariant == ASSUME MaxBacklog < NumElems PROVE Spec => []IInv
BY InvInit, InvStep, PTL DEF Spec

\* The two threads are never inside one slot together.
THEOREM NoRace == ASSUME MaxBacklog < NumElems PROVE Spec => []NoDataRace
<1>1. IInv => NoDataRace
  <2>1. SUFFICES ASSUME IInv, mpc = "write", lpc = "write"
                 PROVE  next # next_write_index_
    BY DEF NoDataRace
  <2>2. next = next_read_index_ /\ Released < Written
    BY <2>1 DEF IInv, FlushTested, FlushInFlight
  <2>. QED
    BY <2>1, <2>2, Backlog, DistanceRange DEF IInv, IndicesAgree
<1>. QED
  BY <1>1, QueueInvariant, PTL

\* A closed log file holds every element that was logged, in order.
THEOREM ClosedFileComplete ==
    ASSUME MaxBacklog < NumElems PROVE Spec => []ClosedComplete
<1>1. IInv => ClosedComplete
  <2>1. SUFFICES ASSUME IInv, mpc = "closed" PROVE file_ = pushed
    BY DEF ClosedComplete
  <2>2. lpc = "exit" /\ num_elements_ = 0
    BY <2>1 DEF IInv, Phases
  <2>3. Len(file_) = Len(pushed)
    BY <2>1, <2>2 DEF IInv, CountAgrees, Written, Released, TypeOK
  <2>4. \A k \in 1 .. Len(file_) : file_[k] = pushed[k]
    BY <2>1 DEF IInv, FileInOrder
  <2>. QED
    BY <2>1, <2>3, <2>4 DEF IInv, TypeOK
<1>. QED
  BY <1>1, QueueInvariant, PTL

-----------------------------------------------------------------------------
(* The two threads and their ring implement a plain FIFO channel.          *)

\* The refinement maps the initial states ...
LEMMA FifoInit == Init => F!Init
BY DEF Init, F!Init

\* ... and every step to a step of the queue's specification or none.
LEMMA FifoStep ==
    ASSUME MaxBacklog < NumElems, IInv, IInv', [Next]_vars
    PROVE  [F!Next]_(F!vars)
<1>. USE DEF Main, Thread
<1>1. CASE PushAdvance
  <2>1. elem \in Elem /\ F!Send(elem)
    BY <1>1 DEF PushAdvance, IInv, TypeOK, F!Send
  <2>. QED
    BY <2>1 DEF F!Next
<1>2. CASE FlushWrite
  <2>1. Len(file_) < Len(pushed)
    BY <1>2 DEF FlushWrite, IInv, FlushTested, FlushInFlight, Written, Released, TypeOK
  <2>2. file_' = Append(file_, pushed[Len(file_) + 1])
    <3>1. Len(file_') = Len(file_) + 1 /\ pushed' = pushed
      BY <1>2 DEF FlushWrite, IInv, TypeOK
    <3>2. file_'[Len(file_) + 1] = pushed[Len(file_) + 1]
      BY <3>1 DEF IInv, FileInOrder, TypeOK
    <3>3. file_'[Len(file_) + 1] = store_[next]
      BY <1>2 DEF FlushWrite, IInv, TypeOK
    <3>. QED
      BY <1>2, <3>2, <3>3 DEF FlushWrite
  <2>3. mpc # "closed" /\ mpc' # "closed"
    BY <1>2 DEF FlushWrite, IInv, Phases
  <2>. QED
    BY <1>2, <2>1, <2>2, <2>3 DEF FlushWrite, F!Next, F!Receive
<1>3. CASE Join
  <2>1. file_ = pushed
    <3>1. num_elements_ = 0 /\ lpc = "exit"
      BY <1>3 DEF Join, IInv, Phases
    <3>2. Len(file_) = Len(pushed)
      BY <1>3, <3>1 DEF Join, IInv, CountAgrees, Written, Released, TypeOK
    <3>. QED
      BY <3>2 DEF IInv, FileInOrder, TypeOK
  <2>. QED
    BY <1>3, <2>1 DEF Join, F!Next, F!Close
<1>4. CASE Construct \/ BeginPush \/ PushWrite \/ PushCount \/ Destroy \/ Drain \/ Stop
  BY <1>4 DEF Construct, Abort, BeginPush, PushWrite, PushCount, Destroy, Drain, Stop,
              F!vars
<1>5. CASE FlushLoop \/ FlushFetch \/ FlushSize \/ FlushAdvance
  BY <1>5 DEF FlushLoop, FlushFetch, FlushSize, FlushAdvance, F!vars
<1>6. CASE FlushCount
  BY <1>6 DEF FlushCount, Abort, IInv, FlushTested, ReadAssert, F!vars
<1>7. CASE UNCHANGED vars
  BY <1>7 DEF vars, F!vars
<1>. QED
  BY <1>1, <1>2, <1>3, <1>4, <1>5, <1>6, <1>7
     DEF Next, MainNext, ThreadNext, Terminated

\* What main pushes comes out in the file, each element once and in order, and
\* the file is closed only when nothing is missing from it.
THEOREM LoggerImplementsFifo ==
    ASSUME MaxBacklog < NumElems PROVE Spec => F!Spec
BY InvInit, InvStep, FifoInit, FifoStep, PTL DEF Spec, F!Spec

=============================================================================
